------------------------- MODULE SmartPointerProofs -------------------------
(***************************************************************************)
(* The properties of module SmartPointer, for every set of pointers,       *)
(* blocks and counters, and the refinement of SharedOwnership.  They       *)
(* follow from one inductive invariant: until the first fault the memory   *)
(* is sound, the count of each singleton is the number of its users, and   *)
(* the static pointers that exist are the constructed ones.                *)
(***************************************************************************)
EXTENDS SmartPointer, FiniteSetTheorems, TLAPS

Sharers(mm, r) == {p \in mm.live : mm.ptr[p].refs = r}

\* The memory mm is sound when the client owns the blocks in R itself.
Sound(mm, R) ==
    /\ mm \in Memory /\ ~mm.failed /\ mm.faults = {}
    /\ IsFiniteSet(mm.live)
    /\ mm.live \cap Blocks = InUse(mm)
    /\ mm.mv["small"].blocks \cap mm.mv["large"].blocks = {}
    /\ \A s \in Sizes : mm.mv[s].blocks # {} => mm.mv[s].pool = "ready"
    /\ \A p \in Pointers :
        /\ p \notin mm.live \/ mm.ptr[p].refs = NULL => mm.ptr[p] = Blank
        /\ mm.ptr[p].t \in InUse(mm) \cup {NULL}
        /\ mm.ptr[p].t \notin R
    /\ \A p, q \in Pointers :
        /\ mm.ptr[p].refs = mm.ptr[q].refs => mm.ptr[p].t = mm.ptr[q].t
        /\ mm.ptr[p].t = mm.ptr[q].t /\ mm.ptr[p].t # NULL
               => mm.ptr[p].refs = mm.ptr[q].refs
    /\ \A r \in Counters : mm.count[r] = Cardinality(Sharers(mm, r))
    /\ R \subseteq InUse(mm)
    /\ \A b \in InUse(mm) : b \in R \/ \E p \in Pointers : mm.ptr[p].t = b

\* The GJAlloc objects that share the singleton for blocks of size s.
Users(s) == {h \in Built \cap StaticHandles : Size(h) = s}
            \cup {h \in {AutoHandle} : handle /\ Size(h) = s}

Pools ==
    \A s \in Sizes : /\ m.mv[s].cnt = Cardinality(Users(s))
                     /\ m.mv[s].pool = "ready" <=> Users(s) # {}
                     /\ ~exiting => m.mv[s].pool # "destroyed"

Statically ==
    /\ \A i, j \in DOMAIN built : built[i] = built[j] => i = j
    /\ m.live \cap Statics = Built \cap Statics
    /\ handle => ~exiting /\ Built = StaticObjects

Clean == /\ Sound(m, raw)
         /\ raw \subseteq m.mv["small"].blocks
         /\ Pools
         /\ Statically

Inv == TypeOK /\ (m.faults = {} => Clean)

----------------------------------------------------------------------------
(* What the assumptions on the constants say *)

LEMMA FourHandles ==
    /\ AllocT # AllocX /\ AllocT # StaticHandle /\ AllocT # AutoHandle
    /\ AllocX # StaticHandle /\ AllocX # AutoHandle
    /\ StaticHandle # AutoHandle
<1> DEFINE T == {AllocT, AllocX, StaticHandle, AutoHandle}
<1> HIDE DEF T
<1>1. ASSUME NEW x, NEW y, NEW z, T = {x, y, z}
      PROVE  FALSE
  <2>1. IsFiniteSet({x}) /\ Cardinality({x}) = 1
    BY FS_Singleton
  <2>2. IsFiniteSet({x} \cup {y}) /\ Cardinality({x} \cup {y}) <= 2
    BY <2>1, FS_AddElement
  <2>3. IsFiniteSet({x} \cup {y}) => Cardinality({x} \cup {y}) \in Nat
    BY FS_CardinalityType
  <2>4. /\ IsFiniteSet(({x} \cup {y}) \cup {z})
        /\ Cardinality(({x} \cup {y}) \cup {z}) <= 3
    BY <2>2, <2>3, FS_AddElement
  <2>5. ({x} \cup {y}) \cup {z} = T
    BY <1>1
  <2> QED BY <2>4, <2>5, PlaceAssumption DEF T
<1>2. AllocT # AllocX
  BY <1>1 DEF T
<1>3. AllocT # StaticHandle
  BY <1>1 DEF T
<1>4. AllocT # AutoHandle
  BY <1>1 DEF T
<1>5. AllocX # StaticHandle
  BY <1>1 DEF T
<1>6. AllocX # AutoHandle
  BY <1>1 DEF T
<1>7. StaticHandle # AutoHandle
  BY <1>1 DEF T
<1> QED BY <1>2, <1>3, <1>4, <1>5, <1>6, <1>7

\* Where a pointer is, and what it never is.
LEMMA Places ==
    /\ Roots \subseteq Pointers /\ Blocks \subseteq Pointers
    /\ Roots \cap Blocks = {} /\ Statics \cap Autos = {}
    /\ Roots = Statics \cup Autos /\ Pointers = Roots \cup Blocks
    /\ NULL \notin Blocks /\ NULL \notin Counters
    /\ CLIENT \notin Pointers
    /\ Statics \cap StaticHandles = {} /\ AutoHandle \notin StaticHandles
BY PlaceAssumption, FourHandles DEF Roots, Pointers, StaticHandles

LEMMA SizeOf ==
    /\ Sizes = {"small", "large"}
    /\ \A o : Size(o) \in Sizes
    /\ Size(AllocT) = "small" /\ Size(StaticHandle) = "small"
    /\ Size(AutoHandle) = "small"
    /\ \A p \in Statics : Size(p) = "small"
BY PlaceAssumption, FourHandles DEF Size, Sizes

LEMMA InUseOf ==
    ASSUME NEW mm
    PROVE  InUse(mm) = mm.mv["small"].blocks \cup mm.mv["large"].blocks
BY SizeOf DEF InUse

----------------------------------------------------------------------------
(* The operations keep memory well-typed *)

LEMMA BlankType == Blank \in [t : Blocks \cup {NULL}, refs : Counters \cup {NULL}]
BY DEF Blank

LEMMA FaultType ==
    ASSUME NEW mm \in Memory, NEW f \in Faults, NEW happens
    PROVE  /\ Fault(mm, f, happens) \in Memory
           /\ Failure(mm) \in Memory
BY DEF Fault, Failure, Memory

LEMMA RemovedType ==
    ASSUME NEW mm \in Memory, NEW P
    PROVE  Removed(mm, P) \in Memory
BY BlankType DEF Removed, Memory

LEMMA SingletonType ==
    ASSUME NEW x \in Singleton
    PROVE  /\ MV(x) \in Singleton
           /\ \A b \in Blocks : /\ allocate(x, b) \in Singleton
                               /\ deallocate(x, b) \in Singleton
           /\ register_alloc(x) \in Singleton
           /\ unregister_alloc(x) \in Singleton
<1> DEFINE up == (x.cnt + 1) % CntMod  down == (x.cnt + CntMod - 1) % CntMod
<1>1. x.cnt \in 0 .. CntMod - 1 /\ CntMod \in Nat /\ CntMod > 4
  BY CntAssumption, HandleAssumption DEF Singleton
<1>2. up \in 0 .. CntMod - 1 /\ down \in 0 .. CntMod - 1
  BY <1>1
<1>3. MV(x) \in Singleton
  BY <1>1 DEF MV, Singleton
<1>4. ASSUME NEW b \in Blocks
      PROVE  allocate(x, b) \in Singleton /\ deallocate(x, b) \in Singleton
  BY DEF allocate, deallocate, Singleton
<1>5. register_alloc(x) \in Singleton
  <2>1. [x EXCEPT !.cnt = up] \in Singleton
    BY <1>2 DEF Singleton
  <2> HIDE DEF up
  <2>2. ba_init([x EXCEPT !.cnt = up]) \in Singleton
    BY <2>1 DEF ba_init, Singleton
  <2> QED BY <2>1, <2>2 DEF register_alloc, up
<1>6. unregister_alloc(x) \in Singleton
  <2>1. [x EXCEPT !.cnt = down] \in Singleton
    BY <1>2 DEF Singleton
  <2> HIDE DEF down
  <2>2. ba_destroy([x EXCEPT !.cnt = down]) \in Singleton
    BY <2>1 DEF ba_destroy, Singleton
  <2> QED BY <2>1, <2>2 DEF unregister_alloc, down
<1> QED BY <1>3, <1>4, <1>5, <1>6

LEMMA DeallocatedType ==
    ASSUME NEW mm \in Memory, NEW b \in Blocks \cup {NULL}, NEW size \in Sizes
    PROVE  Deallocated(mm, b, size) \in Memory
<1>1. CASE CanDeallocate(mm.mv[size], b)
  <2>1. mm.mv[size] \in Singleton
    BY DEF Memory
  <2>2. b \in Blocks
    BY <1>1, <2>1 DEF CanDeallocate, Singleton
  <2>3. deallocate(mm.mv[size], b) \in Singleton
    BY <2>1, <2>2, SingletonType
  <2>4. [mm EXCEPT !.mv[size] = deallocate(@, b)] \in Memory
    BY <2>3 DEF Memory
  <2> QED BY <1>1, <2>4, RemovedType DEF Deallocated
<1>2. CASE ~CanDeallocate(mm.mv[size], b)
  BY <1>2, FaultType DEF Deallocated, Faults
<1> QED BY <1>1, <1>2

LEMMA ReleasedType ==
    ASSUME NEW mm \in Memory, NEW p \in Pointers
    PROVE  Released(mm, p) \in Memory
<1> DEFINE b == mm.ptr[p].t  r == mm.ptr[p].refs
           gone == [mm EXCEPT !.count[r] = 0]
<1>1. b \in Blocks \cup {NULL} /\ r \in Counters \cup {NULL}
  BY DEF Memory
<1>2. ASSUME r # NULL, mm.count[r] > 1
      PROVE  [mm EXCEPT !.count[r] = @ - 1] \in Memory
  BY <1>1, <1>2 DEF Memory
<1>3. gone \in Memory
  BY DEF Memory
<1> HIDE DEF gone
<1>4. ASSUME NEW x, NEW y, NEW z
      PROVE  Deallocated(Fault(Fault(Fault(gone, "null", x), "member", y),
                               "size", z), b, Size(p)) \in Memory
  <2>1. Fault(gone, "null", x) \in Memory
    BY <1>3, FaultType DEF Faults
  <2>2. Fault(Fault(gone, "null", x), "member", y) \in Memory
    BY <2>1, FaultType DEF Faults
  <2>3. Fault(Fault(Fault(gone, "null", x), "member", y), "size", z) \in Memory
    BY <2>2, FaultType DEF Faults
  <2> QED BY <2>3, <1>1, SizeOf, DeallocatedType
<1>5. Failure(mm) \in Memory
  BY FaultType DEF Faults
<1> QED BY <1>2, <1>4, <1>5 DEF Released, gone

LEMMA JoinedType ==
    ASSUME NEW mm \in Memory, NEW p \in Pointers, NEW q \in Pointers
    PROVE  Joined(mm, p, q) \in Memory
<1>1. Failure(mm) \in Memory
  BY FaultType DEF Faults
<1> DEFINE c == [r \in Counters |-> IF r = mm.ptr[q].refs THEN mm.count[r] + 1
                                   ELSE mm.count[r]]
<1>2. c \in [Counters -> Nat]
  BY DEF Memory
<1> HIDE DEF c
<1>3. [mm EXCEPT !.ptr[p] = mm.ptr[q], !.count = c] \in Memory
  BY <1>2 DEF Memory
<1> QED BY <1>1, <1>3 DEF Joined, c

LEMMA AssignedType ==
    ASSUME NEW mm \in Memory, NEW p \in Pointers, NEW q \in Pointers
    PROVE  Assigned(mm, p, q) \in Memory
<1>1. Released(mm, p) \in Memory
  BY ReleasedType
<1>2. ASSUME NEW x
      PROVE  Fault(Released(mm, p), "self", x) \in Memory
  BY <1>1, FaultType DEF Faults
<1> QED BY <1>2, JoinedType DEF Assigned

LEMMA AllocatedType ==
    ASSUME NEW mm \in Memory, NEW b \in Blocks, NEW size \in Sizes
    PROVE  Allocated(mm, b, size) \in Memory
<1>1. Failure(Fault(mm, "early", TRUE)) \in Memory
  <2>1. Fault(mm, "early", TRUE) \in Memory
    BY FaultType DEF Faults
  <2> QED BY <2>1, FaultType DEF Faults
<1>2. [mm EXCEPT !.mv[size] = allocate(@, b), !.live = @ \cup {b}] \in Memory
  <2>1. allocate(mm.mv[size], b) \in Singleton
    BY SingletonType DEF Memory
  <2> QED BY <2>1, Places DEF Memory
<1> QED BY <1>1, <1>2 DEF Allocated

LEMMA RegisteredType ==
    ASSUME NEW mm \in Memory, NEW size \in Sizes
    PROVE  /\ Registered(mm, size) \in Memory
           /\ Unregistered(mm, size) \in Memory
           /\ Fault([mm EXCEPT !.mv[size] = MV(@)], "order",
                    mm.mv[size].cnt # 0) \in Memory
<1> DEFINE s == unregister_alloc(mm.mv[size])
<1>1. mm.mv[size] \in Singleton
  BY DEF Memory
<1>2. /\ register_alloc(mm.mv[size]) \in Singleton /\ s \in Singleton
      /\ MV(mm.mv[size]) \in Singleton
  BY <1>1, SingletonType
<1>3. /\ [mm EXCEPT !.mv[size] = register_alloc(@)] \in Memory
      /\ [mm EXCEPT !.mv[size] = MV(@)] \in Memory
  BY <1>2 DEF Memory
<1> HIDE DEF s
<1>4. [mm EXCEPT !.mv[size] = s] \in Memory
  BY <1>2 DEF Memory
<1>5. ASSUME NEW x, NEW P
      PROVE  Removed(Fault([mm EXCEPT !.mv[size] = s], "late", x), P) \in Memory
  <2>1. Fault([mm EXCEPT !.mv[size] = s], "late", x) \in Memory
    BY <1>4, FaultType DEF Faults
  <2> QED BY <2>1, RemovedType
<1>6. Unregistered(mm, size) \in Memory
  BY <1>5 DEF Unregistered, s
<1>7. Fault([mm EXCEPT !.mv[size] = MV(@)], "order", mm.mv[size].cnt # 0)
          \in Memory
  BY <1>3, FaultType DEF Faults
<1> QED BY <1>3, <1>6, <1>7 DEF Registered

----------------------------------------------------------------------------
(* The parts of the operations keep memory sound *)

\* The singletons of nn count and are as those of mm, and have no more blocks.
SamePools(mm, nn) == \A s \in Sizes : /\ nn.mv[s].cnt = mm.mv[s].cnt
                                     /\ nn.mv[s].pool = mm.mv[s].pool

NoMoreBlocks(mm, nn) == \A s \in Sizes : nn.mv[s].blocks \subseteq mm.mv[s].blocks

\* A pointer that is not the last sharer of its counter lets go.
LEMMA LeavesIsSound ==
    ASSUME NEW mm, NEW R, Sound(mm, R), NEW p \in mm.live,
           NEW r \in Counters, mm.ptr[p].refs = r, mm.count[r] > 1
    PROVE  Sound([mm EXCEPT !.count[r] = @ - 1, !.ptr[p] = Blank], R)
<1> DEFINE d == [mm EXCEPT !.count[r] = @ - 1, !.ptr[p] = Blank]
<1>1. /\ mm \in Memory /\ p \in Pointers
      /\ mm.count[r] = Cardinality(Sharers(mm, r)) /\ mm.count[r] \in Nat
  BY DEF Sound, Memory
<1>2. /\ d.live = mm.live /\ d.mv = mm.mv
      /\ d.failed = mm.failed /\ d.faults = mm.faults
      /\ d.ptr = [mm.ptr EXCEPT ![p] = Blank]
      /\ d.count = [mm.count EXCEPT ![r] = @ - 1]
  BY <1>1 DEF Memory
<1>3. d \in Memory
  <2>1. [mm.count EXCEPT ![r] = @ - 1] \in [Counters -> Nat]
    BY <1>1 DEF Memory
  <2> QED BY <1>1, <2>1, BlankType DEF Memory
<1> HIDE DEF d
<1>4. InUse(d) = InUse(mm)
  BY <1>2, InUseOf
<1>5. /\ \A q \in Pointers : d.ptr[q] = IF q = p THEN Blank ELSE mm.ptr[q]
      /\ Blank.t = NULL /\ Blank.refs = NULL
  BY <1>1, <1>2 DEF Memory, Blank
<1>6. \A q \in Counters : Sharers(d, q) = IF q = r THEN Sharers(mm, r) \ {p}
                                          ELSE Sharers(mm, q)
  BY <1>1, <1>2, <1>5, Places DEF Sharers, Memory
<1>7. Sharers(mm, r) \in SUBSET mm.live /\ p \in Sharers(mm, r)
      /\ IsFiniteSet(Sharers(mm, r))
  <2>1. Sharers(mm, r) \in SUBSET mm.live /\ p \in Sharers(mm, r)
    BY DEF Sharers
  <2> QED BY <2>1, FS_Subset DEF Sound
<1>8. Cardinality(Sharers(mm, r) \ {p}) = mm.count[r] - 1
  BY <1>1, <1>7, FS_RemoveElement
<1>9. \A q \in Counters : d.count[q] = Cardinality(Sharers(d, q))
  BY <1>1, <1>2, <1>6, <1>8 DEF Sound, Memory
<1>10. PICK o \in Sharers(mm, r) : o # p
  <2>1. Sharers(mm, r) # {p}
    BY <1>1, FS_Singleton
  <2> QED BY <2>1, <1>7
<1>11. o \in Pointers /\ mm.ptr[o].refs = mm.ptr[p].refs
  BY <1>1, <1>10 DEF Sharers, Memory
<1>12. \A b \in InUse(d) : b \in R \/ \E q \in Pointers : d.ptr[q].t = b
  <2> TAKE b \in InUse(d)
  <2>1. b \in R \/ \E q \in Pointers : mm.ptr[q].t = b
    BY <1>4 DEF Sound
  <2>2. mm.ptr[o].t = mm.ptr[p].t
    BY <1>1, <1>11 DEF Sound
  <2> QED BY <2>1, <2>2, <1>5, <1>10, <1>11
<1>13. \A q \in Pointers :
        /\ q \notin d.live \/ d.ptr[q].refs = NULL => d.ptr[q] = Blank
        /\ d.ptr[q].t \in InUse(d) \cup {NULL}
        /\ d.ptr[q].t \notin R
  <2>1. R \subseteq Blocks
    BY <1>1, InUseOf, SizeOf DEF Sound, Memory, Singleton
  <2> QED BY <1>1, <1>2, <1>4, <1>5, <2>1, Places DEF Sound
<1>14. \A q, v \in Pointers :
        /\ d.ptr[q].refs = d.ptr[v].refs => d.ptr[q].t = d.ptr[v].t
        /\ d.ptr[q].t = d.ptr[v].t /\ d.ptr[q].t # NULL
               => d.ptr[q].refs = d.ptr[v].refs
  BY <1>1, <1>5 DEF Sound
<1>15. Sound(d, R)
  BY <1>2, <1>3, <1>4, <1>9, <1>12, <1>13, <1>14 DEF Sound
<1> QED BY <1>15 DEF d

\* The last sharer of a counter lets go, and the client has the object.
LEMMA LastLeavesIsSound ==
    ASSUME NEW mm, NEW R, Sound(mm, R), NEW p \in mm.live,
           NEW r \in Counters, mm.ptr[p].refs = r, mm.count[r] = 1,
           NEW b \in Blocks, mm.ptr[p].t = b
    PROVE  Sound([mm EXCEPT !.count[r] = 0, !.ptr[p] = Blank], R \cup {b})
<1> DEFINE d == [mm EXCEPT !.count[r] = 0, !.ptr[p] = Blank]
<1>1. /\ mm \in Memory /\ p \in Pointers
      /\ mm.count[r] = Cardinality(Sharers(mm, r))
  BY DEF Sound, Memory
<1>2. /\ d.live = mm.live /\ d.mv = mm.mv
      /\ d.failed = mm.failed /\ d.faults = mm.faults
      /\ d.ptr = [mm.ptr EXCEPT ![p] = Blank]
      /\ d.count = [mm.count EXCEPT ![r] = 0]
  BY <1>1 DEF Memory
<1>3. d \in Memory
  <2>1. [mm.count EXCEPT ![r] = 0] \in [Counters -> Nat]
    BY <1>1 DEF Memory
  <2> QED BY <1>1, <2>1, BlankType DEF Memory
<1> HIDE DEF d
<1>4. InUse(d) = InUse(mm)
  BY <1>2, InUseOf
<1>5. /\ \A q \in Pointers : d.ptr[q] = IF q = p THEN Blank ELSE mm.ptr[q]
      /\ Blank.t = NULL /\ Blank.refs = NULL
  BY <1>1, <1>2 DEF Memory, Blank
<1>6. Sharers(mm, r) = {p}
  <2>1. p \in Sharers(mm, r) /\ Sharers(mm, r) \in SUBSET mm.live
    BY DEF Sharers
  <2>2. IsFiniteSet(Sharers(mm, r))
    BY <2>1, FS_Subset DEF Sound
  <2> QED BY <1>1, <2>1, <2>2, FS_Singleton
<1>7. \A q \in Counters : Sharers(d, q) = IF q = r THEN {} ELSE Sharers(mm, q)
  BY <1>1, <1>2, <1>5, <1>6, Places DEF Sharers, Memory
<1>8. \A q \in Counters : d.count[q] = Cardinality(Sharers(d, q))
  <2> TAKE q \in Counters
  <2>1. CASE q = r
    <3>1. Sharers(d, q) = {}
      BY <1>7, <2>1
    <3> QED BY <1>1, <1>2, <2>1, <3>1, FS_EmptySet DEF Memory
  <2>2. CASE q # r
    BY <1>1, <1>2, <1>7, <2>2 DEF Sound, Memory
  <2> QED BY <2>1, <2>2
<1>9. \A q \in Pointers : mm.ptr[q].t = b => q = p
  <2> SUFFICES ASSUME NEW q \in Pointers, mm.ptr[q].t = b
               PROVE  q = p
    OBVIOUS
  <2>1. mm.ptr[q].refs = r /\ mm.ptr[q].refs # NULL
    BY <1>1, Places DEF Sound
  <2>2. q \in mm.live
    BY <2>1, <1>5 DEF Sound
  <2> QED BY <1>6, <2>1, <2>2 DEF Sharers
<1>10. \A x \in InUse(d) : x \in R \cup {b} \/ \E q \in Pointers : d.ptr[q].t = x
  BY <1>4, <1>5, <1>9 DEF Sound
<1>11. \A q \in Pointers :
        /\ q \notin d.live \/ d.ptr[q].refs = NULL => d.ptr[q] = Blank
        /\ d.ptr[q].t \in InUse(d) \cup {NULL}
        /\ d.ptr[q].t \notin R \cup {b}
  <2>1. R \subseteq Blocks
    BY <1>1, InUseOf, SizeOf DEF Sound, Memory, Singleton
  <2> QED BY <1>1, <1>2, <1>4, <1>5, <1>9, <2>1, Places DEF Sound
<1>12. \A q, v \in Pointers :
        /\ d.ptr[q].refs = d.ptr[v].refs => d.ptr[q].t = d.ptr[v].t
        /\ d.ptr[q].t = d.ptr[v].t /\ d.ptr[q].t # NULL
               => d.ptr[q].refs = d.ptr[v].refs
  BY <1>1, <1>5 DEF Sound
<1>13. R \cup {b} \subseteq InUse(d)
  BY <1>1, <1>4, Places DEF Sound
<1>14. Sound(d, R \cup {b})
  BY <1>2, <1>3, <1>4, <1>8, <1>10, <1>11, <1>12, <1>13 DEF Sound
<1> QED BY <1>14 DEF d

\* A block of the client goes back to its allocator.
LEMMA DeallocatedIsSound ==
    ASSUME NEW mm, NEW R, Sound(mm, R), NEW size \in Sizes,
           NEW b \in R, b \in mm.mv[size].blocks, mm.ptr[b] = Blank
    PROVE  LET d == Deallocated(mm, b, size)
           IN  /\ Sound(d, R \ {b})
               /\ d.live = mm.live \ {b} /\ b \in Blocks
               /\ d.ptr = mm.ptr /\ d.count = mm.count
               /\ SamePools(mm, d) /\ NoMoreBlocks(mm, d)
<1> DEFINE x == deallocate(mm.mv[size], b)
           d == Removed([mm EXCEPT !.mv[size] = x], {b})
<1>1. mm \in Memory /\ mm.mv[size] \in Singleton /\ b \in Blocks
      /\ b \in Pointers
  <2>1. mm.mv[size] \in Singleton
    BY DEF Sound, Memory
  <2> QED BY <2>1, Places DEF Sound, Singleton
<1>2. Deallocated(mm, b, size) = d
  BY <1>1 DEF Deallocated, CanDeallocate, Sound
<1>3. /\ x \in Singleton
      /\ x.cnt = mm.mv[size].cnt /\ x.pool = mm.mv[size].pool
      /\ x.blocks = mm.mv[size].blocks \ {b}
  BY <1>1 DEF Singleton, deallocate
<1> HIDE DEF x
<1>4. d \in Memory
  <2>1. [mm EXCEPT !.mv[size] = x] \in Memory
    BY <1>1, <1>3 DEF Memory
  <2> QED BY <2>1, RemovedType
<1>5. /\ d.live = mm.live \ {b} /\ d.mv = [mm.mv EXCEPT ![size] = x]
      /\ d.failed = mm.failed /\ d.faults = mm.faults
      /\ d.ptr = mm.ptr /\ d.count = mm.count
  <2>1. [p \in Pointers |-> IF p \in {b} THEN Blank ELSE mm.ptr[p]] = mm.ptr
    BY <1>1 DEF Memory
  <2> QED BY <1>1, <2>1 DEF Removed, Memory
<1> HIDE DEF d
<1>6. \A s \in Sizes : /\ d.mv[s].cnt = mm.mv[s].cnt
                       /\ d.mv[s].pool = mm.mv[s].pool
                       /\ d.mv[s].blocks = mm.mv[s].blocks \ {b}
  <2> TAKE s \in Sizes
  <2>1. s # size => b \notin mm.mv[s].blocks
    BY SizeOf DEF Sound
  <2> QED BY <1>1, <1>3, <1>5, <2>1 DEF Memory
<1>7. InUse(d) = InUse(mm) \ {b}
  BY <1>6, InUseOf, SizeOf
<1>8. \A p \in Pointers : mm.ptr[p].t # b
  BY DEF Sound
<1>9. \A p \in Pointers :
        /\ p \notin d.live \/ d.ptr[p].refs = NULL => d.ptr[p] = Blank
        /\ d.ptr[p].t \in InUse(d) \cup {NULL}
        /\ d.ptr[p].t \notin R \ {b}
  BY <1>5, <1>7, <1>8 DEF Sound
<1>10. \A r \in Counters : d.count[r] = Cardinality(Sharers(d, r))
  <2> TAKE r \in Counters
  <2>1. Sharers(d, r) = Sharers(mm, r)
    BY <1>5, Places DEF Sharers, Blank
  <2> QED BY <1>5, <2>1 DEF Sound
<1>11. IsFiniteSet(d.live)
  BY <1>5, FS_RemoveElement DEF Sound
<1>12. d.live \cap Blocks = InUse(d)
  BY <1>5, <1>7 DEF Sound
<1>13. R \ {b} \subseteq InUse(d)
       /\ \A o \in InUse(d) : o \in R \ {b} \/ \E p \in Pointers : d.ptr[p].t = o
  BY <1>5, <1>7 DEF Sound
<1>14. /\ d.mv["small"].blocks \cap d.mv["large"].blocks = {}
       /\ \A s \in Sizes : d.mv[s].blocks # {} => d.mv[s].pool = "ready"
  BY <1>6, SizeOf DEF Sound
<1>15. Sound(d, R \ {b})
  BY <1>4, <1>5, <1>9, <1>10, <1>11, <1>12, <1>13, <1>14 DEF Sound
<1>16. SamePools(mm, d) /\ NoMoreBlocks(mm, d)
  BY <1>6 DEF SamePools, NoMoreBlocks
<1> QED BY <1>1, <1>2, <1>5, <1>15, <1>16

\* The client gets a block of its own.
LEMMA AllocatedIsSound ==
    ASSUME NEW mm, NEW R, Sound(mm, R), NEW size \in Sizes,
           NEW b \in Blocks \ InUse(mm), CanAllocate(mm.mv[size])
    PROVE  LET d == Allocated(mm, b, size)
           IN  /\ Sound(d, R \cup {b})
               /\ d.live = mm.live \cup {b}
               /\ d.ptr = mm.ptr /\ d.count = mm.count
               /\ d.mv = [mm.mv EXCEPT ![size] = allocate(@, b)]
               /\ InUse(d) = InUse(mm) \cup {b}
<1> DEFINE x == allocate(mm.mv[size], b)
           d == [mm EXCEPT !.mv[size] = x, !.live = @ \cup {b}]
<1>1. mm \in Memory /\ mm.mv[size] \in Singleton /\ b \in Pointers
  BY Places DEF Sound, Memory
<1>2. Allocated(mm, b, size) = d
  BY DEF Allocated
<1>3. /\ x \in Singleton
      /\ x.cnt = mm.mv[size].cnt /\ x.pool = "ready"
      /\ x.blocks = mm.mv[size].blocks \cup {b}
  BY <1>1 DEF Singleton, allocate
<1>4. d \in Memory
  BY <1>2, AllocatedType, <1>1
<1> HIDE DEF x
<1>5. /\ d.live = mm.live \cup {b} /\ d.mv = [mm.mv EXCEPT ![size] = x]
      /\ d.failed = mm.failed /\ d.faults = mm.faults
      /\ d.ptr = mm.ptr /\ d.count = mm.count
  BY <1>1 DEF Memory
<1> HIDE DEF d
<1>6. \A s \in Sizes : d.mv[s] = IF s = size THEN x ELSE mm.mv[s]
  BY <1>1, <1>5 DEF Memory
<1>7. InUse(d) = InUse(mm) \cup {b}
  BY <1>3, <1>6, InUseOf, SizeOf
<1>8. \A p \in Pointers : mm.ptr[p].t # b
  BY Places DEF Sound
<1>9. mm.ptr[b] = Blank /\ b \notin mm.live
  BY <1>1 DEF Sound
<1>10. \A p \in Pointers :
        /\ p \notin d.live \/ d.ptr[p].refs = NULL => d.ptr[p] = Blank
        /\ d.ptr[p].t \in InUse(d) \cup {NULL}
        /\ d.ptr[p].t \notin R \cup {b}
  BY <1>5, <1>7, <1>8 DEF Sound
<1>11. \A r \in Counters : d.count[r] = Cardinality(Sharers(d, r))
  <2> TAKE r \in Counters
  <2>1. Sharers(d, r) = Sharers(mm, r)
    BY <1>5, <1>9, Places DEF Sharers, Blank
  <2> QED BY <1>5, <2>1 DEF Sound
<1>12. IsFiniteSet(d.live)
  BY <1>5, FS_AddElement DEF Sound
<1>13. d.live \cap Blocks = InUse(d)
  BY <1>5, <1>7 DEF Sound
<1>14. R \cup {b} \subseteq InUse(d)
       /\ \A o \in InUse(d) : o \in R \cup {b} \/ \E p \in Pointers : d.ptr[p].t = o
  BY <1>5, <1>7 DEF Sound
<1>15. /\ d.mv["small"].blocks \cap d.mv["large"].blocks = {}
       /\ \A s \in Sizes : d.mv[s].blocks # {} => d.mv[s].pool = "ready"
  <2>1. \A s \in Sizes : b \notin mm.mv[s].blocks
    BY InUseOf, SizeOf
  <2> QED BY <1>3, <1>6, <2>1, SizeOf DEF Sound
<1>16. Sound(d, R \cup {b})
  BY <1>4, <1>5, <1>10, <1>11, <1>12, <1>13, <1>14, <1>15 DEF Sound
<1> QED BY <1>2, <1>5, <1>7, <1>16 DEF x

\* What a constructor does to memory, and what it makes of a block it is given.
Alive(mm, p) == [mm EXCEPT !.live = @ \cup {p}]

Taken(mm, p, b, r) == [mm EXCEPT !.ptr[p] = [t |-> b, refs |-> r],
                                 !.count[r] = 1]

\* p, which points to nothing, becomes a sharer of q's object.
LEMMA JoinedIsSound ==
    ASSUME NEW mm, NEW R, Sound(mm, R), NEW p \in Roots \cup mm.live,
           mm.ptr[p] = Blank, NEW q \in mm.live
    PROVE  LET j == Joined(mm, p, q)
           IN  /\ Sound(Alive(j, p), R)
               /\ j.live = mm.live /\ j.mv = mm.mv
               /\ j.ptr = [mm.ptr EXCEPT ![p] = mm.ptr[q]]
               /\ j \in Memory /\ j.faults = {}
<1> DEFINE v == mm.ptr[q]
           c == [r \in Counters |-> IF r = v.refs THEN mm.count[r] + 1
                                    ELSE mm.count[r]]
           j == [mm EXCEPT !.ptr[p] = v, !.count = c]
           d == [j EXCEPT !.live = @ \cup {p}]
<1>1. /\ mm \in Memory /\ p \in Pointers /\ q \in Pointers
      /\ v \in [t : Blocks \cup {NULL}, refs : Counters \cup {NULL}]
  BY Places DEF Sound, Memory
<1>2. ~(v.refs # NULL /\ mm.count[v.refs] = 0)
  <2> SUFFICES ASSUME v.refs # NULL, mm.count[v.refs] = 0
               PROVE  FALSE
    OBVIOUS
  <2>1. v.refs \in Counters
    BY <1>1
  <2>2. q \in Sharers(mm, v.refs) /\ Sharers(mm, v.refs) \in SUBSET mm.live
    BY DEF Sharers
  <2>3. IsFiniteSet(Sharers(mm, v.refs))
    BY <2>2, FS_Subset DEF Sound
  <2>4. Cardinality(Sharers(mm, v.refs)) = 0
    BY <2>1 DEF Sound
  <2> QED BY <2>2, <2>3, <2>4, FS_EmptySet
<1>3. Joined(mm, p, q) = j
  BY <1>2 DEF Joined
<1>4. j \in Memory
  BY <1>1, <1>3, JoinedType
<1> HIDE DEF c
<1>5. /\ j.live = mm.live /\ j.mv = mm.mv /\ j.faults = {}
      /\ j.ptr = [mm.ptr EXCEPT ![p] = v]
      /\ j.count = c /\ j.failed = mm.failed
  BY <1>1 DEF Memory, Sound
<1> HIDE DEF j
<1>6. d \in Memory
  BY <1>1, <1>4, Places DEF Memory
<1>7. /\ d.live = mm.live \cup {p} /\ d.mv = mm.mv
      /\ d.failed = mm.failed /\ d.faults = mm.faults
      /\ d.ptr = [mm.ptr EXCEPT ![p] = v]
      /\ d.count = c
  BY <1>4, <1>5 DEF Memory, Sound
<1> HIDE DEF d
<1>8. InUse(d) = InUse(mm)
  BY <1>7, InUseOf
<1>9. \A o \in Pointers : d.ptr[o] = IF o = p THEN v ELSE mm.ptr[o]
  BY <1>1, <1>7 DEF Memory
<1>10. Blank.t = NULL /\ Blank.refs = NULL
  BY DEF Blank
<1>11. \A r \in Counters : d.count[r] = Cardinality(Sharers(d, r))
  <2> TAKE r \in Counters
  <2>1. p \notin Sharers(mm, r) /\ r # NULL
    BY <1>10, Places DEF Sharers
  <2>2. CASE r = v.refs
    <3>1. Sharers(d, r) = Sharers(mm, r) \cup {p}
      BY <1>1, <1>7, <1>9, <2>1, <2>2 DEF Sharers, Memory
    <3>2. IsFiniteSet(Sharers(mm, r))
      <4>1. Sharers(mm, r) \in SUBSET mm.live
        BY DEF Sharers
      <4> QED BY <4>1, FS_Subset DEF Sound
    <3>3. Cardinality(Sharers(d, r)) = Cardinality(Sharers(mm, r)) + 1
      BY <2>1, <3>1, <3>2, FS_AddElement
    <3> QED BY <1>7, <2>2, <3>3 DEF c, Sound
  <2>3. CASE r # v.refs
    <3>1. Sharers(d, r) = Sharers(mm, r)
      BY <1>1, <1>7, <1>9, <2>1, <2>3 DEF Sharers, Memory
    <3> QED BY <1>7, <2>3, <3>1 DEF c, Sound
  <2> QED BY <2>2, <2>3
<1>12. \A o \in Pointers :
        /\ o \notin d.live \/ d.ptr[o].refs = NULL => d.ptr[o] = Blank
        /\ d.ptr[o].t \in InUse(d) \cup {NULL}
        /\ d.ptr[o].t \notin R
  BY <1>1, <1>7, <1>8, <1>9 DEF Sound
<1>13. \A o, w \in Pointers :
        /\ d.ptr[o].refs = d.ptr[w].refs => d.ptr[o].t = d.ptr[w].t
        /\ d.ptr[o].t = d.ptr[w].t /\ d.ptr[o].t # NULL
               => d.ptr[o].refs = d.ptr[w].refs
  BY <1>1, <1>9 DEF Sound
<1>14. IsFiniteSet(d.live)
  BY <1>7, FS_AddElement DEF Sound
<1>15. d.live \cap Blocks = InUse(d)
  BY <1>7, <1>8, Places DEF Sound
<1>16. \A b \in InUse(d) : b \in R \/ \E o \in Pointers : d.ptr[o].t = b
  <2> TAKE b \in InUse(d)
  <2>1. b \in R \/ \E o \in Pointers : mm.ptr[o].t = b
    BY <1>8 DEF Sound
  <2>2. b # NULL
    BY <1>1, <1>8, Places DEF Sound
  <2> QED BY <1>9, <1>10, <2>1, <2>2
<1>17. Sound(d, R)
  BY <1>6, <1>7, <1>8, <1>11, <1>12, <1>13, <1>14, <1>15, <1>16 DEF Sound
<1> QED BY <1>3, <1>4, <1>5, <1>17 DEF d, Alive

\* A variable is constructed and points to nothing.
LEMMA BlankIsSound ==
    ASSUME NEW mm, NEW R, Sound(mm, R), NEW p \in Roots
    PROVE  LET d == Alive(mm, p)
           IN  /\ p \notin mm.live => Sound(d, R)
               /\ d.live = mm.live \cup {p} /\ d.mv = mm.mv
               /\ d.ptr = mm.ptr /\ d.faults = mm.faults
<1> DEFINE d == [mm EXCEPT !.live = @ \cup {p}]
<1>1. mm \in Memory /\ p \in Pointers /\ p \notin Blocks
  BY Places DEF Sound
<1>2. /\ d.live = mm.live \cup {p} /\ d.mv = mm.mv
      /\ d.failed = mm.failed /\ d.faults = mm.faults
      /\ d.ptr = mm.ptr /\ d.count = mm.count
      /\ d \in Memory
  BY <1>1 DEF Memory
<1> HIDE DEF d
<1>3. ASSUME p \notin mm.live
      PROVE  Sound(d, R)
  <2>1. mm.ptr[p] = Blank
    BY <1>1, <1>3 DEF Sound
  <2>2. \A r \in Counters : Sharers(d, r) = Sharers(mm, r)
    BY <1>2, <2>1, Places DEF Sharers, Blank
  <2>3. IsFiniteSet(d.live)
    BY <1>2, FS_AddElement DEF Sound
  <2>4. d.live \cap Blocks = mm.live \cap Blocks /\ InUse(d) = InUse(mm)
    BY <1>1, <1>2, InUseOf
  <2> QED BY <1>2, <2>2, <2>3, <2>4 DEF Sound
<1> QED BY <1>2, <1>3 DEF d, Alive

\* A variable is constructed and takes a block of the client over, or NULL.
LEMMA AdoptedIsSound ==
    ASSUME NEW mm, NEW R, Sound(mm, R), NEW p \in Roots, p \notin mm.live,
           NEW b \in R \cup {NULL}, NEW r \in Counters, mm.count[r] = 0
    PROVE  LET a == Taken(mm, p, b, r)
           IN  /\ Sound(Alive(a, p), R \ {b})
               /\ a \in Memory /\ a.live = mm.live /\ a.mv = mm.mv
               /\ a.ptr = [mm.ptr EXCEPT ![p] = [t |-> b, refs |-> r]]
<1> DEFINE v == [t |-> b, refs |-> r]
           a == [mm EXCEPT !.ptr[p] = v, !.count[r] = 1]
           d == [a EXCEPT !.live = @ \cup {p}]
<1>1. /\ mm \in Memory /\ p \in Pointers /\ p \notin Blocks
      /\ InUse(mm) \subseteq Blocks
  BY Places DEF Sound
<1>2. /\ v \in [t : Blocks \cup {NULL}, refs : Counters \cup {NULL}]
      /\ v.t = b /\ v.refs = r /\ r # NULL
  BY <1>1, Places DEF Sound
<1> HIDE DEF v
<1>3. a \in Memory
  <2>1. [mm.count EXCEPT ![r] = 1] \in [Counters -> Nat]
    BY <1>1 DEF Memory
  <2> QED BY <1>1, <1>2, <2>1 DEF Memory
<1>4. /\ a.live = mm.live /\ a.mv = mm.mv /\ a.faults = mm.faults
      /\ a.ptr = [mm.ptr EXCEPT ![p] = v]
      /\ a.count = [mm.count EXCEPT ![r] = 1] /\ a.failed = mm.failed
  BY <1>1 DEF Memory
<1> HIDE DEF a
<1>5. d \in Memory
  BY <1>1, <1>3 DEF Memory
<1>6. /\ d.live = mm.live \cup {p} /\ d.mv = mm.mv
      /\ d.failed = mm.failed /\ d.faults = mm.faults
      /\ d.ptr = [mm.ptr EXCEPT ![p] = v]
      /\ d.count = [mm.count EXCEPT ![r] = 1]
  BY <1>3, <1>4 DEF Memory
<1> HIDE DEF d
<1>7. InUse(d) = InUse(mm)
  BY <1>6, InUseOf
<1>8. /\ \A o \in Pointers : d.ptr[o] = IF o = p THEN v ELSE mm.ptr[o]
      /\ mm.ptr[p] = Blank /\ Blank.t = NULL /\ Blank.refs = NULL
  BY <1>1, <1>6 DEF Memory, Blank, Sound
<1>9. Sharers(mm, r) = {}
  <2>1. Sharers(mm, r) \in SUBSET mm.live
    BY DEF Sharers
  <2>2. IsFiniteSet(Sharers(mm, r)) /\ Cardinality(Sharers(mm, r)) = 0
    BY <2>1, FS_Subset DEF Sound
  <2> QED BY <2>2, FS_EmptySet
<1>10. \A o \in Pointers : mm.ptr[o].refs # r
  BY <1>2, <1>8, <1>9 DEF Sound, Sharers
<1>11. \A o \in Counters : d.count[o] = Cardinality(Sharers(d, o))
  <2> TAKE o \in Counters
  <2>1. CASE o = r
    <3>1. Sharers(d, o) = {p}
      BY <1>1, <1>2, <1>6, <1>8, <1>10, <2>1 DEF Sharers, Memory
    <3>2. Cardinality(Sharers(d, o)) = 1
      BY <3>1, FS_Singleton
    <3> QED BY <1>1, <1>6, <2>1, <3>2 DEF Memory
  <2>2. CASE o # r
    <3>1. Sharers(d, o) = Sharers(mm, o)
      BY <1>1, <1>2, <1>6, <1>8, <2>2, Places DEF Sharers, Memory
    <3> QED BY <1>1, <1>6, <2>2, <3>1 DEF Memory, Sound
  <2> QED BY <2>1, <2>2
<1>12. \A o \in Pointers :
        /\ o \notin d.live \/ d.ptr[o].refs = NULL => d.ptr[o] = Blank
        /\ d.ptr[o].t \in InUse(d) \cup {NULL}
        /\ d.ptr[o].t \notin R \ {b}
  BY <1>1, <1>2, <1>6, <1>7, <1>8, Places DEF Sound
<1>13. \A o \in Pointers : b # NULL => mm.ptr[o].t # b
  BY DEF Sound
<1>14. \A o, w \in Pointers :
        /\ d.ptr[o].refs = d.ptr[w].refs => d.ptr[o].t = d.ptr[w].t
        /\ d.ptr[o].t = d.ptr[w].t /\ d.ptr[o].t # NULL
               => d.ptr[o].refs = d.ptr[w].refs
  BY <1>1, <1>2, <1>8, <1>10, <1>13 DEF Sound
<1>15. IsFiniteSet(d.live)
  BY <1>6, FS_AddElement DEF Sound
<1>16. d.live \cap Blocks = InUse(d) /\ R \ {b} \subseteq InUse(d)
  BY <1>1, <1>6, <1>7 DEF Sound
<1>17. \A x \in InUse(d) : x \in R \ {b} \/ \E o \in Pointers : d.ptr[o].t = x
  <2> TAKE x \in InUse(d)
  <2>1. x \in R \/ \E o \in Pointers : mm.ptr[o].t = x
    BY <1>7 DEF Sound
  <2>2. x # NULL
    BY <1>1, <1>7, Places
  <2> QED BY <1>1, <1>2, <1>8, <2>1, <2>2
<1>18. Sound(d, R \ {b})
  BY <1>5, <1>6, <1>7, <1>11, <1>12, <1>14, <1>15, <1>16, <1>17 DEF Sound
<1> QED BY <1>3, <1>4, <1>18 DEF d, a, v, Alive, Taken

LEMMA SameMemory ==
    ASSUME NEW a \in Memory, NEW b \in Memory,
           a.mv = b.mv, a.live = b.live, a.ptr = b.ptr, a.count = b.count,
           a.failed = b.failed, a.faults = b.faults
    PROVE  a = b
BY DEF Memory

Cleared(mm, p) == [mm EXCEPT !.ptr[p] = Blank]

\* release: apart from p's old value, which is to be overwritten or goes, memory
\* is sound again.
LEMMA ReleasedIsSound ==
    ASSUME NEW mm, NEW R, Sound(mm, R), NEW p \in mm.live,
           Released(mm, p).faults = {}
    PROVE  LET x == Released(mm, p)
           IN  /\ Sound(Cleared(x, p), R) /\ x \in Memory /\ ~x.failed
               /\ p \in x.live /\ x.live \subseteq mm.live
               /\ x.live \cap Roots = mm.live \cap Roots
               /\ R \cap x.live = R \cap mm.live
               /\ x.ptr = mm.ptr
               /\ SamePools(mm, x) /\ NoMoreBlocks(mm, x)
               /\ mm.ptr[p].refs = NULL => x = mm
               /\ mm.ptr[p].refs # NULL =>
                       /\ mm.ptr[p].refs \in Counters
                       /\ x.count = [mm.count EXCEPT ![mm.ptr[p].refs] = @ - 1]
                       /\ mm.count[mm.ptr[p].refs] > 1
                              => x.live = mm.live /\ x.mv = mm.mv
                       /\ mm.count[mm.ptr[p].refs] \in Nat \ {0}
<1> DEFINE b == mm.ptr[p].t
           r == mm.ptr[p].refs
           size == Size(p)
           x == Released(mm, p)
           d == [x EXCEPT !.ptr[p] = Blank]
<1>1. /\ mm \in Memory /\ p \in Pointers /\ size \in Sizes
      /\ b \in Blocks \cup {NULL} /\ r \in Counters \cup {NULL}
      /\ mm.ptr \in [Pointers -> [t : Blocks \cup {NULL},
                                  refs : Counters \cup {NULL}]]
      /\ mm.count \in [Counters -> Nat]
  BY SizeOf DEF Sound, Memory
<1>2. CASE r = NULL
  <2>1. x = mm
    BY <1>2 DEF Released
  <2>2. mm.ptr[p] = Blank
    BY <1>1, <1>2 DEF Sound
  <2>3. [mm.ptr EXCEPT ![p] = Blank] = mm.ptr
    BY <1>1, <2>2
  <2>4. [mm EXCEPT !.ptr = mm.ptr] = mm
    BY <1>1 DEF Memory
  <2>5. d = mm
    BY <2>1, <2>3, <2>4
  <2>6. ~mm.failed
    BY DEF Sound
  <2> QED BY <1>1, <1>2, <2>1, <2>5, <2>6 DEF Cleared, SamePools, NoMoreBlocks
<1>3. ASSUME r # NULL
      PROVE  mm.count[r] # 0 /\ r \in Counters
  <2>1. p \in Sharers(mm, r) /\ Sharers(mm, r) \in SUBSET mm.live
    BY DEF Sharers
  <2>2. IsFiniteSet(Sharers(mm, r))
    BY <2>1, FS_Subset DEF Sound
  <2>3. Cardinality(Sharers(mm, r)) # 0 /\ r \in Counters
    BY <1>1, <1>3, <2>1, <2>2, FS_EmptySet
  <2> QED BY <2>3 DEF Sound
<1>4. CASE r # NULL /\ mm.count[r] > 1
  <2>1. x = [mm EXCEPT !.count[r] = @ - 1]
    BY <1>1, <1>3, <1>4 DEF Released
  <2>2. x.live = mm.live /\ x.mv = mm.mv /\ x.ptr = mm.ptr
        /\ x.failed = mm.failed /\ x.count = [mm.count EXCEPT ![r] = @ - 1]
    BY <1>1, <2>1 DEF Memory
  <2>3. Sound([mm EXCEPT !.count[r] = @ - 1, !.ptr[p] = Blank], R)
    BY <1>3, <1>4, LeavesIsSound
  <2>4. Sound(d, R)
    BY <2>1, <2>3
  <2>5. x \in Memory
    BY <1>1, ReleasedType
  <2>6. ~mm.failed /\ mm.count[r] \in Nat \ {0}
    BY <1>1, <1>3, <1>4 DEF Sound
  <2> QED BY <1>3, <1>4, <2>2, <2>4, <2>5, <2>6
          DEF Cleared, SamePools, NoMoreBlocks
<1>5. CASE r # NULL /\ ~(mm.count[r] > 1)
  <2> DEFINE gone == [mm EXCEPT !.count[r] = 0]
             large == \E s \in Sizes \ {size} : b \in mm.mv[s].blocks
             f == Fault(Fault(Fault(gone, "null", b = NULL),
                        "member", b # NULL /\ mm.ptr[b].refs # NULL),
                        "size", large)
  <2>1. mm.count[r] = 1 /\ r \in Counters
    BY <1>1, <1>3, <1>5
  <2>2. x = Deallocated(f, b, size)
    BY <2>1, <1>5 DEF Released
  <2>3. gone \in Memory /\ gone.faults = {}
    <3>1. [mm.count EXCEPT ![r] = 0] \in [Counters -> Nat]
      BY <1>1
    <3> QED BY <1>1, <3>1 DEF Memory, Sound
  <2> HIDE DEF gone, large
  <2>4. f \in Memory
    <3>1. Fault(gone, "null", b = NULL) \in Memory
      BY <2>3, FaultType DEF Faults
    <3>2. Fault(Fault(gone, "null", b = NULL), "member",
                b # NULL /\ mm.ptr[b].refs # NULL) \in Memory
      BY <3>1, FaultType DEF Faults
    <3> QED BY <3>2, FaultType DEF Faults
  <2>5. f.faults = {}
    <3> HIDE DEF f
    <3>1. Deallocated(f, b, size).faults = f.faults
      BY <2>4 DEF Deallocated, Removed, Failure, Memory
    <3> QED BY <3>1, <2>2
  <2>6. b # NULL /\ mm.ptr[b].refs = NULL /\ ~large
    <3>1. b # NULL
      BY <2>3, <2>5 DEF Fault, Memory
    <3>2. mm.ptr[b].refs = NULL
      BY <2>3, <2>5, <3>1 DEF Fault, Memory
    <3>3. ~large
      BY <2>3, <2>5, <3>1, <3>2 DEF Fault, Memory
    <3> QED BY <3>1, <3>2, <3>3
  <2>7. f = gone
    BY <2>6 DEF Fault
  <2> HIDE DEF f
  <2>8. b \in Blocks /\ b \in Pointers /\ b \in InUse(mm) /\ b \notin R
    BY <1>1, <2>6, Places DEF Sound
  <2>9. b \in mm.mv[size].blocks
    BY <2>6, <2>8, <1>1, InUseOf, SizeOf DEF large
  <2>10. mm.ptr[b] = Blank /\ b # p
    BY <2>6, <2>8, <1>5 DEF Sound
  <2> DEFINE g == [mm EXCEPT !.count[r] = 0, !.ptr[p] = Blank]
             y == Deallocated(g, b, size)
  <2>11. Sound(g, R \cup {b})
    BY <2>1, <2>8, LastLeavesIsSound
  <2>12. /\ g.mv = mm.mv /\ g.live = mm.live /\ g.failed = mm.failed
         /\ g.ptr = [mm.ptr EXCEPT ![p] = Blank]
         /\ g.count = [mm.count EXCEPT ![r] = 0]
    BY <1>1 DEF Memory
  <2>13. g.ptr[b] = Blank
    BY <1>1, <2>8, <2>10, <2>12
  <2> HIDE DEF g
  <2>14. /\ Sound(y, (R \cup {b}) \ {b})
         /\ y.live = mm.live \ {b}
         /\ y.ptr = g.ptr /\ y.count = g.count
         /\ SamePools(mm, y) /\ NoMoreBlocks(mm, y)
    <3> DEFINE Rb == R \cup {b}
    <3>1. b \in Rb /\ Sound(g, Rb) /\ b \in g.mv[size].blocks /\ size \in Sizes
      BY <1>1, <2>9, <2>11, <2>12
    <3> HIDE DEF Rb, b, size
    <3>2. /\ Sound(y, Rb \ {b})
          /\ y.live = g.live \ {b}
          /\ y.ptr = g.ptr /\ y.count = g.count
          /\ SamePools(g, y) /\ NoMoreBlocks(g, y)
      BY <2>13, <3>1, DeallocatedIsSound
    <3> QED BY <2>12, <3>2 DEF Rb, SamePools, NoMoreBlocks
  <2>15. y = Removed([g EXCEPT !.mv[size] = deallocate(@, b)], {b})
    <3>1. g.mv[size].pool = "ready"
      BY <1>1, <2>9, <2>12 DEF Sound
    <3> QED BY <2>9, <2>12, <3>1 DEF Deallocated, CanDeallocate
  <2>16. x = Removed([gone EXCEPT !.mv[size] = deallocate(@, b)], {b})
    <3>1. mm.mv[size].pool = "ready" /\ gone.mv = mm.mv
      BY <1>1, <2>9 DEF Sound, gone, Memory
    <3> QED BY <2>2, <2>7, <2>9, <3>1 DEF Deallocated, CanDeallocate
  <2>17. /\ gone.mv = mm.mv /\ gone.live = mm.live /\ gone.ptr = mm.ptr
         /\ gone.count = [mm.count EXCEPT ![r] = 0]
         /\ gone.failed = mm.failed
    BY <1>1 DEF gone, Memory
  <2>18. [q \in Pointers |-> IF q \in {b} THEN Blank ELSE mm.ptr[q]] = mm.ptr
    BY <1>1, <2>8, <2>10
  <2>19. x \in Memory
    BY <1>1, ReleasedType
  <2> HIDE DEF x, y
  <2>20. /\ x.mv = [mm.mv EXCEPT ![size] = deallocate(@, b)]
         /\ x.live = mm.live \ {b} /\ x.ptr = mm.ptr
         /\ x.count = [mm.count EXCEPT ![r] = 0]
         /\ x.failed = mm.failed
    BY <2>3, <2>16, <2>17, <2>18 DEF Removed, Memory
  <2>21. y.mv = [mm.mv EXCEPT ![size] = deallocate(@, b)]
         /\ y.failed = mm.failed /\ y.faults = {} /\ y \in Memory
    <3>1. g \in Memory /\ g.faults = {} /\ y \in Memory /\ y.faults = {}
      BY <2>11, <2>14 DEF Sound
    <3>2. y.mv = [g.mv EXCEPT ![size] = deallocate(@, b)] /\ y.failed = g.failed
      BY <2>15, <3>1 DEF Removed, Memory
    <3> QED BY <2>12, <3>1, <3>2
  <2>22. d = y
    <3>1. d \in Memory
      BY <1>1, <2>19, BlankType DEF Memory
    <3>2. /\ d.mv = x.mv /\ d.live = x.live /\ d.count = x.count
          /\ d.failed = x.failed /\ d.faults = x.faults
          /\ d.ptr = [x.ptr EXCEPT ![p] = Blank]
      BY <2>19 DEF Memory
    <3>3. x.faults = {}
      BY DEF x
    <3> HIDE DEF d
    <3>4. /\ d.mv = y.mv /\ d.live = y.live /\ d.count = y.count
          /\ d.failed = y.failed /\ d.faults = y.faults /\ d.ptr = y.ptr
      BY <2>12, <2>14, <2>20, <2>21, <3>2, <3>3
    <3> QED BY <2>21, <3>1, <3>4, SameMemory
  <2>23. Sound(d, R)
    <3>1. (R \cup {b}) \ {b} = R
      BY <2>8
    <3> QED BY <2>14, <2>22, <3>1
  <2>24. /\ p \in x.live /\ x.live \subseteq mm.live
         /\ x.live \cap Roots = mm.live \cap Roots
         /\ R \cap x.live = R \cap mm.live
    BY <2>8, <2>10, <2>20, Places
  <2>25. SamePools(mm, x) /\ NoMoreBlocks(mm, x)
    BY <2>14, <2>20, <2>21 DEF SamePools, NoMoreBlocks
  <2>26. ~x.failed
    BY <2>20 DEF Sound
  <2>27. x.count = [mm.count EXCEPT ![r] = @ - 1]
    BY <2>1, <2>20
  <2> QED BY <1>5, <2>1, <2>19, <2>20, <2>23, <2>24, <2>25, <2>26, <2>27
          DEF x, Cleared
<1> QED BY <1>2, <1>4, <1>5

LEMMA CountOf ==
    ASSUME NEW x \in Singleton
    PROVE  /\ x.cnt < CntMod - 1 =>
                /\ register_alloc(x).cnt = x.cnt + 1
                /\ register_alloc(x).pool = IF x.cnt = 0 THEN "ready" ELSE x.pool
                /\ register_alloc(x).blocks = IF x.cnt = 0 THEN {} ELSE x.blocks
           /\ x.cnt > 0 =>
                /\ unregister_alloc(x).cnt = x.cnt - 1
                /\ x.cnt > 1 \/ x.pool # "ready" =>
                    /\ unregister_alloc(x).pool = x.pool
                    /\ unregister_alloc(x).blocks = x.blocks
                /\ x.cnt = 1 /\ x.pool = "ready" =>
                    /\ unregister_alloc(x).pool = "destroyed"
                    /\ unregister_alloc(x).blocks = {}
<1>1. x.cnt \in 0 .. CntMod - 1 /\ CntMod \in Nat /\ CntMod > 4
  BY CntAssumption, HandleAssumption DEF Singleton
<1>2. ASSUME x.cnt < CntMod - 1
      PROVE  (x.cnt + 1) % CntMod = x.cnt + 1
  BY <1>1, <1>2
<1>3. ASSUME x.cnt > 0
      PROVE  (x.cnt + CntMod - 1) % CntMod = x.cnt - 1
  <2>1. x.cnt + CntMod - 1 = 1 * CntMod + (x.cnt - 1)
        /\ x.cnt - 1 \in 0 .. CntMod - 1
    BY <1>1, <1>3
  <2>2. \A k \in Nat : k < CntMod => (CntMod + k) % CntMod = k
    BY <1>1
  <2> QED BY <1>1, <2>1, <2>2
<1>4. ASSUME x.cnt < CntMod - 1
      PROVE  /\ register_alloc(x).cnt = x.cnt + 1
             /\ register_alloc(x).pool = IF x.cnt = 0 THEN "ready" ELSE x.pool
             /\ register_alloc(x).blocks = IF x.cnt = 0 THEN {} ELSE x.blocks
  <2> DEFINE y == [x EXCEPT !.cnt = x.cnt + 1]
  <2>1. register_alloc(x) = IF x.cnt = 0 THEN ba_init(y) ELSE y
    BY <1>2, <1>4 DEF register_alloc
  <2>2. y.cnt = x.cnt + 1 /\ y.pool = x.pool /\ y.blocks = x.blocks
        /\ y = [cnt |-> x.cnt + 1, pool |-> x.pool, blocks |-> x.blocks]
    BY DEF Singleton
  <2> HIDE DEF y
  <2> QED BY <2>1, <2>2 DEF ba_init
<1>5. ASSUME x.cnt > 0
      PROVE  /\ unregister_alloc(x).cnt = x.cnt - 1
             /\ x.cnt > 1 \/ x.pool # "ready" =>
                 /\ unregister_alloc(x).pool = x.pool
                 /\ unregister_alloc(x).blocks = x.blocks
             /\ x.cnt = 1 /\ x.pool = "ready" =>
                 /\ unregister_alloc(x).pool = "destroyed"
                 /\ unregister_alloc(x).blocks = {}
  <2> DEFINE y == [x EXCEPT !.cnt = x.cnt - 1]
  <2>1. y.cnt = x.cnt - 1 /\ y.pool = x.pool /\ y.blocks = x.blocks
        /\ y = [cnt |-> x.cnt - 1, pool |-> x.pool, blocks |-> x.blocks]
    BY DEF Singleton
  <2>2. unregister_alloc(x) = IF y.cnt = 0 THEN ba_destroy(y) ELSE y
    BY <1>3, <1>5 DEF unregister_alloc
  <2> HIDE DEF y
  <2> QED BY <1>1, <1>5, <2>1, <2>2 DEF ba_destroy
<1> QED BY <1>4, <1>5

\* One more GJAlloc object shares the singleton.
LEMMA RegisteredIsSound ==
    ASSUME NEW mm, NEW R, Sound(mm, R), NEW size \in Sizes,
           mm.mv[size].cnt < CntMod - 1,
           mm.mv[size].cnt = 0 => mm.mv[size].blocks = {}
    PROVE  LET d == Registered(mm, size)
           IN  /\ Sound(d, R) /\ d.live = mm.live /\ d.ptr = mm.ptr
               /\ InUse(d) = InUse(mm)
               /\ \A s \in Sizes : d.mv[s].blocks = mm.mv[s].blocks
               /\ \A s \in Sizes \ {size} : d.mv[s] = mm.mv[s]
               /\ d.mv[size].cnt = mm.mv[size].cnt + 1
               /\ d.mv[size].pool = IF mm.mv[size].cnt = 0 THEN "ready"
                                    ELSE mm.mv[size].pool
<1> DEFINE x == register_alloc(mm.mv[size])
           d == [mm EXCEPT !.mv[size] = x]
<1>1. mm \in Memory /\ mm.mv[size] \in Singleton
  BY DEF Sound, Memory
<1>2. /\ x.cnt = mm.mv[size].cnt + 1
      /\ x.pool = IF mm.mv[size].cnt = 0 THEN "ready" ELSE mm.mv[size].pool
      /\ x.blocks = mm.mv[size].blocks
  BY <1>1, CountOf
<1>3. x \in Singleton
  BY <1>1, SingletonType
<1> HIDE DEF x
<1>4. /\ d \in Memory
      /\ d.live = mm.live /\ d.mv = [mm.mv EXCEPT ![size] = x]
      /\ d.failed = mm.failed /\ d.faults = mm.faults
      /\ d.ptr = mm.ptr /\ d.count = mm.count
  BY <1>1, <1>3 DEF Memory
<1>5. Registered(mm, size) = d
  BY DEF Registered, x
<1> HIDE DEF d
<1>6. \A s \in Sizes : d.mv[s] = IF s = size THEN x ELSE mm.mv[s]
  BY <1>1, <1>4 DEF Memory
<1>7. \A s \in Sizes : d.mv[s].blocks = mm.mv[s].blocks
  BY <1>2, <1>6
<1>8. InUse(d) = InUse(mm)
  BY <1>7, InUseOf, SizeOf
<1>9. \A r \in Counters : Sharers(d, r) = Sharers(mm, r)
  BY <1>4 DEF Sharers
<1>10. /\ d.mv["small"].blocks \cap d.mv["large"].blocks = {}
       /\ \A s \in Sizes : d.mv[s].blocks # {} => d.mv[s].pool = "ready"
  BY <1>2, <1>6, <1>7, SizeOf DEF Sound
<1>11. Sound(d, R)
  BY <1>4, <1>8, <1>9, <1>10 DEF Sound
<1> QED BY <1>2, <1>4, <1>5, <1>6, <1>7, <1>8, <1>11

\* A GJAlloc object goes; what it takes with it is the client's.
LEMMA UnregisteredIsSound ==
    ASSUME NEW mm, NEW R, Sound(mm, R), NEW size \in Sizes,
           mm.mv[size].cnt > 0, Unregistered(mm, size).faults = {}
    PROVE  LET d == Unregistered(mm, size)
           IN  /\ Sound(d, R \cap InUse(d))
               /\ d.live \cap Roots = mm.live \cap Roots /\ d.ptr = mm.ptr
               /\ d.live \subseteq mm.live
               /\ \A p \in mm.live \ d.live : mm.ptr[p] = Blank
               /\ \A s \in Sizes : d.mv[s].blocks \subseteq mm.mv[s].blocks
               /\ \A s \in Sizes \ {size} : d.mv[s] = mm.mv[s]
               /\ d.mv[size].cnt = mm.mv[size].cnt - 1
               /\ d.mv[size].pool =
                     IF mm.mv[size].cnt = 1 /\ mm.mv[size].pool = "ready"
                     THEN "destroyed" ELSE mm.mv[size].pool
<1> DEFINE x == unregister_alloc(mm.mv[size])
           gone == mm.mv[size].blocks \ x.blocks
           late == \E p \in mm.live : \/ mm.ptr[p].t \in gone
                                      \/ p \in gone /\ mm.ptr[p] # Blank
           c == [mm EXCEPT !.mv[size] = x]
           d == Removed(Fault(c, "late", late), gone)
<1>1. mm \in Memory /\ mm.mv[size] \in Singleton
  BY DEF Sound, Memory
<1>2. /\ x.cnt = mm.mv[size].cnt - 1
      /\ x.pool = IF mm.mv[size].cnt = 1 /\ mm.mv[size].pool = "ready"
                  THEN "destroyed" ELSE mm.mv[size].pool
      /\ x.blocks \subseteq mm.mv[size].blocks
      /\ x.blocks # {} => x.pool = mm.mv[size].pool
  <2>1. mm.mv[size].cnt \in Nat
    BY <1>1, CntAssumption DEF Singleton
  <2>2. mm.mv[size].cnt > 1 \/ mm.mv[size].cnt = 1
    BY <2>1
  <2> QED BY <1>1, <2>1, <2>2, CountOf
<1>3. x \in Singleton
  BY <1>1, SingletonType
<1>4. Unregistered(mm, size) = d
  BY DEF Unregistered
<1> HIDE DEF x, late
<1>5. /\ c \in Memory
      /\ c.live = mm.live /\ c.mv = [mm.mv EXCEPT ![size] = x]
      /\ c.failed = mm.failed /\ c.faults = {}
      /\ c.ptr = mm.ptr /\ c.count = mm.count
  BY <1>1, <1>3 DEF Memory, Sound
<1> HIDE DEF c
<1>6. ~late
  <2>1. d.faults = Fault(c, "late", late).faults
    BY <1>5 DEF Fault, Removed, Memory
  <2>2. d.faults = {}
    BY <1>4
  <2> QED BY <1>5, <2>1, <2>2 DEF Fault, Memory
<1>7. d = Removed(c, gone)
  BY <1>6 DEF Fault
<1>8. \A p \in Pointers : /\ mm.ptr[p].t \notin gone
                          /\ p \in gone => mm.ptr[p] = Blank
  <2>1. Blank.t \notin gone
    BY <1>1, Places DEF Blank, Singleton
  <2> QED BY <1>6, <2>1 DEF late, Sound
<1>9. /\ d \in Memory
      /\ d.live = mm.live \ gone /\ d.mv = [mm.mv EXCEPT ![size] = x]
      /\ d.failed = mm.failed /\ d.faults = {}
      /\ d.ptr = mm.ptr /\ d.count = mm.count
  <2>1. [p \in Pointers |-> IF p \in gone THEN Blank ELSE mm.ptr[p]] = mm.ptr
    BY <1>1, <1>8 DEF Memory
  <2>2. d \in Memory
    BY <1>5, <1>7, RemovedType
  <2> HIDE DEF gone
  <2>3. /\ d.live = c.live \ gone /\ d.mv = c.mv
        /\ d.failed = c.failed /\ d.faults = c.faults
        /\ d.ptr = [p \in Pointers |-> IF p \in gone THEN Blank ELSE c.ptr[p]]
        /\ d.count = c.count
    BY <1>5, <1>7 DEF Removed, Memory
  <2> QED BY <1>5, <2>1, <2>2, <2>3
<1> HIDE DEF d
<1>10. \A s \in Sizes : d.mv[s] = IF s = size THEN x ELSE mm.mv[s]
  BY <1>1, <1>9 DEF Memory
<1>11. InUse(d) = InUse(mm) \ gone
  <2>1. \A s \in Sizes : d.mv[s].blocks = mm.mv[s].blocks \ gone
    <3> TAKE s \in Sizes
    <3>1. CASE s = size
      BY <1>2, <1>10, <3>1
    <3>2. CASE s # size
      BY <1>10, <3>2, SizeOf DEF Sound
    <3> QED BY <3>1, <3>2
  <2> QED BY <2>1, InUseOf, SizeOf
<1>12. \A r \in Counters : Sharers(d, r) = Sharers(mm, r)
  <2> TAKE r \in Counters
  <2>1. \A p \in gone : mm.ptr[p].refs # r
    BY <1>1, <1>8, Places DEF Blank, Singleton
  <2> QED BY <1>9, <2>1 DEF Sharers
<1>13. /\ d.mv["small"].blocks \cap d.mv["large"].blocks = {}
       /\ \A s \in Sizes : d.mv[s].blocks # {} => d.mv[s].pool = "ready"
       /\ \A s \in Sizes : d.mv[s].blocks \subseteq mm.mv[s].blocks
  BY <1>2, <1>10, SizeOf DEF Sound
<1>14. IsFiniteSet(d.live)
  <2>1. d.live \in SUBSET mm.live
    BY <1>9
  <2> QED BY <2>1, FS_Subset DEF Sound
<1>15. \A p \in Pointers :
        /\ p \notin d.live \/ d.ptr[p].refs = NULL => d.ptr[p] = Blank
        /\ d.ptr[p].t \in InUse(d) \cup {NULL}
        /\ d.ptr[p].t \notin R \cap InUse(d)
  BY <1>8, <1>9, <1>11 DEF Sound
<1>16. d.live \cap Blocks = InUse(d)
  BY <1>9, <1>11 DEF Sound
<1>17. \A b \in InUse(d) : b \in R \cap InUse(d) \/ \E p \in Pointers : d.ptr[p].t = b
  BY <1>9, <1>11 DEF Sound
<1>18. Sound(d, R \cap InUse(d))
  BY <1>9, <1>12, <1>13, <1>14, <1>15, <1>16, <1>17 DEF Sound
<1>19. d.live \cap Roots = mm.live \cap Roots
  BY <1>1, <1>9, Places DEF Singleton
<1>20. \A p \in mm.live \ d.live : mm.ptr[p] = Blank
  BY <1>1, <1>8, <1>9 DEF Memory
<1> QED BY <1>2, <1>4, <1>9, <1>10, <1>13, <1>18, <1>19, <1>20

----------------------------------------------------------------------------
(* Every step keeps the state well-typed *)

LEMMA TypeInit == Init => TypeOK
<1> SUFFICES ASSUME Init PROVE TypeOK
  OBVIOUS
<1>1. StaticMemory \in Singleton
  BY CntAssumption DEF StaticMemory, Singleton
<1>2. m \in Memory
  BY <1>1, BlankType DEF Init, Memory
<1>3. built \in Seq(StaticObjects)
  BY DEF Init
<1> QED BY <1>2, <1>3 DEF Init, TypeOK

LEMMA ConstructedType ==
    ASSUME TypeOK, NEW p \in Roots, NEW mm \in Memory, Constructed(p, mm)
    PROVE  m' \in Memory /\ built' \in Seq(StaticObjects)
<1>1. m' \in Memory
  BY Places DEF Constructed, Memory
<1>2. p \in Statics => p \in StaticObjects
  BY DEF StaticObjects
<1>3. built' \in Seq(StaticObjects)
  BY <1>2 DEF Constructed, TypeOK
<1> QED BY <1>1, <1>3

LEMMA TypeStep == TypeOK /\ [Next]_vars => TypeOK'
<1> SUFFICES ASSUME TypeOK, [Next]_vars PROVE TypeOK'
  OBVIOUS
<1>1. m \in Memory /\ built \in Seq(StaticObjects) /\ raw \in SUBSET Blocks
      /\ program' = program
  BY DEF TypeOK, Next, vars, Constructed, DefaultConstruct, ConstructFromValue,
         ConstructThrows, Adopt, Destroy, CopyConstruct, Assign, RegisterHandle,
         UnregisterHandle, RawAllocate, RawDeallocate, ConstructMV,
         ConstructHandle, Exit, DestroyStatic
<1>2. UsedSizes' = UsedSizes /\ UsedSizes \subseteq Sizes
  BY <1>1, SizeOf DEF UsedSizes, Size
<1>3. ASSUME m' \in Memory, built' \in Seq(StaticObjects), raw' \in SUBSET Blocks,
             begun' \subseteq UsedSizes, exiting' \in BOOLEAN, handle' \in BOOLEAN
      PROVE  TypeOK'
  BY <1>1, <1>2, <1>3 DEF TypeOK
<1>4. ASSUME NEW p \in Roots, DefaultConstruct(p)
      PROVE  TypeOK'
  BY <1>1, <1>3, <1>4, ConstructedType DEF DefaultConstruct, Constructed, TypeOK
<1>5. ASSUME NEW p \in Roots, ConstructFromValue(p)
      PROVE  TypeOK'
  <2>1. PICK b \in Blocks \ InUse(m), r \in Counters :
            Constructed(p, [Allocated(m, b, Size(p)) EXCEPT
                                !.ptr[p] = [t |-> b, refs |-> r],
                                !.count[r] = 1])
    BY <1>5 DEF ConstructFromValue
  <2>2. Allocated(m, b, Size(p)) \in Memory
    BY <1>1, SizeOf, AllocatedType
  <2>3. [Allocated(m, b, Size(p)) EXCEPT !.ptr[p] = [t |-> b, refs |-> r],
                                         !.count[r] = 1] \in Memory
    BY <2>2, Places DEF Memory
  <2>4. m' \in Memory /\ built' \in Seq(StaticObjects)
    BY <2>1, <2>3, ConstructedType
  <2>5. /\ begun' = begun /\ exiting' = exiting /\ handle' = handle
        /\ raw' = raw
    BY <1>5, <2>1 DEF Constructed, ConstructFromValue
  <2> QED BY <1>1, <1>3, <2>4, <2>5 DEF TypeOK
<1>6. ASSUME NEW p \in Roots, ConstructThrows(p)
      PROVE  TypeOK'
  <2>1. PICK b \in Blocks :
            m' = Fault(Allocated(m, b, Size(p)), "throw", TRUE)
    BY <1>6 DEF ConstructThrows
  <2>2. m' \in Memory
    BY <1>1, <2>1, SizeOf, AllocatedType, FaultType DEF Faults
  <2> QED BY <1>1, <1>3, <1>6, <2>2 DEF ConstructThrows, TypeOK
<1>7. ASSUME NEW p \in Roots, Adopt(p)
      PROVE  TypeOK'
  <2>1. PICK b \in raw \cup {NULL}, r \in Counters :
            /\ Constructed(p, [m EXCEPT !.ptr[p] = [t |-> b, refs |-> r],
                                        !.count[r] = 1])
            /\ raw' = raw \ {b}
    BY <1>7 DEF Adopt
  <2>2. [m EXCEPT !.ptr[p] = [t |-> b, refs |-> r], !.count[r] = 1] \in Memory
    BY <1>1, Places DEF Memory
  <2>3. m' \in Memory /\ built' \in Seq(StaticObjects)
    BY <2>1, <2>2, ConstructedType
  <2>4. begun' = begun /\ exiting' = exiting /\ handle' = handle
    BY <2>1 DEF Constructed
  <2> QED BY <1>1, <1>3, <2>1, <2>3, <2>4 DEF TypeOK
<1>8. ASSUME NEW p \in Roots, NEW q \in Pointers, CopyConstruct(p, q)
      PROVE  TypeOK'
  <2>1. p \in Pointers
    BY Places
  <2>2. Joined(m, p, q) \in Memory
    BY <1>1, <2>1, JoinedType
  <2>3. Fault([m EXCEPT !.ptr[p] = m.ptr[q]], "bitwise",
              m.ptr[q].refs # NULL) \in Memory
    <3>1. [m EXCEPT !.ptr[p] = m.ptr[q]] \in Memory
      BY <1>1, <2>1 DEF Memory
    <3> QED BY <3>1, FaultType DEF Faults
  <2>4. m' \in Memory /\ built' \in Seq(StaticObjects)
    BY <1>8, <2>2, <2>3, ConstructedType DEF CopyConstruct
  <2>5. /\ begun' = begun /\ exiting' = exiting /\ handle' = handle
        /\ raw' = raw
    BY <1>8 DEF CopyConstruct, Constructed
  <2> QED BY <1>1, <1>3, <2>4, <2>5 DEF TypeOK
<1>9. ASSUME NEW p \in Roots, Destroy(p)
      PROVE  TypeOK'
  <2>1. Removed(Released(m, p), {p}) \in Memory
    BY <1>1, Places, ReleasedType, RemovedType
  <2> QED BY <1>1, <1>3, <1>9, <2>1 DEF Destroy, TypeOK
<1>10. ASSUME NEW p \in Pointers, NEW q \in Pointers, Assign(p, q)
       PROVE  TypeOK'
  <2>1. Assigned(m, p, q) \in Memory
    BY <1>1, AssignedType
  <2> QED BY <1>1, <1>3, <1>10, <2>1 DEF Assign, TypeOK
<1>11. CASE RegisterHandle
  BY <1>1, <1>3, <1>11, SizeOf, RegisteredType DEF RegisterHandle, TypeOK
<1>12. CASE UnregisterHandle
  <2>1. Unregistered(m, Size(AutoHandle)) \in Memory
    BY <1>1, SizeOf, RegisteredType
  <2> QED BY <1>1, <1>3, <1>12, <2>1 DEF UnregisterHandle, TypeOK
<1>13. CASE RawAllocate
  <2>1. PICK b \in Blocks : m' = Allocated(m, b, "small") /\ raw' = raw \cup {b}
    BY <1>13 DEF RawAllocate
  <2>2. Allocated(m, b, "small") \in Memory
    BY <1>1, AllocatedType DEF Sizes
  <2> QED BY <1>1, <1>3, <1>13, <2>1, <2>2 DEF RawAllocate, TypeOK
<1>14. CASE RawDeallocate
  <2>1. PICK b \in raw : /\ m' = Deallocated(Released(m, b), b, "small")
                         /\ raw' = raw \ {b}
    BY <1>14 DEF RawDeallocate
  <2>2. Deallocated(Released(m, b), b, "small") \in Memory
    BY <1>1, Places, ReleasedType, DeallocatedType DEF Sizes
  <2> QED BY <1>1, <1>3, <1>14, <2>1, <2>2 DEF RawDeallocate, TypeOK
<1>15. ASSUME NEW size \in Sizes, ConstructMV(size)
       PROVE  TypeOK'
  <2>1. Fault([m EXCEPT !.mv[size] = MV(@)], "order", m.mv[size].cnt # 0)
            \in Memory
    BY <1>1, RegisteredType
  <2> QED BY <1>1, <1>3, <1>15, <2>1 DEF ConstructMV, TypeOK
<1>16. ASSUME NEW h \in StaticHandles, ConstructHandle(h)
       PROVE  TypeOK'
  <2>1. Registered(m, Size(h)) \in Memory
    BY <1>1, SizeOf, RegisteredType
  <2>2. Append(built, h) \in Seq(StaticObjects)
    BY <1>1 DEF StaticObjects
  <2> QED BY <1>1, <1>3, <1>16, <2>1, <2>2 DEF ConstructHandle, TypeOK
<1>17. CASE Exit
  BY <1>1, <1>3, <1>17 DEF Exit, TypeOK
<1>18. CASE DestroyStatic
  <2> DEFINE o == built[Len(built)]
  <2>1. o \in StaticObjects
    BY <1>1, <1>18 DEF DestroyStatic
  <2>2. SubSeq(built, 1, Len(built) - 1) \in Seq(StaticObjects)
    BY <1>1, <1>18 DEF DestroyStatic
  <2>3. o \in Statics => Removed(Released(m, o), {o}) \in Memory
    BY <1>1, Places, ReleasedType, RemovedType
  <2>4. Unregistered(m, Size(o)) \in Memory
    BY <1>1, SizeOf, RegisteredType
  <2> QED BY <1>1, <1>3, <1>18, <2>2, <2>3, <2>4 DEF DestroyStatic, TypeOK
<1>19. CASE UNCHANGED vars
  BY <1>1, <1>3, <1>19 DEF vars, TypeOK
<1> QED BY <1>4, <1>5, <1>6, <1>7, <1>8, <1>9, <1>10, <1>11, <1>12, <1>13,
           <1>14, <1>15, <1>16, <1>17, <1>18, <1>19 DEF Next

----------------------------------------------------------------------------
(* A step without a fault keeps the state clean.  Each lemma also says what *)
(* becomes of the pointers and of the client's own blocks.                  *)

LEMMA UsersFacts ==
    /\ \A s \in Sizes : IsFiniteSet(Users(s)) /\ Cardinality(Users(s)) \in 0 .. 4
    /\ UNCHANGED <<program, handle>> /\ (Built \cap StaticHandles)' = Built \cap StaticHandles
           => \A s \in Sizes : Users(s)' = Users(s)
<1>1. ASSUME NEW s \in Sizes
      PROVE  IsFiniteSet(Users(s)) /\ Cardinality(Users(s)) \in 0 .. 4
  <2> DEFINE T == {AllocT, AllocX, StaticHandle, AutoHandle}
  <2>1. Users(s) \in SUBSET T
    BY DEF Users, StaticHandles
  <2>2. T = (({AllocT} \cup {AllocX}) \cup {StaticHandle}) \cup {AutoHandle}
    OBVIOUS
  <2>3. IsFiniteSet(T)
    <3>1. IsFiniteSet({AllocT} \cup {AllocX})
      BY FS_Singleton, FS_AddElement
    <3>2. IsFiniteSet(({AllocT} \cup {AllocX}) \cup {StaticHandle})
      BY <3>1, FS_AddElement
    <3> HIDE DEF T
    <3> QED BY <2>2, <3>2, FS_AddElement
  <2>4. Cardinality(T) = 4
    BY PlaceAssumption
  <2> HIDE DEF T
  <2>5. IsFiniteSet(Users(s)) /\ Cardinality(Users(s)) <= 4
    BY <2>1, <2>3, <2>4, FS_Subset
  <2> QED BY <2>5, FS_CardinalityType
<1>2. ASSUME UNCHANGED <<program, handle>>,
             (Built \cap StaticHandles)' = Built \cap StaticHandles
      PROVE  \A s \in Sizes : Users(s)' = Users(s)
  <2>1. \A o : Size(o)' = Size(o)
    BY <1>2 DEF Size
  <2> QED BY <1>2, <2>1 DEF Users
<1> QED BY <1>1, <1>2

LEMMA PoolsKept ==
    ASSUME Pools, UNCHANGED <<program, exiting, handle>>,
           (Built \cap StaticHandles)' = Built \cap StaticHandles,
           SamePools(m, m')
    PROVE  Pools'
BY UsersFacts DEF Pools, SamePools

LEMMA AppendBuilt ==
    ASSUME built \in Seq(StaticObjects), NEW o \in StaticObjects, o \notin Built,
           built' = Append(built, o),
           \A i, j \in DOMAIN built : built[i] = built[j] => i = j
    PROVE  /\ Built' = Built \cup {o}
           /\ \A i, j \in DOMAIN built' : built'[i] = built'[j] => i = j
<1>1. /\ DOMAIN built = 1 .. Len(built) /\ DOMAIN built' = 1 .. Len(built) + 1
      /\ Len(built) \in Nat /\ built'[Len(built) + 1] = o
      /\ \A i \in 1 .. Len(built) : built'[i] = built[i]
  OBVIOUS
<1>2. Built' = Built \cup {o}
  <2>1. ASSUME NEW x \in Built' PROVE x \in Built \cup {o}
    <3>1. PICK i \in 1 .. Len(built) + 1 : x = built'[i]
      BY <1>1, <2>1 DEF Built
    <3>2. i \in 1 .. Len(built) \/ i = Len(built) + 1
      BY <1>1
    <3> QED BY <1>1, <3>1, <3>2 DEF Built
  <2>2. ASSUME NEW x \in Built \cup {o} PROVE x \in Built'
    <3>1. Len(built) + 1 \in DOMAIN built'
      BY <1>1
    <3>2. o \in Built'
      BY <1>1, <3>1 DEF Built
    <3>3. ASSUME x \in Built PROVE x \in Built'
      <4>1. PICK i \in 1 .. Len(built) : x = built[i]
        BY <1>1, <3>3 DEF Built
      <4>2. i \in DOMAIN built' /\ built'[i] = x
        BY <1>1, <4>1
      <4> QED BY <4>2 DEF Built
    <3> QED BY <2>2, <3>2, <3>3
  <2> QED BY <2>1, <2>2
<1>3. \A i \in 1 .. Len(built) : built[i] # o
  BY <1>1 DEF Built
<1>4. ASSUME NEW i \in DOMAIN built', NEW j \in DOMAIN built', built'[i] = built'[j]
      PROVE  i = j
  <2>1. /\ i \in 1 .. Len(built) \/ i = Len(built) + 1
        /\ j \in 1 .. Len(built) \/ j = Len(built) + 1
    BY <1>1
  <2> QED BY <1>1, <1>3, <1>4, <2>1
<1> QED BY <1>2, <1>4

LEMMA ShortenBuilt ==
    ASSUME built \in Seq(StaticObjects), built # <<>>,
           built' = SubSeq(built, 1, Len(built) - 1),
           \A i, j \in DOMAIN built : built[i] = built[j] => i = j
    PROVE  /\ Built' = Built \ {built[Len(built)]}
           /\ built[Len(built)] \in Built /\ built[Len(built)] \in StaticObjects
           /\ \A i, j \in DOMAIN built' : built'[i] = built'[j] => i = j
<1>1. /\ DOMAIN built = 1 .. Len(built) /\ DOMAIN built' = 1 .. Len(built) - 1
      /\ Len(built) \in Nat /\ Len(built) > 0
      /\ \A i \in 1 .. Len(built) - 1 : built'[i] = built[i]
  OBVIOUS
<1>2. Len(built) \in DOMAIN built
  BY <1>1
<1>3. ASSUME NEW x \in Built' PROVE x \in Built /\ x # built[Len(built)]
  <2>1. PICK i \in 1 .. Len(built) - 1 : x = built'[i]
    BY <1>1, <1>3 DEF Built
  <2>2. i \in 1 .. Len(built) /\ i # Len(built)
    <3>1. \A n \in Nat : \A j \in 1 .. n - 1 : j \in 1 .. n /\ j # n
      OBVIOUS
    <3> QED BY <1>1, <2>1, <3>1
  <2>3. i \in DOMAIN built /\ i # Len(built) /\ x = built[i]
    BY <1>1, <2>1, <2>2
  <2> QED BY <1>2, <2>3 DEF Built
<1>4. ASSUME NEW x \in Built, x # built[Len(built)] PROVE x \in Built'
  <2>1. PICK i \in DOMAIN built : x = built[i]
    BY DEF Built
  <2>2. i \in 1 .. Len(built) - 1
    BY <1>1, <1>4, <2>1
  <2>3. i \in DOMAIN built' /\ built'[i] = x
    BY <1>1, <2>1, <2>2
  <2> QED BY <2>3 DEF Built
<1>5. ASSUME NEW i \in DOMAIN built', NEW j \in DOMAIN built', built'[i] = built'[j]
      PROVE  i = j
  <2>1. i \in 1 .. Len(built) - 1 /\ j \in 1 .. Len(built) - 1
    BY <1>1
  <2>2. i \in DOMAIN built /\ j \in DOMAIN built
    BY <1>1, <2>1
  <2>3. built'[i] = built[i] /\ built'[j] = built[j]
    BY <1>1, <2>1
  <2> QED BY <1>5, <2>2, <2>3
<1>6. built[Len(built)] \in Built /\ built[Len(built)] \in StaticObjects
  BY <1>1, <1>2 DEF Built
<1>7. Built' = Built \ {built[Len(built)]}
  BY <1>3, <1>4
<1> QED BY <1>5, <1>6, <1>7

\* A constructor that leaves sound memory keeps the state clean.
LEMMA ConstructedIsClean ==
    ASSUME Inv, Clean, NEW p \in Roots, New(p),
           NEW mm \in Memory, Constructed(p, mm),
           Sound(Alive(mm, p), raw'),
           mm.live \cap Roots = m.live \cap Roots,
           SamePools(m, mm),
           raw' \subseteq mm.mv["small"].blocks
    PROVE  Clean' /\ m'.ptr = mm.ptr
<1>1. /\ m' = Alive(mm, p)
      /\ m'.live = mm.live \cup {p} /\ m'.mv = mm.mv /\ m'.ptr = mm.ptr
      /\ UNCHANGED <<program, begun, exiting, handle>>
      /\ built' = IF p \in Statics THEN Append(built, p) ELSE built
  BY DEF Constructed, Memory, Alive
<1>2. Sound(m, raw)' /\ (raw \subseteq m.mv["small"].blocks)'
  BY <1>1
<1>3. /\ built \in Seq(StaticObjects)
      /\ p \in Statics => p \in StaticObjects /\ p \notin Built
      /\ p \notin StaticHandles
  BY Places, PlaceAssumption
     DEF Inv, TypeOK, New, StaticObjects, StaticHandles, Roots
<1>4. Built' = IF p \in Statics THEN Built \cup {p} ELSE Built
  <2>1. CASE p \in Statics
    BY <1>1, <1>3, <2>1, AppendBuilt DEF Clean, Statically
  <2>2. CASE p \notin Statics
    BY <1>1, <2>2 DEF Built
  <2> QED BY <2>1, <2>2
<1>5. \A i, j \in DOMAIN built' : built'[i] = built'[j] => i = j
  <2>1. CASE p \in Statics
    BY <1>1, <1>3, <2>1, AppendBuilt DEF Clean, Statically
  <2>2. CASE p \notin Statics
    BY <1>1, <2>2 DEF Clean, Statically
  <2> QED BY <2>1, <2>2
<1>6. Pools'
  <2>1. (Built \cap StaticHandles)' = Built \cap StaticHandles
    BY <1>3, <1>4 DEF StaticHandles
  <2> QED BY <1>1, <2>1, PoolsKept DEF Clean, SamePools, NoMoreBlocks
<1>7. m'.live \cap Statics = Built' \cap Statics
  BY <1>1, <1>4, Places DEF Clean, Statically
<1>8. handle' => ~exiting' /\ Built' = StaticObjects
  BY <1>1, <1>3, <1>4 DEF Clean, Statically
<1>9. (m.live \cap Statics)' = (Built \cap Statics)' /\ StaticObjects' = StaticObjects
  BY <1>7 DEF StaticObjects, StaticHandles
<1>10. Statically'
  BY <1>5, <1>8, <1>9 DEF Statically
<1> QED BY <1>1, <1>2, <1>6, <1>10 DEF Clean

\* So does any other step that leaves sound memory and registers nothing.
LEMMA OtherIsClean ==
    ASSUME Clean, UNCHANGED <<program, built, exiting, handle>>,
           Sound(m', raw'), raw' \subseteq m'.mv["small"].blocks,
           m'.live \cap Statics = m.live \cap Statics,
           SamePools(m, m')
    PROVE  Clean'
<1>1. Built' = Built /\ StaticHandles' = StaticHandles
      /\ StaticObjects' = StaticObjects
  BY DEF Built, StaticHandles, StaticObjects
<1>2. Pools'
  BY <1>1, PoolsKept DEF Clean
<1>3. Statically'
  BY <1>1 DEF Clean, Statically
<1> QED BY <1>2, <1>3 DEF Clean

LEMMA CleanFacts ==
    ASSUME Inv, Running
    PROVE  /\ Clean /\ Sound(m, raw) /\ m \in Memory /\ m.faults = {}
           /\ built \in Seq(StaticObjects) /\ InUse(m) \subseteq Blocks
           /\ raw \subseteq InUse(m)
           /\ \A s \in Sizes : m.mv[s] \in Singleton
           /\ \A p \in Pointers : p \notin m.live => m.ptr[p] = Blank
<1>1. Clean /\ Sound(m, raw) /\ m \in Memory
  BY DEF Inv, Running, Clean, Sound
<1>2. \A s \in Sizes : m.mv[s] \in Singleton
  BY <1>1 DEF Memory
<1> QED BY <1>1, <1>2 DEF Inv, TypeOK, Sound

LEMMA DefaultConstructStep ==
    ASSUME Inv, NEW p \in Roots, DefaultConstruct(p)
    PROVE  Clean' /\ m'.ptr = m.ptr /\ raw' = raw
<1>1. New(p) /\ Running /\ Constructed(p, m) /\ raw' = raw /\ p \notin m.live
  BY DEF DefaultConstruct, New
<1>2. Sound(Alive(m, p), raw')
  BY <1>1, CleanFacts, BlankIsSound
<1>3. raw' \subseteq m.mv["small"].blocks
  BY <1>1, CleanFacts DEF Clean
<1> QED BY <1>1, <1>2, <1>3, CleanFacts, ConstructedIsClean
     DEF SamePools, NoMoreBlocks

LEMMA ConstructFromValueStep ==
    ASSUME Inv, NEW p \in Roots, ConstructFromValue(p), m'.faults = {}
    PROVE  /\ Clean' /\ raw' = raw
           /\ \E b \in Blocks \ InUse(m), r \in Counters :
                m'.ptr = [m.ptr EXCEPT ![p] = [t |-> b, refs |-> r]]
<1> DEFINE size == Size(p)
<1>1. New(p) /\ Running /\ raw' = raw /\ p \notin m.live /\ size \in Sizes
      /\ ~exiting
  BY SizeOf DEF ConstructFromValue, New, InMain
<1>2. PICK b \in Blocks \ InUse(m), r \in Counters :
        /\ m.count[r] = 0
        /\ Constructed(p, Taken(Allocated(m, b, size), p, b, r))
  BY DEF ConstructFromValue, Taken
<1> DEFINE A == Allocated(m, b, size)
           a == Taken(A, p, b, r)
<1>3. A \in Memory
  BY <1>1, <1>2, CleanFacts, AllocatedType
<1>4. CanAllocate(m.mv[size])
  <2>1. m'.faults = A.faults
    <3>1. m' = Alive(a, p)
      BY <1>2 DEF Constructed, Alive
    <3> HIDE DEF A
    <3> QED BY <1>3, <3>1 DEF Memory, Alive, Taken
  <2> SUFFICES ASSUME ~CanAllocate(m.mv[size]) PROVE FALSE
    OBVIOUS
  <2>2. A = Failure(Fault(m, "early", TRUE))
    BY DEF Allocated
  <2>3. A.faults = m.faults \cup {"early"}
    BY <1>1, <2>2, CleanFacts DEF Failure, Fault, Memory
  <2> QED BY <2>1, <2>3
<1>5. /\ Sound(A, raw \cup {b}) /\ A.live = m.live \cup {b}
      /\ A.ptr = m.ptr /\ A.count = m.count
      /\ A.mv = [m.mv EXCEPT ![size] = allocate(@, b)]
  <2>1. Sound(m, raw)
    BY <1>1, CleanFacts
  <2> HIDE DEF size
  <2> QED BY <1>1, <1>2, <1>4, <2>1, AllocatedIsSound
<1> HIDE DEF A, size
<1>6. p \notin A.live /\ b \in raw \cup {b} /\ (raw \cup {b}) \ {b} = raw
  BY <1>1, <1>2, <1>5, CleanFacts, Places
<1>7. /\ Sound(Alive(a, p), raw)
      /\ a \in Memory /\ a.live = A.live /\ a.mv = A.mv
      /\ a.ptr = [m.ptr EXCEPT ![p] = [t |-> b, refs |-> r]]
  <2> DEFINE R == raw \cup {b}
  <2>1. Sound(A, R) /\ b \in R \cup {NULL} /\ A.count[r] = 0 /\ R \ {b} = raw
    BY <1>2, <1>5, <1>6
  <2> HIDE DEF R
  <2>2. /\ Sound(Alive(a, p), R \ {b})
        /\ a \in Memory /\ a.live = A.live /\ a.mv = A.mv
        /\ a.ptr = [A.ptr EXCEPT ![p] = [t |-> b, refs |-> r]]
    BY <1>2, <1>6, <2>1, AdoptedIsSound
  <2> QED BY <1>5, <2>1, <2>2
<1>8. Constructed(p, a)
  BY <1>2 DEF A
<1> HIDE DEF a
<1>9. SamePools(m, a) /\ NoMoreBlocks(a, m)
  <2>1. m.mv[size].pool = "ready" /\ m.mv[size] \in Singleton
    BY <1>1, <1>4, CleanFacts DEF Clean, Pools, CanAllocate, Singleton
  <2>2. /\ allocate(m.mv[size], b).cnt = m.mv[size].cnt
        /\ allocate(m.mv[size], b).pool = "ready"
        /\ m.mv[size].blocks \subseteq allocate(m.mv[size], b).blocks
    BY <2>1 DEF allocate, Singleton
  <2>3. m.mv \in [Sizes -> Singleton]
    BY <1>1, CleanFacts DEF Memory
  <2> QED BY <1>5, <1>7, <2>1, <2>2, <2>3 DEF SamePools, NoMoreBlocks
<1>10. a.live \cap Roots = m.live \cap Roots
  BY <1>2, <1>5, <1>7, Places
<1>11. raw' \subseteq a.mv["small"].blocks
  BY <1>1, <1>9, CleanFacts, SizeOf DEF Clean, NoMoreBlocks
<1>12. Clean' /\ m'.ptr = a.ptr
  BY <1>1, <1>7, <1>8, <1>9, <1>10, <1>11, CleanFacts, ConstructedIsClean
<1> QED BY <1>1, <1>2, <1>7, <1>12

LEMMA AdoptStep ==
    ASSUME Inv, NEW p \in Roots, Adopt(p)
    PROVE  /\ Clean' /\ p \notin m.live
           /\ \E b \in raw \cup {NULL}, r \in Counters :
                /\ m'.ptr = [m.ptr EXCEPT ![p] = [t |-> b, refs |-> r]]
                /\ raw' = raw \ {b}
<1>1. New(p) /\ Running /\ p \notin m.live
  BY DEF Adopt, New
<1>2. PICK b \in raw \cup {NULL}, r \in Counters :
        /\ m.count[r] = 0
        /\ Constructed(p, Taken(m, p, b, r))
        /\ raw' = raw \ {b}
  BY DEF Adopt, Taken
<1> DEFINE a == Taken(m, p, b, r)
<1>3. /\ Sound(Alive(a, p), raw \ {b})
      /\ a \in Memory /\ a.live = m.live /\ a.mv = m.mv
      /\ a.ptr = [m.ptr EXCEPT ![p] = [t |-> b, refs |-> r]]
  <2>1. Sound(m, raw)
    BY <1>1, CleanFacts
  <2> QED BY <1>1, <1>2, <2>1, AdoptedIsSound
<1>4. Constructed(p, a)
  BY <1>2
<1> HIDE DEF a
<1>5. raw' \subseteq a.mv["small"].blocks
  BY <1>1, <1>2, <1>3, CleanFacts DEF Clean
<1>6. Clean' /\ m'.ptr = a.ptr
  BY <1>1, <1>2, <1>3, <1>4, <1>5, CleanFacts, ConstructedIsClean
     DEF SamePools, NoMoreBlocks
<1> QED BY <1>1, <1>2, <1>3, <1>6

LEMMA CopyConstructStep ==
    ASSUME Inv, NEW p \in Roots, NEW q \in Pointers, CopyConstruct(p, q),
           m'.faults = {}
    PROVE  Clean' /\ m'.ptr = [m.ptr EXCEPT ![p] = m.ptr[q]] /\ raw' = raw
<1>1. /\ New(p) /\ Running /\ p \notin m.live /\ p \in Pointers
      /\ q \in m.live /\ raw' = raw
  BY Places DEF CopyConstruct, New, Accessible
<1>2. m.ptr[p] = Blank /\ raw' \subseteq m.mv["small"].blocks
  BY <1>1, CleanFacts DEF Clean
<1>3. CASE Constructed(p, Joined(m, p, q))
  <2> DEFINE j == Joined(m, p, q)
  <2>1. /\ Sound(Alive(j, p), raw)
        /\ j.live = m.live /\ j.mv = m.mv
        /\ j.ptr = [m.ptr EXCEPT ![p] = m.ptr[q]]
        /\ j \in Memory
    BY <1>1, <1>2, CleanFacts, JoinedIsSound
  <2> HIDE DEF j
  <2>2. Clean' /\ m'.ptr = j.ptr
    BY <1>1, <1>2, <1>3, <2>1, CleanFacts, ConstructedIsClean DEF j, SamePools, NoMoreBlocks
  <2> QED BY <1>1, <2>1, <2>2
<1>4. CASE Constructed(p, Fault([m EXCEPT !.ptr[p] = m.ptr[q]], "bitwise",
                                m.ptr[q].refs # NULL))
  <2> DEFINE a == [m EXCEPT !.ptr[p] = m.ptr[q]]
  <2>1. a \in Memory /\ a.faults = {}
    BY <1>1, CleanFacts DEF Memory
  <2> HIDE DEF a
  <2>2. m.ptr[q].refs = NULL
    <3>1. m'.faults = Fault(a, "bitwise", m.ptr[q].refs # NULL).faults
      BY <1>4, <2>1 DEF a, Constructed, Fault, Memory
    <3> QED BY <2>1, <3>1 DEF Fault, Memory
  <2>3. m.ptr[q] = Blank
    BY <1>1, <2>2, CleanFacts DEF Sound
  <2>4. a = m
    <3>1. [m.ptr EXCEPT ![p] = m.ptr[q]] = m.ptr
      BY <1>1, <1>2, <2>3, CleanFacts DEF Memory
    <3>2. [m EXCEPT !.ptr = m.ptr] = m
      BY <1>1, CleanFacts DEF Memory
    <3> QED BY <3>1, <3>2 DEF a
  <2>5. Constructed(p, m)
    BY <1>4, <2>2, <2>4 DEF Fault, a
  <2>6. Sound(Alive(m, p), raw')
    BY <1>1, CleanFacts, BlankIsSound
  <2>7. Clean' /\ m'.ptr = m.ptr
    BY <1>1, <1>2, <2>5, <2>6, CleanFacts, ConstructedIsClean
     DEF SamePools, NoMoreBlocks
  <2>8. [m.ptr EXCEPT ![p] = m.ptr[q]] = m.ptr
    BY <1>1, <1>2, <2>3, CleanFacts DEF Memory
  <2> QED BY <1>1, <2>7, <2>8
<1> QED BY <1>3, <1>4 DEF CopyConstruct

LEMMA SmallKept ==
    ASSUME NEW mm, NEW nn, NEW R, NEW S, Sound(mm, R), Sound(nn, S), S \subseteq R,
           R \subseteq mm.mv["small"].blocks,
           NoMoreBlocks(mm, nn)
    PROVE  S \subseteq nn.mv["small"].blocks
BY InUseOf, SizeOf DEF Sound, NoMoreBlocks

\* The destructor of a variable
Dropped(mm, p) == Removed(Released(mm, p), {p})

LEMMA DroppedIsSound ==
    ASSUME NEW mm, NEW R, Sound(mm, R), NEW p \in mm.live \cap Roots,
           Dropped(mm, p).faults = {}
    PROVE  LET y == Dropped(mm, p)
           IN  /\ Sound(y, R)
               /\ y.live \cap Roots = (mm.live \cap Roots) \ {p}
               /\ y.ptr = [mm.ptr EXCEPT ![p] = Blank]
               /\ SamePools(mm, y) /\ NoMoreBlocks(mm, y)
<1> DEFINE x == Released(mm, p)
           d == Cleared(x, p)
           y == Removed(x, {p})
<1>1. mm \in Memory /\ p \in Pointers /\ p \notin Blocks /\ p \in mm.live
  BY Places DEF Sound
<1>2. x \in Memory
  BY <1>1, ReleasedType
<1> HIDE DEF x
<1>3. /\ y.faults = x.faults /\ y.failed = x.failed /\ y.mv = x.mv
      /\ y.count = x.count /\ y.live = x.live \ {p}
      /\ y.ptr = [q \in Pointers |-> IF q \in {p} THEN Blank ELSE x.ptr[q]]
      /\ y \in Memory
  <2>1. y \in Memory
    BY <1>2, RemovedType
  <2> QED BY <1>2, <2>1 DEF Removed, Memory
<1>4. /\ Sound(d, R) /\ p \in x.live /\ x.ptr = mm.ptr
      /\ x.live \cap Roots = mm.live \cap Roots
      /\ SamePools(mm, x) /\ NoMoreBlocks(mm, x)
  <2>1. Released(mm, p).faults = {}
    BY <1>3 DEF x, Dropped
  <2>2. Sound(mm, R) /\ p \in mm.live
    BY <1>1
  <2> HIDE DEF y, d
  <2>3. /\ Sound(Cleared(x, p), R) /\ p \in x.live /\ x.ptr = mm.ptr
        /\ x.live \cap Roots = mm.live \cap Roots
    BY <2>1, <2>2, ReleasedIsSound DEF x
  <2>4. SamePools(mm, x) /\ NoMoreBlocks(mm, x)
    BY <2>1, <2>2, ReleasedIsSound DEF x
  <2> QED BY <2>3, <2>4 DEF d
<1>5. /\ d.mv = x.mv /\ d.live = x.live /\ d.count = x.count
      /\ d.failed = x.failed /\ d.faults = x.faults
      /\ d.ptr = [x.ptr EXCEPT ![p] = Blank]
  BY <1>2 DEF Memory, Cleared
<1> HIDE DEF d, y
<1>6. y.ptr = d.ptr /\ d.ptr = [mm.ptr EXCEPT ![p] = Blank] /\ d.ptr[p] = Blank
  BY <1>1, <1>2, <1>3, <1>4, <1>5 DEF Memory
<1>7. Sound(y, R)
  <2>1. InUse(y) = InUse(d)
    BY <1>3, <1>5, InUseOf
  <2>2. y.live \cap Blocks = d.live \cap Blocks
    BY <1>1, <1>3, <1>5
  <2>3. \A r \in Counters : Sharers(y, r) = Sharers(d, r)
    <3>1. Blank.refs = NULL
      BY DEF Blank
    <3> QED BY <1>3, <1>5, <1>6, <3>1, Places DEF Sharers
  <2>4. IsFiniteSet(y.live)
    BY <1>3, <1>4, <1>5, FS_RemoveElement DEF Sound
  <2>5. \A q \in Pointers :
          q \notin y.live \/ y.ptr[q].refs = NULL => y.ptr[q] = Blank
    BY <1>3, <1>4, <1>5, <1>6 DEF Sound
  <2> QED BY <1>3, <1>4, <1>5, <1>6, <2>1, <2>2, <2>3, <2>4, <2>5 DEF Sound
<1>8. y.live \cap Roots = (mm.live \cap Roots) \ {p}
  BY <1>3, <1>4
<1> QED BY <1>3, <1>4, <1>6, <1>7, <1>8 DEF y, x, Dropped, SamePools, NoMoreBlocks

LEMMA DestroyStep ==
    ASSUME Inv, NEW p \in Roots, Destroy(p), m'.faults = {}
    PROVE  Clean' /\ m'.ptr = [m.ptr EXCEPT ![p] = Blank] /\ raw' = raw
<1>1. /\ Running /\ p \in m.live /\ p \in Autos /\ raw' = raw
      /\ m' = Dropped(m, p)
      /\ UNCHANGED <<program, built, exiting, handle>>
  BY DEF Destroy, Dropped
<1>2. Clean /\ Sound(m, raw)
  BY <1>1, CleanFacts
<1>3. /\ Sound(m', raw)
      /\ m'.live \cap Roots = (m.live \cap Roots) \ {p}
      /\ m'.ptr = [m.ptr EXCEPT ![p] = Blank]
      /\ SamePools(m, m') /\ NoMoreBlocks(m, m')
  <2>1. p \in m.live \cap Roots
    BY <1>1
  <2>2. Dropped(m, p).faults = {}
    BY <1>1
  <2> QED BY <1>1, <1>2, <2>1, <2>2, DroppedIsSound
<1>4. m'.live \cap Statics = m.live \cap Statics
  BY <1>1, <1>3, Places
<1>5. raw' \subseteq m'.mv["small"].blocks
  BY <1>1, <1>2, <1>3, SmallKept DEF Clean
<1> QED BY <1>1, <1>2, <1>3, <1>4, <1>5, OtherIsClean

LEMMA AssignStep ==
    ASSUME Inv, NEW p \in Pointers, NEW q \in Pointers, Assign(p, q),
           m'.faults = {}
    PROVE  Clean' /\ m'.ptr = [m.ptr EXCEPT ![p] = m.ptr[q]] /\ raw' = raw
<1> DEFINE x == Released(m, p)
           d == Cleared(x, p)
<1>1. /\ Running /\ p \in m.live /\ q \in m.live /\ raw' = raw
      /\ m' = Assigned(m, p, q)
      /\ UNCHANGED <<program, built, exiting, handle>>
  BY DEF Assign, Accessible
<1>2. Clean /\ Sound(m, raw) /\ m \in Memory
  BY <1>1, CleanFacts
<1>3. x \in Memory
  BY <1>2, ReleasedType
<1> HIDE DEF x
<1>4. ~Undercuts(x, q) /\ x.faults = {} /\ m' = Joined(x, p, q)
  <2> DEFINE f == Fault(x, "self", Undercuts(x, q))
  <2>1. f \in Memory
    BY <1>3, FaultType DEF Faults
  <2>2. m' = Joined(f, p, q)
    BY <1>1 DEF Assigned, x
  <2> HIDE DEF f
  <2>3. f.faults = {}
    BY <2>1, <2>2 DEF Joined, Failure, Memory
  <2>4. ~Undercuts(x, q)
    BY <1>3, <2>3 DEF f, Fault, Memory
  <2>5. f = x
    BY <2>4 DEF f, Fault
  <2> QED BY <2>2, <2>3, <2>4, <2>5
<1>5. /\ Sound(d, raw) /\ ~x.failed
      /\ p \in x.live /\ x.live \subseteq m.live
      /\ x.live \cap Roots = m.live \cap Roots
      /\ x.ptr = m.ptr
      /\ SamePools(m, x) /\ NoMoreBlocks(m, x)
      /\ m.ptr[p].refs = NULL => x = m
      /\ m.ptr[p].refs # NULL =>
              /\ m.ptr[p].refs \in Counters
              /\ x.count = [m.count EXCEPT ![m.ptr[p].refs] = @ - 1]
              /\ m.count[m.ptr[p].refs] > 1 => x.live = m.live /\ x.mv = m.mv
              /\ m.count[m.ptr[p].refs] \in Nat \ {0}
  BY <1>1, <1>2, <1>4, ReleasedIsSound DEF x
<1> DEFINE v == m.ptr[q]
           c == [r \in Counters |-> IF r = v.refs THEN x.count[r] + 1
                                    ELSE x.count[r]]
<1>6. m' = [x EXCEPT !.ptr[p] = v, !.count = c]
  BY <1>4, <1>5 DEF Undercuts, Joined
<1> HIDE DEF c
<1>7. /\ m'.live = x.live /\ m'.mv = x.mv /\ m'.count = c
      /\ m'.ptr = [m.ptr EXCEPT ![p] = v]
      /\ m'.failed = x.failed /\ m'.faults = x.faults
  BY <1>3, <1>5, <1>6 DEF Memory
<1>8. m' \in Memory
  BY <1>3, <1>4, JoinedType
<1>9. Sound(m', raw)
  <2>1. CASE p = q
    <3>1. c = m.count /\ x.live = m.live /\ x.mv = m.mv
      <4>1. CASE v.refs = NULL
        <5>1. c = m.count
          BY <1>2, <1>5, <2>1, <4>1, Places DEF c, Memory
        <5> QED BY <1>5, <2>1, <4>1, <5>1
      <4>2. CASE v.refs # NULL
        <5> DEFINE r == v.refs
        <5>1. /\ r \in Counters /\ m.count[r] \in Nat \ {0}
              /\ x.count = [m.count EXCEPT ![r] = @ - 1]
              /\ m.count[r] > 1 => x.live = m.live /\ x.mv = m.mv
          BY <1>5, <2>1, <4>2
        <5>2. x.count[r] # 0
          BY <1>4, <1>5, <2>1, <4>2 DEF Undercuts
        <5> HIDE DEF v
        <5>3. m.count[r] > 1
          BY <1>2, <5>1, <5>2 DEF Memory
        <5>4. c = m.count
          BY <1>2, <5>1 DEF c, Memory
        <5> QED BY <5>1, <5>3, <5>4
      <4> QED BY <4>1, <4>2
    <3>2. m'.ptr = m.ptr
      BY <1>2, <1>7, <2>1 DEF Memory
    <3>3. m'.failed = m.failed /\ m'.faults = m.faults
      <4>1. m.failed = FALSE /\ m.faults = {}
        BY <1>2 DEF Sound, Memory
      <4>2. x.failed = FALSE
        BY <1>3, <1>5 DEF Memory
      <4> QED BY <1>4, <1>7, <4>1, <4>2
    <3>4. m' = m
      BY <1>2, <1>7, <1>8, <3>1, <3>2, <3>3, SameMemory
    <3> QED BY <1>2, <3>4
  <2>2. CASE p # q
    <3>1. /\ d.mv = x.mv /\ d.live = x.live /\ d.count = x.count
          /\ d.failed = x.failed /\ d.faults = x.faults
          /\ d.ptr = [m.ptr EXCEPT ![p] = Blank]
      BY <1>3, <1>5 DEF Memory, Cleared
    <3> HIDE DEF d
    <3>2. d.ptr[p] = Blank /\ d.ptr[q] = v /\ p \in d.live /\ q \in d.live
          /\ d.ptr \in [Pointers -> [t : Blocks \cup {NULL},
                                     refs : Counters \cup {NULL}]]
      BY <1>2, <1>4, <1>5, <2>2, <3>1, BlankType DEF Memory, Undercuts
    <3> DEFINE j == Joined(d, p, q)
    <3>3. /\ Sound(Alive(j, p), raw) /\ j \in Memory
          /\ j.live = d.live /\ j.mv = d.mv /\ j.faults = {}
          /\ j.ptr = [d.ptr EXCEPT ![p] = d.ptr[q]]
      BY <1>5, <3>2, JoinedIsSound
    <3>4. j.count = c /\ j.failed = d.failed
      <4>1. d \in Memory
        BY <1>5 DEF Sound
      <4>2. j = [d EXCEPT !.ptr[p] = v, !.count = c]
        <5>1. ~(v.refs # NULL /\ x.count[v.refs] = 0)
          BY <1>4, <1>5 DEF Undercuts
        <5> HIDE DEF v
        <5> QED BY <3>1, <3>2, <5>1 DEF Joined, c
      <4> QED BY <4>1, <4>2 DEF Memory
    <3>5. m'.ptr = j.ptr
      BY <1>2, <1>7, <3>1, <3>2, <3>3 DEF Memory
    <3> HIDE DEF j
    <3>6. m' = j
      <4>1. /\ m'.mv = j.mv /\ m'.live = j.live /\ m'.count = j.count
            /\ m'.failed = j.failed /\ m'.faults = j.faults
        BY <1>4, <1>7, <3>1, <3>3, <3>4
      <4> QED BY <1>8, <3>3, <3>5, <4>1, SameMemory
    <3>7. Alive(j, p) = j
      <4>1. j.live \cup {p} = j.live
        BY <3>2, <3>3
      <4> QED BY <3>3, <4>1 DEF Alive, Memory
    <3> QED BY <3>3, <3>6, <3>7
  <2> QED BY <2>1, <2>2
<1>10. m'.live \cap Statics = m.live \cap Statics
  BY <1>5, <1>7, Places
<1>11. raw' \subseteq m'.mv["small"].blocks
  BY <1>1, <1>2, <1>5, <1>7, <1>9, SmallKept DEF Clean, SamePools, NoMoreBlocks
<1>12. Clean'
  BY <1>1, <1>2, <1>5, <1>7, <1>9, <1>10, <1>11, OtherIsClean
     DEF SamePools, NoMoreBlocks
<1> QED BY <1>1, <1>7, <1>12

LEMMA RawAllocateStep ==
    ASSUME Inv, RawAllocate, m'.faults = {}
    PROVE  /\ Clean' /\ m'.ptr = m.ptr
           /\ \E b \in Blocks \ InUse(m) : raw' = raw \cup {b}
<1>1. /\ Running /\ HasHandle /\ "small" \in Sizes
      /\ UNCHANGED <<program, built, exiting, handle>>
  BY DEF RawAllocate, Sizes
<1>2. Clean /\ Sound(m, raw) /\ m \in Memory
  BY <1>1, CleanFacts
<1>3. PICK b \in Blocks \ InUse(m) : /\ m' = Allocated(m, b, "small")
                                     /\ raw' = raw \cup {b}
  BY DEF RawAllocate
<1>4. m.mv["small"].pool = "ready" /\ m.mv["small"] \in Singleton
  <2>1. Users("small") # {}
    BY <1>1, SizeOf DEF HasHandle, Users, StaticHandles
  <2> QED BY <1>1, <1>2, <2>1 DEF Clean, Pools, Memory
<1>5. /\ Sound(m', raw \cup {b}) /\ m'.live = m.live \cup {b}
      /\ m'.ptr = m.ptr
      /\ m'.mv = [m.mv EXCEPT !["small"] = allocate(@, b)]
  <2>1. CanAllocate(m.mv["small"])
    BY <1>4 DEF CanAllocate
  <2> QED BY <1>1, <1>2, <1>3, <2>1, AllocatedIsSound
<1>6. /\ allocate(m.mv["small"], b).cnt = m.mv["small"].cnt
      /\ allocate(m.mv["small"], b).pool = "ready"
      /\ allocate(m.mv["small"], b).blocks = m.mv["small"].blocks \cup {b}
  BY <1>4 DEF allocate, Singleton
<1>7. SamePools(m, m') /\ raw' \subseteq m'.mv["small"].blocks
  <2>1. m.mv \in [Sizes -> Singleton]
    BY <1>2 DEF Memory
  <2> QED BY <1>1, <1>2, <1>3, <1>4, <1>5, <1>6, <2>1 DEF SamePools, Clean
<1>8. m'.live \cap Statics = m.live \cap Statics
  BY <1>3, <1>5, Places
<1>9. Clean'
  BY <1>1, <1>2, <1>3, <1>5, <1>7, <1>8, OtherIsClean
<1> QED BY <1>3, <1>5, <1>9

LEMMA RawDeallocateStep ==
    ASSUME Inv, RawDeallocate, m'.faults = {}
    PROVE  /\ Clean'
           /\ \E b \in raw : /\ m'.ptr = [m.ptr EXCEPT ![b] = Blank]
                             /\ raw' = raw \ {b}
<1>1. Running /\ UNCHANGED <<program, built, exiting, handle>>
  BY DEF RawDeallocate
<1>2. /\ Clean /\ Sound(m, raw) /\ m \in Memory
      /\ raw \subseteq m.mv["small"].blocks
  BY <1>1, CleanFacts DEF Clean
<1>3. PICK b \in raw : /\ m' = Deallocated(Released(m, b), b, "small")
                       /\ raw' = raw \ {b}
  BY DEF RawDeallocate
<1> DEFINE x == Released(m, b)
           d == Cleared(x, b)
           y == Deallocated(d, b, "small")
<1>4. b \in Blocks /\ b \in Pointers /\ b \in m.live /\ b \in raw
      /\ "small" \in Sizes
  BY <1>1, <1>3, Places, CleanFacts DEF Sound, Sizes
<1>5. x \in Memory
  BY <1>2, <1>4, ReleasedType
<1>6. x.faults = {}
  <2> HIDE DEF x
  <2>1. Deallocated(x, b, "small").faults = x.faults
    BY <1>5 DEF Deallocated, Removed, Failure, Memory
  <2>2. m'.faults = x.faults
    BY <1>3, <2>1 DEF x
  <2> QED BY <2>2
<1>7. /\ Sound(d, raw) /\ ~x.failed
      /\ x.live \cap Roots = m.live \cap Roots /\ x.ptr = m.ptr
      /\ SamePools(m, x) /\ NoMoreBlocks(m, x)
  BY <1>2, <1>4, <1>6, ReleasedIsSound
<1> HIDE DEF x
<1>8. /\ d.mv = x.mv /\ d.live = x.live /\ d.count = x.count
      /\ d.failed = x.failed /\ d.faults = x.faults
      /\ d.ptr = [m.ptr EXCEPT ![b] = Blank] /\ d \in Memory
  BY <1>5, <1>7 DEF Memory, Cleared, Sound
<1> HIDE DEF d
<1>9. b \in d.mv["small"].blocks /\ d.ptr[b] = Blank
  <2>1. NoMoreBlocks(m, d)
    BY <1>7, <1>8 DEF NoMoreBlocks
  <2>2. raw \subseteq d.mv["small"].blocks
    BY <1>2, <1>7, <2>1, SmallKept
  <2> QED BY <1>2, <1>3, <1>4, <1>8, <2>2 DEF Memory
<1>10. /\ Sound(y, raw \ {b}) /\ y.live = d.live \ {b}
       /\ y.ptr = d.ptr /\ y.count = d.count
       /\ SamePools(d, y) /\ NoMoreBlocks(d, y)
  BY <1>4, <1>7, <1>9, DeallocatedIsSound
<1>11. m' = y
  <2>1. d.mv["small"].pool = "ready"
    BY <1>4, <1>7, <1>9 DEF Sound
  <2>2. y = Removed([d EXCEPT !.mv["small"] = deallocate(@, b)], {b})
    BY <1>9, <2>1 DEF Deallocated, CanDeallocate
  <2>3. m' = Removed([x EXCEPT !.mv["small"] = deallocate(@, b)], {b})
    BY <1>3, <1>8, <1>9, <2>1 DEF Deallocated, CanDeallocate, x
  <2>4. m' \in Memory /\ y \in Memory
    BY <1>3, <1>4, <1>5, <1>8, DeallocatedType DEF x
  <2>5. /\ y.mv = [d.mv EXCEPT !["small"] = deallocate(@, b)]
        /\ y.live = d.live \ {b} /\ y.count = d.count
        /\ y.failed = d.failed /\ y.faults = d.faults
        /\ y.ptr = [p \in Pointers |-> IF p \in {b} THEN Blank ELSE d.ptr[p]]
    BY <1>8, <2>2 DEF Removed, Memory
  <2>6. /\ m'.mv = [x.mv EXCEPT !["small"] = deallocate(@, b)]
        /\ m'.live = x.live \ {b} /\ m'.count = x.count
        /\ m'.failed = x.failed /\ m'.faults = x.faults
        /\ m'.ptr = [p \in Pointers |-> IF p \in {b} THEN Blank ELSE x.ptr[p]]
    BY <1>5, <2>3 DEF Removed, Memory
  <2>7. m'.ptr = y.ptr
    BY <1>2, <1>7, <1>8, <2>5, <2>6 DEF Memory
  <2> HIDE DEF y
  <2>8. /\ m'.mv = y.mv /\ m'.live = y.live /\ m'.count = y.count
        /\ m'.failed = y.failed /\ m'.faults = y.faults
    BY <1>8, <2>5, <2>6
  <2> QED BY <2>4, <2>7, <2>8, SameMemory
<1> HIDE DEF y
<1>12. SamePools(m, m') /\ NoMoreBlocks(m, m')
  BY <1>7, <1>8, <1>10, <1>11 DEF SamePools, NoMoreBlocks
<1>13. m'.live \cap Statics = m.live \cap Statics
  BY <1>4, <1>7, <1>8, <1>10, <1>11, Places
<1>14. Sound(m', raw')
  BY <1>3, <1>10, <1>11
<1>15. raw' \subseteq m'.mv["small"].blocks
  BY <1>2, <1>3, <1>12, <1>14, SmallKept
<1>16. Clean'
  BY <1>1, <1>2, <1>12, <1>13, <1>14, <1>15, OtherIsClean
<1> QED BY <1>3, <1>8, <1>10, <1>11, <1>16

LEMMA ConstructMVStep ==
    ASSUME Inv, NEW size \in Sizes, ConstructMV(size), m'.faults = {}
    PROVE  Clean' /\ m'.ptr = m.ptr /\ raw' = raw
<1>1. /\ Running /\ UNCHANGED <<program, built, exiting, handle, raw>>
      /\ m' = Fault([m EXCEPT !.mv[size] = MV(@)], "order", m.mv[size].cnt # 0)
  BY DEF ConstructMV
<1>2. /\ Clean /\ Sound(m, raw) /\ m \in Memory
      /\ raw \subseteq m.mv["small"].blocks
      /\ m.mv[size] \in Singleton
  BY <1>1, CleanFacts DEF Clean
<1> DEFINE x == [m EXCEPT !.mv[size] = MV(@)]
<1>3. x \in Memory
  <2>1. MV(m.mv[size]) \in Singleton
    BY <1>2, SingletonType
  <2> QED BY <1>2, <2>1 DEF Memory
<1>4. m.mv[size].cnt = 0
  <2> HIDE DEF x
  <2> QED BY <1>1, <1>3 DEF Fault, Memory, x
<1>5. MV(m.mv[size]) = m.mv[size]
  BY <1>2, <1>4 DEF MV, Singleton
<1>6. [m.mv EXCEPT ![size] = m.mv[size]] = m.mv
  BY <1>2 DEF Memory
<1>7. m' = m
  BY <1>1, <1>2, <1>4, <1>5, <1>6 DEF Fault, Memory
<1>8. Clean'
  BY <1>1, <1>2, <1>7, OtherIsClean DEF SamePools
<1> QED BY <1>1, <1>7, <1>8

LEMMA ExitStep ==
    ASSUME Inv, Exit
    PROVE  Clean' /\ m'.ptr = m.ptr /\ raw' = raw
<1>1. /\ Running /\ ~handle
      /\ UNCHANGED <<program, built, handle, raw, m>> /\ exiting' = TRUE
  BY DEF Exit
<1>2. Clean /\ Sound(m, raw)
  BY <1>1, CleanFacts
<1>3. Built' = Built /\ StaticHandles' = StaticHandles
      /\ StaticObjects' = StaticObjects
  BY <1>1 DEF Built, StaticHandles, StaticObjects
<1>4. Pools'
  <2>1. \A s \in Sizes : Users(s)' = Users(s)
    BY <1>1, <1>3, UsersFacts
  <2> QED BY <1>1, <1>2, <2>1 DEF Clean, Pools
<1>5. Statically'
  BY <1>1, <1>2, <1>3 DEF Clean, Statically
<1> QED BY <1>1, <1>2, <1>4, <1>5 DEF Clean

\* An object that is not yet counted leaves room in the count.
LEMMA RoomForUser ==
    ASSUME NEW s \in Sizes, NEW h \in StaticHandles \cup {AutoHandle},
           h \notin Users(s)
    PROVE  Cardinality(Users(s) \cup {h}) = Cardinality(Users(s)) + 1
           /\ Cardinality(Users(s)) < 4
<1> DEFINE T == {AllocT, AllocX, StaticHandle, AutoHandle}
<1>1. Users(s) \cup {h} \in SUBSET T
  BY DEF Users, StaticHandles
<1>2. IsFiniteSet(Users(s)) /\ Cardinality(Users(s)) \in 0 .. 4
  BY UsersFacts
<1>3. /\ IsFiniteSet(Users(s) \cup {h})
      /\ Cardinality(Users(s) \cup {h}) = Cardinality(Users(s)) + 1
  BY <1>2, FS_AddElement
<1>4. IsFiniteSet(T)
  <2>1. T = (({AllocT} \cup {AllocX}) \cup {StaticHandle}) \cup {AutoHandle}
    OBVIOUS
  <2>2. IsFiniteSet({AllocT} \cup {AllocX})
    BY FS_Singleton, FS_AddElement
  <2>3. IsFiniteSet(({AllocT} \cup {AllocX}) \cup {StaticHandle})
    BY <2>2, FS_AddElement
  <2> HIDE DEF T
  <2> QED BY <2>1, <2>3, FS_AddElement
<1>5. Cardinality(T) = 4
  BY PlaceAssumption
<1> HIDE DEF T
<1>6. Cardinality(Users(s) \cup {h}) <= 4
  BY <1>1, <1>4, <1>5, FS_Subset
<1> QED BY <1>2, <1>3, <1>6

\* A GJAlloc object is constructed.
LEMMA RegisterKeeps ==
    ASSUME Inv, Running, NEW h \in StaticHandles \cup {AutoHandle},
           h \notin Users(Size(h)), m' = Registered(m, Size(h)),
           UNCHANGED <<program, exiting, raw>>,
           \A s \in Sizes : Users(s)' = IF s = Size(h) THEN Users(s) \cup {h}
                                        ELSE Users(s)
    PROVE  /\ Pools' /\ Sound(m', raw') /\ raw' \subseteq m'.mv["small"].blocks
           /\ m'.live = m.live /\ m'.ptr = m.ptr
<1> DEFINE size == Size(h)
<1>1. /\ Clean /\ Sound(m, raw) /\ m \in Memory /\ size \in Sizes
      /\ raw \subseteq m.mv["small"].blocks
      /\ m.mv[size] \in Singleton
  BY SizeOf, CleanFacts DEF Clean
<1>2. /\ m.mv[size].cnt = Cardinality(Users(size))
      /\ m.mv[size].pool = "ready" <=> Users(size) # {}
      /\ m.mv[size].cnt \in Nat /\ m.mv[size].cnt < 4
      /\ m.mv[size].cnt = 0 <=> Users(size) = {}
  BY <1>1, UsersFacts, RoomForUser, FS_EmptySet DEF Clean, Pools
<1>3. m.mv[size].cnt < CntMod - 1
  BY <1>2, CntAssumption, HandleAssumption
<1>4. m.mv[size].cnt = 0 => m.mv[size].blocks = {}
  BY <1>1, <1>2 DEF Sound
<1>5. /\ Sound(m', raw) /\ m'.live = m.live /\ m'.ptr = m.ptr
      /\ \A s \in Sizes : m'.mv[s].blocks = m.mv[s].blocks
      /\ \A s \in Sizes \ {size} : m'.mv[s] = m.mv[s]
      /\ m'.mv[size].cnt = m.mv[size].cnt + 1
      /\ m'.mv[size].pool = IF m.mv[size].cnt = 0 THEN "ready"
                            ELSE m.mv[size].pool
  <2> HIDE DEF size
  <2>1. m' = Registered(m, size)
    BY DEF size
  <2> QED BY <1>1, <1>3, <1>4, <2>1, RegisteredIsSound
<1>6. Pools'
  <2>1. ASSUME NEW s \in Sizes
        PROVE  /\ m'.mv[s].cnt = Cardinality(Users(s)')
               /\ m'.mv[s].pool = "ready" <=> Users(s)' # {}
               /\ ~exiting' => m'.mv[s].pool # "destroyed"
    <3>1. CASE s = size
      <4>1. Users(s)' = Users(s) \cup {h}
        BY <3>1
      <4>2. Cardinality(Users(s) \cup {h}) = Cardinality(Users(s)) + 1
        BY <3>1, RoomForUser
      <4>3. m'.mv[s].pool = "ready"
        BY <1>2, <1>5, <3>1
      <4> HIDE DEF size
      <4> QED BY <1>2, <1>5, <3>1, <4>1, <4>2, <4>3
    <3>2. CASE s # size
      BY <1>1, <1>5, <3>2 DEF Clean, Pools
    <3> QED BY <3>1, <3>2
  <2> QED BY <2>1 DEF Pools
<1>7. raw' \subseteq m'.mv["small"].blocks
  BY <1>1, <1>5, SizeOf
<1> QED BY <1>5, <1>6, <1>7

\* A GJAlloc object is destroyed, in main not the last one.
LEMMA UnregisterKeeps ==
    ASSUME Inv, Running, NEW h \in StaticHandles \cup {AutoHandle},
           h \in Users(Size(h)), m' = Unregistered(m, Size(h)),
           m'.faults = {}, UNCHANGED <<program, exiting>>,
           raw' = raw \cap InUse(m'),
           \A s \in Sizes : Users(s)' = IF s = Size(h) THEN Users(s) \ {h}
                                        ELSE Users(s),
           exiting \/ Users(Size(h)) # {h}
    PROVE  /\ Pools' /\ Sound(m', raw') /\ raw' \subseteq m'.mv["small"].blocks
           /\ m'.live \cap Roots = m.live \cap Roots /\ m'.ptr = m.ptr
<1> DEFINE size == Size(h)
<1>1. /\ Clean /\ Sound(m, raw) /\ m \in Memory /\ size \in Sizes
      /\ raw \subseteq m.mv["small"].blocks
      /\ m.mv[size] \in Singleton
  BY SizeOf, CleanFacts DEF Clean
<1>2. /\ IsFiniteSet(Users(size)) /\ Cardinality(Users(size)) \in 0 .. 4
      /\ Cardinality(Users(size)) # 0
      /\ Cardinality(Users(size) \ {h}) = Cardinality(Users(size)) - 1
      /\ Cardinality(Users(size)) = 1 <=> Users(size) = {h}
  <2>1. IsFiniteSet(Users(size)) /\ Cardinality(Users(size)) \in 0 .. 4
    BY <1>1, UsersFacts
  <2>2. Cardinality(Users(size)) # 0
    BY <2>1, FS_EmptySet
  <2>3. Cardinality(Users(size) \ {h}) = Cardinality(Users(size)) - 1
    BY <2>1, FS_RemoveElement
  <2>4. Cardinality(Users(size)) = 1 <=> Users(size) = {h}
    BY <2>1, FS_Singleton
  <2> QED BY <2>1, <2>2, <2>3, <2>4
<1>3. m.mv[size].cnt = Cardinality(Users(size)) /\ m.mv[size].pool = "ready"
      /\ m.mv[size].cnt > 0
  BY <1>1, <1>2 DEF Clean, Pools
<1> HIDE DEF size
<1>4. /\ Sound(m', raw \cap InUse(m'))
      /\ m'.live \cap Roots = m.live \cap Roots /\ m'.ptr = m.ptr
      /\ NoMoreBlocks(m, m')
      /\ \A s \in Sizes \ {size} : m'.mv[s] = m.mv[s]
      /\ m'.mv[size].cnt = m.mv[size].cnt - 1
      /\ m'.mv[size].pool = IF m.mv[size].cnt = 1 THEN "destroyed" ELSE "ready"
  <2>1. m' = Unregistered(m, size) /\ Unregistered(m, size).faults = {}
    BY DEF size
  <2> QED BY <1>1, <1>3, <2>1, UnregisteredIsSound DEF NoMoreBlocks
<1>5. Pools'
  <2>1. ASSUME NEW s \in Sizes
        PROVE  /\ m'.mv[s].cnt = Cardinality(Users(s)')
               /\ m'.mv[s].pool = "ready" <=> Users(s)' # {}
               /\ ~exiting' => m'.mv[s].pool # "destroyed"
    <3>1. CASE s = size
      <4>1. Users(s)' = Users(s) \ {h}
        BY <3>1 DEF size
      <4>2. m.mv[s].cnt = 1 <=> Users(s)' = {}
        BY <1>2, <1>3, <3>1, <4>1 DEF size
      <4>3. ~exiting' => m.mv[s].cnt # 1
        BY <1>2, <1>3, <3>1 DEF size
      <4> QED BY <1>2, <1>3, <1>4, <3>1, <4>1, <4>2, <4>3
    <3>2. CASE s # size
      BY <1>1, <1>4, <3>2 DEF Clean, Pools, size
    <3> QED BY <3>1, <3>2
  <2> QED BY <2>1 DEF Pools
<1>6. raw' \subseteq m'.mv["small"].blocks
  <2>1. raw' \subseteq raw /\ Sound(m', raw')
    BY <1>4
  <2> QED BY <1>1, <1>4, <2>1, SmallKept
<1> QED BY <1>4, <1>5, <1>6

LEMMA RegisterHandleStep ==
    ASSUME Inv, RegisterHandle
    PROVE  Clean' /\ m'.ptr = m.ptr /\ raw' = raw
<1>1. /\ Running /\ InMain /\ ~handle /\ handle' = TRUE
      /\ m' = Registered(m, Size(AutoHandle))
      /\ UNCHANGED <<program, built, exiting, raw>>
  BY DEF RegisterHandle
<1>2. Built' = Built /\ StaticHandles' = StaticHandles
      /\ StaticObjects' = StaticObjects
  BY <1>1 DEF Built, StaticHandles, StaticObjects
<1>3. AutoHandle \notin Users(Size(AutoHandle))
  BY <1>1, Places DEF Users
<1>4. \A s \in Sizes : Users(s)' = IF s = Size(AutoHandle)
                                   THEN Users(s) \cup {AutoHandle} ELSE Users(s)
  <2>1. \A o : Size(o)' = Size(o)
    BY <1>1 DEF Size
  <2> QED BY <1>1, <1>2, <2>1 DEF Users
<1>5. /\ Pools' /\ Sound(m', raw') /\ raw' \subseteq m'.mv["small"].blocks
      /\ m'.live = m.live /\ m'.ptr = m.ptr
  BY <1>1, <1>3, <1>4, RegisterKeeps
<1>6. Statically'
  BY <1>1, <1>2, <1>5, CleanFacts DEF Clean, Statically, InMain
<1> QED BY <1>1, <1>5, <1>6 DEF Clean

LEMMA UnregisterHandleStep ==
    ASSUME Inv, UnregisterHandle, m'.faults = {}
    PROVE  Clean' /\ m'.ptr = m.ptr /\ raw' \subseteq raw
<1>1. /\ Running /\ handle /\ ~handle'
      /\ m' = Unregistered(m, Size(AutoHandle))
      /\ raw' = raw \cap InUse(m')
      /\ UNCHANGED <<program, built, exiting>>
  BY DEF UnregisterHandle
<1>2. Built' = Built /\ StaticHandles' = StaticHandles
      /\ StaticObjects' = StaticObjects
  BY <1>1 DEF Built, StaticHandles, StaticObjects
<1>3. Built = StaticObjects
  BY <1>1, CleanFacts DEF Clean, Statically
<1>4. /\ AutoHandle \in Users(Size(AutoHandle))
      /\ Users(Size(AutoHandle)) # {AutoHandle}
  <2>1. AutoHandle \in Users(Size(AutoHandle))
    BY <1>1 DEF Users
  <2>2. AllocT \in Users(Size(AutoHandle)) /\ AllocT # AutoHandle
    BY <1>3, SizeOf, FourHandles DEF Users, StaticObjects, StaticHandles
  <2> QED BY <2>1, <2>2
<1>5. \A s \in Sizes : Users(s)' = IF s = Size(AutoHandle)
                                   THEN Users(s) \ {AutoHandle} ELSE Users(s)
  <2>1. \A o : Size(o)' = Size(o)
    BY <1>1 DEF Size
  <2> QED BY <1>1, <1>2, <2>1, Places DEF Users
<1>6. /\ Pools' /\ Sound(m', raw') /\ raw' \subseteq m'.mv["small"].blocks
      /\ m'.live \cap Roots = m.live \cap Roots /\ m'.ptr = m.ptr
  BY <1>1, <1>4, <1>5, UnregisterKeeps
<1>7. m'.live \cap Statics = m.live \cap Statics
  BY <1>6, Places
<1>8. Statically'
  BY <1>1, <1>2, <1>7, CleanFacts DEF Clean, Statically
<1> QED BY <1>1, <1>6, <1>8 DEF Clean

LEMMA ConstructHandleStep ==
    ASSUME Inv, NEW h \in StaticHandles, ConstructHandle(h)
    PROVE  Clean' /\ m'.ptr = m.ptr /\ raw' = raw
<1>1. /\ Running /\ h \notin Built /\ ~exiting
      /\ built' = Append(built, h) /\ m' = Registered(m, Size(h))
      /\ UNCHANGED <<program, exiting, handle, raw>>
  BY DEF ConstructHandle
<1>2. /\ Built' = Built \cup {h} /\ h \in StaticObjects
      /\ \A i, j \in DOMAIN built' : built'[i] = built'[j] => i = j
      /\ StaticHandles' = StaticHandles /\ StaticObjects' = StaticObjects
  <2>1. h \in StaticObjects
    BY DEF StaticObjects
  <2> QED BY <1>1, <2>1, CleanFacts, AppendBuilt
          DEF Clean, Statically, StaticHandles, StaticObjects
<1>3. h \notin Users(Size(h))
  BY <1>1, Places DEF Users
<1>4. \A s \in Sizes : Users(s)' = IF s = Size(h) THEN Users(s) \cup {h}
                                   ELSE Users(s)
  <2>1. \A o : Size(o)' = Size(o)
    BY <1>1 DEF Size
  <2> QED BY <1>1, <1>2, <2>1 DEF Users
<1>5. /\ Pools' /\ Sound(m', raw') /\ raw' \subseteq m'.mv["small"].blocks
      /\ m'.live = m.live /\ m'.ptr = m.ptr
  BY <1>1, <1>3, <1>4, RegisterKeeps
<1>6. Statically'
  BY <1>1, <1>2, <1>5, CleanFacts, Places DEF Clean, Statically
<1> QED BY <1>1, <1>5, <1>6 DEF Clean

LEMMA DestroyStaticStep ==
    ASSUME Inv, DestroyStatic, m'.faults = {}
    PROVE  /\ Clean' /\ raw' \subseteq raw
           /\ \/ m'.ptr = m.ptr
              \/ \E p \in Pointers : m'.ptr = [m.ptr EXCEPT ![p] = Blank]
<1> DEFINE o == built[Len(built)]
<1>1. /\ Running /\ exiting /\ built # <<>>
      /\ m' = IF o \in Statics THEN Removed(Released(m, o), {o})
              ELSE Unregistered(m, Size(o))
      /\ built' = SubSeq(built, 1, Len(built) - 1)
      /\ raw' = raw \cap InUse(m')
      /\ UNCHANGED <<program, exiting, handle>>
  BY DEF DestroyStatic
<1>2. Clean /\ Sound(m, raw) /\ m \in Memory
  BY <1>1, CleanFacts
<1>3. /\ Built' = Built \ {o} /\ o \in Built /\ o \in StaticObjects
      /\ \A i, j \in DOMAIN built' : built'[i] = built'[j] => i = j
      /\ StaticHandles' = StaticHandles /\ StaticObjects' = StaticObjects
  BY <1>1, <1>2, CleanFacts, ShortenBuilt
     DEF Clean, Statically, StaticHandles, StaticObjects
<1>4. ~handle
  BY <1>1, <1>2 DEF Clean, Statically
<1> HIDE DEF o
<1>5. CASE o \in Statics
  <2>1. /\ m' = Dropped(m, o) /\ o \in m.live \cap Roots
        /\ Dropped(m, o).faults = {} /\ o \in Pointers /\ o \notin StaticHandles
    BY <1>1, <1>2, <1>3, <1>5, Places DEF Dropped, Clean, Statically
  <2>2. /\ Sound(m', raw)
        /\ m'.live \cap Roots = (m.live \cap Roots) \ {o}
        /\ m'.ptr = [m.ptr EXCEPT ![o] = Blank]
        /\ SamePools(m, m') /\ NoMoreBlocks(m, m')
    BY <1>2, <2>1, DroppedIsSound
  <2>3. raw' = raw
    BY <1>1, <2>2 DEF Sound
  <2>4. raw' \subseteq m'.mv["small"].blocks
    BY <1>2, <2>2, <2>3, SmallKept DEF Clean
  <2>5. Pools'
    <3>1. (Built \cap StaticHandles)' = Built \cap StaticHandles
      BY <1>3, <2>1
    <3> QED BY <1>1, <1>2, <2>2, <3>1, PoolsKept DEF Clean
  <2>6. Statically'
    <3>1. m'.live \cap Statics = Built' \cap Statics
      BY <1>2, <1>3, <2>2, Places DEF Clean, Statically
    <3> QED BY <1>1, <1>3, <1>4, <3>1 DEF Statically
  <2> QED BY <2>1, <2>2, <2>3, <2>4, <2>5, <2>6 DEF Clean
<1>6. CASE o \notin Statics
  <2>1. o \in StaticHandles /\ m' = Unregistered(m, Size(o))
    BY <1>1, <1>3, <1>6 DEF StaticObjects
  <2>2. o \in Users(Size(o))
    BY <1>3, <2>1 DEF Users
  <2>3. \A s \in Sizes : Users(s)' = IF s = Size(o) THEN Users(s) \ {o}
                                     ELSE Users(s)
    <3>1. \A x : Size(x)' = Size(x)
      BY <1>1 DEF Size
    <3> QED BY <1>1, <1>3, <1>4, <3>1 DEF Users
  <2>4. /\ Pools' /\ Sound(m', raw') /\ raw' \subseteq m'.mv["small"].blocks
        /\ m'.live \cap Roots = m.live \cap Roots /\ m'.ptr = m.ptr
    BY <1>1, <2>1, <2>2, <2>3, UnregisterKeeps
  <2>5. Statically'
    <3>1. m'.live \cap Statics = Built' \cap Statics
      BY <1>2, <1>3, <1>6, <2>4, Places DEF Clean, Statically
    <3> QED BY <1>1, <1>3, <1>4, <3>1 DEF Statically
  <2> QED BY <1>1, <2>4, <2>5 DEF Clean
<1> QED BY <1>5, <1>6

LEMMA InvInit == Init => Inv
<1> SUFFICES ASSUME Init PROVE Inv
  OBVIOUS
<1>1. TypeOK
  BY TypeInit
<1>2. /\ m.live = {} /\ ~m.failed /\ m.faults = {} /\ m \in Memory
      /\ \A s \in Sizes : m.mv[s] = StaticMemory
      /\ \A p \in Pointers : m.ptr[p] = Blank
      /\ \A r \in Counters : m.count[r] = 0
      /\ raw = {} /\ Built = {} /\ handle = FALSE /\ built = <<>>
  BY <1>1 DEF Init, TypeOK, Built
<1>3. IsFiniteSet({}) /\ Cardinality({}) = 0
  BY FS_EmptySet
<1>4. InUse(m) = {}
  BY <1>2, InUseOf, SizeOf DEF StaticMemory
<1>5. \A r \in Counters : Sharers(m, r) = {}
  BY <1>2 DEF Sharers
<1>6. Sound(m, raw)
  <2>1. IsFiniteSet(m.live) /\ m.live \cap Blocks = InUse(m)
    BY <1>2, <1>3, <1>4
  <2>2. \A s \in Sizes : m.mv[s].blocks = {}
    BY <1>2 DEF StaticMemory
  <2>3. m.mv["small"].blocks \cap m.mv["large"].blocks = {}
    BY <2>2, SizeOf
  <2>4. \A p \in Pointers : m.ptr[p].t = NULL /\ m.ptr[p].refs = NULL
    BY <1>2 DEF Blank
  <2>5. \A r \in Counters : m.count[r] = Cardinality(Sharers(m, r))
    BY <1>2, <1>3, <1>5
  <2> QED BY <1>2, <1>4, <2>1, <2>2, <2>3, <2>4, <2>5 DEF Sound
<1>7. \A s \in Sizes : Users(s) = {}
  BY <1>2 DEF Users
<1>8. Pools
  <2>1. \A s \in Sizes : m.mv[s].cnt = 0 /\ m.mv[s].pool = "zero"
    BY <1>2 DEF StaticMemory
  <2> QED BY <1>3, <1>7, <2>1 DEF Pools
<1>9. Statically
  BY <1>2 DEF Statically
<1>10. raw \subseteq m.mv["small"].blocks
  BY <1>2
<1> QED BY <1>1, <1>6, <1>8, <1>9, <1>10 DEF Inv, Clean

LEMMA ThrowStep ==
    ASSUME Inv, NEW p \in Roots, ConstructThrows(p)
    PROVE  m'.faults # {}
<1>1. Running /\ Size(p) \in Sizes
  BY SizeOf DEF ConstructThrows, New
<1>2. PICK b \in Blocks \ InUse(m) :
        m' = Fault(Allocated(m, b, Size(p)), "throw", TRUE)
  BY DEF ConstructThrows
<1>3. Allocated(m, b, Size(p)) \in Memory
  BY <1>1, <1>2, CleanFacts, AllocatedType
<1> QED BY <1>2, <1>3 DEF Fault, Memory

LEMMA InvStep == Inv /\ [Next]_vars => Inv'
<1> SUFFICES ASSUME Inv, [Next]_vars, m'.faults = {} PROVE Clean'
  BY TypeStep DEF Inv
<1>1. ASSUME NEW p \in Roots, DefaultConstruct(p) PROVE Clean'
  BY <1>1, DefaultConstructStep
<1>2. ASSUME NEW p \in Roots, ConstructFromValue(p) PROVE Clean'
  BY <1>2, ConstructFromValueStep
<1>3. ASSUME NEW p \in Roots, ConstructThrows(p) PROVE Clean'
  BY <1>3, ThrowStep
<1>4. ASSUME NEW p \in Roots, Adopt(p) PROVE Clean'
  BY <1>4, AdoptStep
<1>5. ASSUME NEW p \in Roots, Destroy(p) PROVE Clean'
  BY <1>5, DestroyStep
<1>6. ASSUME NEW p \in Roots, NEW q \in Pointers, CopyConstruct(p, q) PROVE Clean'
  BY <1>6, CopyConstructStep
<1>7. ASSUME NEW p \in Pointers, NEW q \in Pointers, Assign(p, q) PROVE Clean'
  BY <1>7, AssignStep
<1>8. CASE RegisterHandle
  BY <1>8, RegisterHandleStep
<1>9. CASE UnregisterHandle
  BY <1>9, UnregisterHandleStep
<1>10. CASE RawAllocate
  BY <1>10, RawAllocateStep
<1>11. CASE RawDeallocate
  BY <1>11, RawDeallocateStep
<1>12. ASSUME NEW size \in Sizes, ConstructMV(size) PROVE Clean'
  BY <1>12, ConstructMVStep
<1>13. ASSUME NEW h \in StaticHandles, ConstructHandle(h) PROVE Clean'
  BY <1>13, ConstructHandleStep
<1>14. CASE Exit
  BY <1>14, ExitStep
<1>15. CASE DestroyStatic
  BY <1>15, DestroyStaticStep
<1>16. CASE UNCHANGED vars
  <2>1. Clean
    BY <1>16 DEF vars, Inv
  <2>2. Built' = Built /\ StaticHandles' = StaticHandles
        /\ StaticObjects' = StaticObjects
    BY <1>16 DEF vars, Built, StaticHandles, StaticObjects
  <2> QED BY <1>16, <2>1, <2>2, OtherIsClean DEF vars, Clean, SamePools
<1> QED
  BY <1>1, <1>2, <1>3, <1>4, <1>5, <1>6, <1>7, <1>8, <1>9, <1>10, <1>11, <1>12,
     <1>13, <1>14, <1>15, <1>16 DEF Next

THEOREM Invariance == Spec => []Inv
<1> QED BY InvInit, InvStep, PTL DEF Spec

----------------------------------------------------------------------------
(* The properties *)

\* Until the first fault every counter of the smart pointers says how many
\* pointers share it, they point to one object, and the object is in memory and
\* shared by no one else.
THEOREM CountsAreAlwaysTrue == Spec => []CountsAreTrue
<1>1. Inv => CountsAreTrue
  <2> SUFFICES ASSUME Inv, m.faults = {}, NEW r \in Counters
               PROVE  LET sharers == {p \in m.live : m.ptr[p].refs = r}
                          objects == {m.ptr[p].t : p \in sharers}
                      IN  /\ m.count[r] = Cardinality(sharers)
                          /\ objects \subseteq InUse(m) \cup {NULL}
                          /\ Cardinality(objects) <= 1
                          /\ \A p \in m.live \ sharers :
                                m.ptr[p].t \notin objects \ {NULL}
    BY DEF CountsAreTrue, Inv
  <2> DEFINE sharers == {p \in m.live : m.ptr[p].refs = r}
             objects == {m.ptr[p].t : p \in sharers}
  <2>1. Sound(m, raw) /\ m.live \subseteq Pointers
    BY DEF Inv, Clean, Sound, Memory
  <2>2. m.count[r] = Cardinality(sharers)
    BY <2>1 DEF Sound, Sharers
  <2>3. objects \subseteq InUse(m) \cup {NULL}
    BY <2>1 DEF Sound
  <2>4. Cardinality(objects) <= 1
    <3>1. CASE sharers = {}
      <4>1. objects = {}
        BY <3>1
      <4> QED BY <4>1, FS_EmptySet
    <3>2. CASE sharers # {}
      <4>1. PICK p \in sharers : TRUE
        BY <3>2
      <4>2. objects = {m.ptr[p].t}
        <5>1. \A q \in sharers : m.ptr[q].t = m.ptr[p].t
          BY <2>1, <4>1 DEF Sound
        <5> QED BY <4>1, <5>1
      <4>3. Cardinality({m.ptr[p].t}) = 1
        BY FS_Singleton
      <4> HIDE DEF objects
      <4> QED BY <4>2, <4>3
    <3> QED BY <3>1, <3>2
  <2>5. \A p \in m.live \ sharers : m.ptr[p].t \notin objects \ {NULL}
    BY <2>1 DEF Sound
  <2> QED BY <2>2, <2>3, <2>4, <2>5
<1> QED BY <1>1, Invariance, PTL

\* Until the first fault a singleton counts the GJAlloc objects that share it, it
\* is ready exactly as long as there is one, and no block is in use without one.
THEOREM PoolsAlwaysFollowHandles == Spec => []PoolsFollowHandles
<1>1. Inv => PoolsFollowHandles
  <2> SUFFICES ASSUME Inv, m.faults = {} PROVE PoolsFollowHandles
    BY DEF PoolsFollowHandles
  <2>1. Sound(m, raw) /\ Pools
    BY DEF Inv, Clean
  <2>2. ASSUME NEW s \in Sizes
        PROVE  /\ m.mv[s].cnt = Cardinality(Users(s))
               /\ m.mv[s].pool = "ready" <=> Users(s) # {}
               /\ m.mv[s].blocks # {} => Users(s) # {}
    BY <2>1 DEF Sound, Pools
  <2>3. ~m.failed
    BY <2>1 DEF Sound
  <2> QED BY <2>2, <2>3 DEF PoolsFollowHandles, Users
<1> QED BY <1>1, Invariance, PTL

----------------------------------------------------------------------------
(* The refinement of SharedOwnership *)

Owners == Pointers \cup {CLIENT}

\* What the holders hold when the pointers are P and the client's blocks R, in a
\* state with no fault.
HeldBy(P, R) == [h \in Owners |-> IF h = CLIENT THEN R ELSE {P[h].t} \ {NULL}]

Held == [h \in Pointers \cup {CLIENT} |->
            IF h = CLIENT THEN raw
            ELSE IF h \in m.live THEN {m.ptr[h].t} \ {NULL} ELSE {}]

HeldFacts == /\ Held = HeldBy(m.ptr, raw)
             /\ InUse(m) = UNION {Held[h] : h \in Owners}
             /\ InUse(m) \subseteq Blocks /\ raw \subseteq Blocks
             /\ m \in Memory
             /\ \A p \in Pointers : m.ptr[p].t \in Blocks \cup {NULL}

LEMMA HeldIs == Inv /\ m.faults = {} => HeldFacts
<1> SUFFICES ASSUME Inv, m.faults = {} PROVE HeldFacts
  OBVIOUS
<1>1. Sound(m, raw) /\ NULL \notin Blocks /\ CLIENT \notin Pointers
      /\ Blocks \subseteq Pointers
  BY Places DEF Inv, Clean
<1>2. \A p \in Pointers : p \notin m.live => m.ptr[p].t = NULL
  BY <1>1 DEF Sound, Blank
<1>3. Held = HeldBy(m.ptr, raw)
  BY <1>1, <1>2 DEF Held, HeldBy, Owners
<1>4. InUse(m) \subseteq Blocks /\ raw \subseteq InUse(m)
  BY <1>1 DEF Sound
<1>5. ASSUME NEW b \in InUse(m) PROVE \E h \in Owners : b \in Held[h]
  <2>1. CASE b \in raw
    <3>1. CLIENT \in Owners /\ b \in Held[CLIENT]
      BY <2>1 DEF Owners, Held
    <3> QED BY <3>1
  <2>2. CASE b \notin raw
    <3>1. PICK p \in Pointers : m.ptr[p].t = b
      BY <1>1, <1>5, <2>2 DEF Sound
    <3>2. p \in Owners /\ b \in Held[p]
      BY <1>1, <1>3, <1>4, <1>5, <3>1 DEF HeldBy, Owners
    <3> QED BY <3>2
  <2> QED BY <2>1, <2>2
<1>6. ASSUME NEW h \in Owners PROVE Held[h] \subseteq InUse(m)
  BY <1>1, <1>3, <1>4 DEF HeldBy, Owners, Sound
<1>7. InUse(m) = UNION {Held[h] : h \in Owners}
  BY <1>5, <1>6
<1>8. \A p \in Pointers : m.ptr[p].t \in Blocks \cup {NULL}
  BY <1>1, <1>4 DEF Sound
<1> QED BY <1>1, <1>3, <1>4, <1>7, <1>8 DEF HeldFacts, Sound

LEMMA HeldIsNext == (Inv /\ m.faults = {} => HeldFacts)'
BY HeldIs, PTL

\* How the four ways in which a step changes the pointers and the client's blocks
\* change what is held.
LEMMA HeldAfter ==
    ASSUME NEW P, DOMAIN P = Pointers, NEW R, NEW p \in Pointers, NEW v
    PROVE  HeldBy([P EXCEPT ![p] = v], R)
               = [HeldBy(P, R) EXCEPT ![p] = {v.t} \ {NULL}]
BY Places DEF HeldBy, Owners

LEMMA ClientHolds ==
    ASSUME NEW P, NEW R, NEW S
    PROVE  /\ HeldBy(P, S) = [HeldBy(P, R) EXCEPT ![CLIENT] = S]
           /\ HeldBy(P, R)[CLIENT] = R
           /\ \A p \in Pointers : HeldBy(P, R)[p] = {P[p].t} \ {NULL}
BY Places DEF HeldBy, Owners

LEMMA DropIs ==
    ASSUME Inv, m.faults = {}, Inv', m'.faults = {},
           raw' \subseteq raw,
           \/ m'.ptr = m.ptr
           \/ \E p \in Pointers : m'.ptr = [m.ptr EXCEPT ![p] = Blank]
    PROVE  Ownership!Drop
<1>1. /\ Held = HeldBy(m.ptr, raw) /\ Held' = HeldBy(m'.ptr, raw')
      /\ raw' \subseteq Blocks
      /\ \A p \in Pointers : m'.ptr[p].t \in Blocks \cup {NULL}
  BY HeldIs, HeldIsNext DEF HeldFacts
<1>2. DOMAIN m.ptr = Pointers
  BY DEF Inv, TypeOK, Memory
<1>3. \A p \in Pointers : m'.ptr[p].t \in {m.ptr[p].t, NULL}
  <2>1. CASE m'.ptr = m.ptr
    BY <2>1
  <2>2. ASSUME NEW p \in Pointers, m'.ptr = [m.ptr EXCEPT ![p] = Blank]
        PROVE  \A q \in Pointers : m'.ptr[q].t \in {m.ptr[q].t, NULL}
    BY <1>2, <2>2 DEF Blank
  <2> QED BY <2>1, <2>2
<1>4. Held' \in [Owners -> SUBSET Blocks]
  BY <1>1 DEF HeldBy, Owners
<1>5. \A h \in Owners : Held'[h] \subseteq Held[h]
  BY <1>1, <1>3 DEF HeldBy, Owners
<1> QED BY <1>4, <1>5 DEF Ownership!Drop, Held, Owners

LEMMA OwnershipStep ==
    ASSUME Inv, Inv', [Next]_vars, m'.faults = {}
    PROVE  [Ownership!Next]_(Ownership!vars)
<1> DEFINE Sum == UNION {Held'[h] : h \in Owners}
<1> USE DEF Owners
<1>1. CASE UNCHANGED vars
  <2>1. m' = m /\ raw' = raw
    BY <1>1 DEF vars
  <2>2. Held' = Held /\ InUse(m)' = InUse(m)
    BY <2>1 DEF Held, InUse
  <2> QED BY <2>2 DEF Ownership!vars, Held
<1>2. CASE Next
  <2>1. Running
    BY <1>2 DEF Next, DefaultConstruct, ConstructFromValue, ConstructThrows, Adopt,
       Destroy, CopyConstruct, Assign, RegisterHandle, UnregisterHandle,
       RawAllocate, RawDeallocate, ConstructMV, ConstructHandle, Exit,
       DestroyStatic, New
  <2>2. /\ m.faults = {} /\ HeldFacts /\ HeldFacts'
    BY <2>1, HeldIs, HeldIsNext DEF Running
  <2>3. /\ Held = HeldBy(m.ptr, raw) /\ Held' = HeldBy(m'.ptr, raw')
        /\ InUse(m) = UNION {Held[h] : h \in Owners} /\ InUse(m)' = Sum
        /\ DOMAIN m.ptr = Pointers
    BY <2>2 DEF HeldFacts, Memory
  <2>4. CLIENT \notin Pointers /\ Roots \subseteq Pointers /\ NULL \notin Blocks
        /\ Blocks \subseteq Pointers
    BY Places
  <2>5. ASSUME m'.ptr = m.ptr, raw' = raw
        PROVE  [Ownership!Next]_(Ownership!vars)
    <3>1. Held' = Held
      BY <2>3, <2>5
    <3>2. InUse(m)' = InUse(m)
      BY <2>3, <3>1
    <3> QED BY <3>1, <3>2 DEF Ownership!vars, Held
  <2>6. ASSUME raw' \subseteq raw,
               \/ m'.ptr = m.ptr
               \/ \E p \in Pointers : m'.ptr = [m.ptr EXCEPT ![p] = Blank]
        PROVE  Ownership!Next
    <3>1. Ownership!Drop
      BY <2>2, <2>6, DropIs
    <3> QED BY <2>3, <3>1 DEF Ownership!Next, Held
  <2>7. ASSUME NEW p \in Pointers, NEW b \in Blocks \ InUse(m), NEW r,
               m'.ptr = [m.ptr EXCEPT ![p] = [t |-> b, refs |-> r]], raw' = raw
        PROVE  Ownership!Next
    <3>1. Held' = [Held EXCEPT ![p] = {} \cup {b}]
      <4>1. HeldBy(m'.ptr, raw)
                = [HeldBy(m.ptr, raw) EXCEPT ![p] = {[t |-> b, refs |-> r].t} \ {NULL}]
        BY <2>3, <2>7, HeldAfter
      <4>2. {[t |-> b, refs |-> r].t} \ {NULL} = {} \cup {b}
        BY <2>4, <2>7
      <4> QED BY <2>3, <2>7, <4>1, <4>2
    <3>2. Ownership!Create(p)
      BY <2>7, <3>1 DEF Ownership!Create, Held
    <3> QED BY <2>3, <3>2 DEF Ownership!Next, Held
  <2>8. ASSUME NEW p \in Pointers, NEW q \in Pointers,
               m'.ptr = [m.ptr EXCEPT ![p] = m.ptr[q]], raw' = raw
        PROVE  Ownership!Next
    <3>1. Held' = [Held EXCEPT ![p] = Held[q]]
      <4>1. HeldBy(m'.ptr, raw) = [HeldBy(m.ptr, raw) EXCEPT ![p] = {m.ptr[q].t} \ {NULL}]
        BY <2>3, <2>8, HeldAfter
      <4>2. HeldBy(m.ptr, raw)[q] = {m.ptr[q].t} \ {NULL}
        BY ClientHolds
      <4> QED BY <2>3, <2>8, <4>1, <4>2
    <3>2. Ownership!Share(p, q)
      BY <3>1 DEF Ownership!Share, Held
    <3> QED BY <2>3, <3>2 DEF Ownership!Next, Held
  <2>9. ASSUME NEW p \in Roots, Adopt(p)
        PROVE  [Ownership!Next]_(Ownership!vars)
    <3>1. PICK b \in raw \cup {NULL}, r \in Counters :
            /\ m'.ptr = [m.ptr EXCEPT ![p] = [t |-> b, refs |-> r]]
            /\ raw' = raw \ {b}
      BY <2>9, AdoptStep
    <3>2. p \in Pointers /\ m.ptr[p] = Blank
      BY <2>1, <2>4, <2>9, AdoptStep, CleanFacts
    <3>3. Held' = [[Held EXCEPT ![CLIENT] = raw \ {b}] EXCEPT ![p] = {b} \ {NULL}]
      <4>1. HeldBy(m'.ptr, raw')
              = [HeldBy(m.ptr, raw') EXCEPT ![p] = {[t |-> b, refs |-> r].t} \ {NULL}]
        <5> DEFINE R == raw'
        <5>1. m'.ptr = [m.ptr EXCEPT ![p] = [t |-> b, refs |-> r]]
          BY <3>1
        <5> HIDE DEF R
        <5>2. HeldBy(m'.ptr, R)
                = [HeldBy(m.ptr, R) EXCEPT ![p] = {[t |-> b, refs |-> r].t} \ {NULL}]
          BY <2>3, <3>2, <5>1, HeldAfter
        <5> QED BY <5>2 DEF R
      <4>2. HeldBy(m.ptr, raw') = [HeldBy(m.ptr, raw) EXCEPT ![CLIENT] = raw']
        BY ClientHolds
      <4> QED BY <2>3, <3>1, <4>1, <4>2
    <3>4. CASE b = NULL
      <4>1. b \notin raw
        BY <2>2, <2>4, <3>4 DEF HeldFacts
      <4>2. Held[p] = {} /\ Held[CLIENT] = raw /\ DOMAIN Held = Owners
        BY <2>3, <2>4, <3>2 DEF HeldBy, Blank
      <4>3. Held' = Held
        <5>1. raw \ {b} = raw /\ {b} \ {NULL} = {}
          BY <3>4, <4>1
        <5>2. [Held EXCEPT ![CLIENT] = Held[CLIENT]] = Held
          BY DEF Held
        <5>3. [Held EXCEPT ![p] = Held[p]] = Held
          BY DEF Held
        <5> QED BY <3>3, <4>2, <5>1, <5>2, <5>3
      <4>4. InUse(m)' = InUse(m)
        BY <2>3, <4>3
      <4> QED BY <4>3, <4>4 DEF Ownership!vars, Held
    <3>5. CASE b # NULL
      <4>1. b \in raw
        BY <3>1, <3>5
      <4>2. Held[CLIENT] = raw
        BY DEF Held
      <4>3. /\ b \in Held[CLIENT] /\ CLIENT \in Owners /\ p \in Owners
            /\ Held' = [Held EXCEPT ![CLIENT] = @ \ {b}, ![p] = {b}]
        BY <2>4, <3>2, <3>3, <3>5, <4>1, <4>2
      <4>4. Ownership!HandOver(CLIENT, p)
        BY <4>3 DEF Ownership!HandOver, Held
      <4> QED BY <2>3, <3>2, <4>4 DEF Ownership!Next, Held
    <3> QED BY <3>4, <3>5
  <2>10. ASSUME RawAllocate
         PROVE  Ownership!Next
    <3>1. m'.ptr = m.ptr
      BY <2>2, <2>10, RawAllocateStep
    <3>2. PICK b \in Blocks \ InUse(m) : raw' = raw \cup {b}
      BY <2>2, <2>10, RawAllocateStep
    <3>3. Held' = [Held EXCEPT ![CLIENT] = Held[CLIENT] \cup {b}]
      <4>1. HeldBy(m.ptr, raw') = [HeldBy(m.ptr, raw) EXCEPT ![CLIENT] = raw']
        BY ClientHolds
      <4>2. Held[CLIENT] = raw
        BY DEF Held
      <4> QED BY <2>3, <3>1, <3>2, <4>1, <4>2
    <3>4. Ownership!Create(CLIENT)
      BY <3>2, <3>3 DEF Ownership!Create, Held
    <3> QED BY <2>3, <3>4 DEF Ownership!Next, Held
  <2>11. ASSUME RawDeallocate
         PROVE  Ownership!Next
    <3>1. PICK b \in raw : /\ m'.ptr = [m.ptr EXCEPT ![b] = Blank]
                           /\ raw' = raw \ {b}
      BY <2>2, <2>11, RawDeallocateStep
    <3>2. b \in Pointers
      BY <2>2, <2>4, <3>1 DEF HeldFacts
    <3> QED BY <2>6, <3>1, <3>2
  <2>12. ASSUME NEW p \in Roots, DefaultConstruct(p)
         PROVE  [Ownership!Next]_(Ownership!vars)
    BY <2>5, <2>12, DefaultConstructStep
  <2>13. ASSUME NEW p \in Roots, ConstructFromValue(p)
         PROVE  Ownership!Next
    <3>1. raw' = raw
      BY <2>13, ConstructFromValueStep
    <3>2. PICK b \in Blocks \ InUse(m), r \in Counters :
            m'.ptr = [m.ptr EXCEPT ![p] = [t |-> b, refs |-> r]]
      BY <2>13, ConstructFromValueStep
    <3> QED BY <2>4, <2>7, <3>1, <3>2
  <2>14. ASSUME NEW p \in Roots, Destroy(p)
         PROVE  Ownership!Next
    <3>1. m'.ptr = [m.ptr EXCEPT ![p] = Blank] /\ raw' = raw
      BY <2>14, DestroyStep
    <3> QED BY <2>4, <2>6, <3>1
  <2>15. ASSUME NEW p \in Roots, NEW q \in Pointers, CopyConstruct(p, q)
         PROVE  Ownership!Next
    BY <2>4, <2>8, <2>15, CopyConstructStep
  <2>16. ASSUME NEW p \in Pointers, NEW q \in Pointers, Assign(p, q)
         PROVE  Ownership!Next
    BY <2>8, <2>16, AssignStep
  <2>17. CASE UnregisterHandle
    BY <2>6, <2>17, UnregisterHandleStep
  <2>18. CASE DestroyStatic
    BY <2>6, <2>18, DestroyStaticStep
  <2>19. ASSUME NEW p \in Roots, ConstructThrows(p) PROVE FALSE
    BY <2>19, ThrowStep
  <2>20. CASE RegisterHandle
    BY <2>5, <2>20, RegisterHandleStep
  <2>21. ASSUME NEW size \in Sizes, ConstructMV(size)
         PROVE  [Ownership!Next]_(Ownership!vars)
    BY <2>5, <2>21, ConstructMVStep
  <2>22. ASSUME NEW h \in StaticHandles, ConstructHandle(h)
         PROVE  [Ownership!Next]_(Ownership!vars)
    BY <2>5, <2>22, ConstructHandleStep
  <2>23. CASE Exit
    BY <2>5, <2>23, ExitStep
  <2> QED
    BY <1>2, <2>9, <2>10, <2>11, <2>12, <2>13, <2>14, <2>15, <2>16, <2>17, <2>18,
       <2>19, <2>20, <2>21, <2>22, <2>23 DEF Next
<1> QED BY <1>1, <1>2

\* Up to the first fault the smart pointers and the client own the objects
\* together, as SharedOwnership describes it: an object leaves memory in the step
\* in which its last owner lets go, and not before.
THEOREM SharesOwnership == Spec => ImplementsOwnership
<1>1. Init => Ownership!Init
  <2> SUFFICES ASSUME Init PROVE Ownership!Init
    OBVIOUS
  <2>1. m.faults = {} /\ m.live = {} /\ raw = {}
    BY DEF Init
  <2>2. Held = [h \in Pointers \cup {CLIENT} |-> {}]
    BY <2>1 DEF Held
  <2>3. InUse(m) = {}
    BY SizeOf, InUseOf DEF Init, StaticMemory
  <2> QED BY <2>2, <2>3 DEF Ownership!Init, Held
<1>2. Inv /\ Inv' /\ [Next]_vars
        => [m'.faults = {} => [Ownership!Next]_(Ownership!vars)]_vars
  BY OwnershipStep
<1> QED BY <1>1, <1>2, Invariance, PTL DEF Spec, ImplementsOwnership
=============================================================================
