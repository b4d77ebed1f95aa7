---------------------------- MODULE SmartPointer ----------------------------
(***************************************************************************)
(* SmartPointer<T, BLOCKS>: reference-counted objects in the blocks of a   *)
(* GJAlloc.  The copies of a pointer share one int, `refs'; the last one   *)
(* gives the object's block back.                                          *)
(*                                                                         *)
(* A pointer is named by the place it is at: a variable of static or       *)
(* automatic storage duration (Roots), or the block of the object it is a  *)
(* member of.  Every object has one such member, like the nodes of a list. *)
(* Class X derives from T and may be larger; its objects then come from    *)
(* another singleton.                                                      *)
(*                                                                         *)
(* The program runs from static initialization to the end of exit.  The    *)
(* constructors of the template's static members (`mv' and `allocator')    *)
(* run in no particular order with those of the client's objects; exit     *)
(* destroys what was constructed in the opposite order.                    *)
(***************************************************************************)
EXTENDS Integers, Sequences, FiniteSets, GJAlloc

CONSTANTS Statics,   \* SmartPointers of static storage duration, of class T
          Autos,     \* automatic SmartPointers
          Derived,   \* those of the Autos that point to class X
          Counters,  \* addresses `new int' returns
          AllocT, AllocX, \* SmartPointer<T>::allocator, SmartPointer<X>::allocator
          StaticHandle, AutoHandle, \* GJAlloc<T> objects of the client
          CLIENT, NULL

ASSUME PlaceAssumption ==
    /\ Derived \subseteq Autos
    /\ Statics \cap Autos = {} /\ (Statics \cup Autos) \cap Blocks = {}
    /\ CLIENT \notin Statics \cup Autos \cup Blocks
    /\ NULL \notin Blocks \cup Counters
    /\ Cardinality({AllocT, AllocX, StaticHandle, AutoHandle}) = 4
    /\ {AllocT, AllocX, StaticHandle, AutoHandle}
           \cap (Statics \cup Autos \cup Blocks) = {}

\* mv.cnt, a long unsigned int, has room for the four GJAlloc objects.
ASSUME HandleAssumption == CntMod > 4

VARIABLES program,  \* which program it is: is BLOCKS zero, are T and X of a size
          begun,    \* the singletons whose `mv' is constructed
          built,    \* the static objects constructed and not yet destroyed, in
                    \* this order
          exiting,  \* main has returned
          handle,   \* AutoHandle is constructed
          raw,      \* blocks the client has from a GJAlloc and no SmartPointer
          m         \* memory: see Memory

vars == <<program, begun, built, exiting, handle, raw, m>>

Sizes == {"small", "large"}

Size(o) == IF o \in Derived \cup {AllocX} /\ ~program.alike THEN "large"
           ELSE "small"

UsedSizes == {Size(AllocT), Size(AllocX)}

Roots == Statics \cup Autos

Pointers == Roots \cup Blocks

StaticHandles == {AllocT, AllocX, StaticHandle}

StaticObjects == Statics \cup StaticHandles

Built == {built[i] : i \in DOMAIN built}

Faults == {"order", "early", "late", "null", "self", "bitwise", "size",
           "member", "throw"}

Memory == [mv     : [Sizes -> Singleton],
           live   : SUBSET Pointers,  \* the pointers that exist
           ptr    : [Pointers -> [t : Blocks \cup {NULL},
                                  refs : Counters \cup {NULL}]],
           count  : [Counters -> Nat],  \* *refs, 0 when it is freed
           failed : BOOLEAN,          \* undefined behaviour, or BA_ERROR
           faults : SUBSET Faults]    \* history: what has gone wrong so far

TypeOK ==
    /\ program \in [plain : BOOLEAN, alike : BOOLEAN]
    /\ begun \subseteq UsedSizes
    /\ built \in Seq(StaticObjects)
    /\ exiting \in BOOLEAN /\ handle \in BOOLEAN
    /\ raw \subseteq Blocks
    /\ m \in Memory

InUse(mm) == UNION {mm.mv[s].blocks : s \in Sizes}

Blank == [t |-> NULL, refs |-> NULL]

Removed(mm, P) == [mm EXCEPT !.live = @ \ P,
                             !.ptr = [p \in Pointers |-> IF p \in P THEN Blank
                                                         ELSE @[p]]]

Fault(mm, f, happens) == IF happens THEN [mm EXCEPT !.faults = @ \cup {f}] ELSE mm

Failure(mm) == [mm EXCEPT !.failed = TRUE]

----------------------------------------------------------------------------
(* Release and assignment *)

\* allocator.deallocate: the block goes back with the member in it, which is not
\* destroyed.
Deallocated(mm, b, size) ==
    IF CanDeallocate(mm.mv[size], b)
    THEN Removed([mm EXCEPT !.mv[size] = deallocate(@, b)], {b})
    ELSE Failure(mm)

\* Mutant of Released: the object goes with the last copy but one.
ReleasedTooEarly(mm, p) ==
    LET b == mm.ptr[p].t
        r == mm.ptr[p].refs
    IN  IF r = NULL THEN mm
        ELSE IF mm.count[r] > 2 THEN [mm EXCEPT !.count[r] = @ - 1]
        ELSE Deallocated([mm EXCEPT !.count[r] = 0], b, Size(p))

\* release() on behalf of p.  Afterwards p has its old value still.
Released(mm, p) ==
    LET b == mm.ptr[p].t
        r == mm.ptr[p].refs
    IN  IF r = NULL THEN mm
        ELSE IF mm.count[r] = 0 THEN Failure(mm)
        ELSE IF mm.count[r] > 1 THEN [mm EXCEPT !.count[r] = @ - 1]
        ELSE Deallocated(
                Fault(Fault(Fault([mm EXCEPT !.count[r] = 0],
                    "null", b = NULL),
                    "member", b # NULL /\ mm.ptr[b].refs # NULL),
                    "size", \E s \in Sizes \ {Size(p)} : b \in mm.mv[s].blocks),
                b, Size(p))

\* `refs = other.refs; if (refs != NULL) (*refs)++; t = other.t;' for p, with q
\* for other.
Joined(mm, p, q) ==
    LET v == mm.ptr[q]
    IN  IF q \notin mm.live \/ (v.refs # NULL /\ mm.count[v.refs] = 0)
        THEN Failure(mm)
        ELSE [mm EXCEPT !.ptr[p] = v,
                        !.count = [r \in Counters |-> IF r = v.refs THEN @[r] + 1
                                                      ELSE @[r]]]

\* The release that precedes an assignment destroys what is to be assigned: the
\* counter, or the object that q is a member of.
Undercuts(mm, q) ==
    \/ q \notin mm.live
    \/ mm.ptr[q].refs # NULL /\ mm.count[mm.ptr[q].refs] = 0

\* Mutant of Assigned: the count of the new object is not raised.
AssignedUncounted(mm, p, q) == [Released(mm, p) EXCEPT !.ptr[p] = mm.ptr[q]]

\* Both operator=.
Assigned(mm, p, q) ==
    LET released == Released(mm, p)
    IN  Joined(Fault(released, "self", Undercuts(released, q)), p, q)

----------------------------------------------------------------------------
(* Construction and destruction *)

InMain == /\ begun = UsedSizes /\ Built = StaticObjects /\ ~exiting

\* The model stops at the first fault.
Running == ~m.failed /\ m.faults = {}

\* p is a variable that is due to be constructed.
New(p) == /\ Running
          /\ p \notin m.live
          /\ \/ p \in Autos /\ InMain
             \/ p \in Statics /\ p \notin Built /\ ~exiting

\* m' is what the constructor of p makes of the memory.
Constructed(p, mm) ==
    /\ m' = [mm EXCEPT !.live = @ \cup {p}]
    /\ built' = IF p \in Statics THEN Append(built, p) ELSE built
    /\ UNCHANGED <<program, begun, exiting, handle>>

\* A block for an object of the given size, whose member points to nothing.
Allocated(mm, b, size) ==
    IF CanAllocate(mm.mv[size])
    THEN [mm EXCEPT !.mv[size] = allocate(@, b), !.live = @ \cup {b}]
    ELSE Failure(Fault(mm, "early", TRUE))

DefaultConstruct(p) ==
    /\ New(p)
    /\ Constructed(p, m)
    /\ UNCHANGED raw

\* init: the object is a copy of the client's.
ConstructFromValue(p) ==
    /\ New(p)
    /\ \E b \in Blocks \ InUse(m), r \in Counters :
        /\ m.count[r] = 0
        /\ Constructed(p, [Allocated(m, b, Size(p)) EXCEPT
                               !.ptr[p] = [t |-> b, refs |-> r],
                               !.count[r] = 1])
    /\ UNCHANGED raw

\* The copy constructor of T, or `new int', throws: the block is not given back,
\* and there is no pointer.
ConstructThrows(p) ==
    /\ New(p)
    /\ \E b \in Blocks \ InUse(m) :
        m' = Fault(Allocated(m, b, Size(p)), "throw", TRUE)
    /\ UNCHANGED <<program, begun, built, exiting, handle, raw>>

\* SmartPointer(T *tt): an object the client built in a block of its own, or NULL.
Adopt(p) ==
    /\ New(p)
    /\ p \notin Derived
    /\ \E b \in raw \cup {NULL}, r \in Counters :
        /\ m.count[r] = 0
        /\ Constructed(p, [m EXCEPT !.ptr[p] = [t |-> b, refs |-> r],
                                    !.count[r] = 1])
        /\ raw' = raw \ {b}

\* The pointers the client can name: its variables, and the members of objects
\* it reaches through them.
Accessible == {p \in m.live : \/ p \in Roots
                              \/ p \in raw
                              \/ \E o \in m.live \cap Roots : m.ptr[o].t = p}

\* A pointer to X converts to one to T, a pointer to T never to X.
Converts(q, p) == p \in Derived => q \in Derived

\* The copy constructor, and from another class the converting one, which wants
\* classes of one size.  With BLOCKS # 0 the constructor that is declared is no
\* copy constructor, and the compiler's copies bit by bit.
CopyConstruct(p, q) ==
    /\ New(p)
    /\ q \in Accessible
    /\ Converts(q, p) /\ Size(q) = Size(p)
    /\ IF program.plain \/ (p \in Derived) # (q \in Derived)
       THEN Constructed(p, Joined(m, p, q))
       ELSE Constructed(p, Fault([m EXCEPT !.ptr[p] = m.ptr[q]], "bitwise",
                                 m.ptr[q].refs # NULL))
    /\ UNCHANGED raw

Assign(p, q) ==
    /\ Running /\ InMain
    /\ p \in Accessible /\ q \in Accessible
    /\ Converts(q, p)
    /\ m' = Assigned(m, p, q)
    /\ UNCHANGED <<program, begun, built, exiting, handle, raw>>

\* ~SmartPointer of an automatic variable
Destroy(p) ==
    /\ Running
    /\ p \in m.live \cap Autos
    /\ m' = Removed(Released(m, p), {p})
    /\ UNCHANGED <<program, begun, built, exiting, handle, raw>>

----------------------------------------------------------------------------
(* The client's GJAlloc objects, static initialization and exit *)

Registered(mm, size) == [mm EXCEPT !.mv[size] = register_alloc(@)]

\* Destroying the allocator frees the blocks in use with it.
Unregistered(mm, size) ==
    LET s    == unregister_alloc(mm.mv[size])
        gone == mm.mv[size].blocks \ s.blocks
    IN  Removed(Fault([mm EXCEPT !.mv[size] = s], "late",
                      \E p \in mm.live : \/ mm.ptr[p].t \in gone
                                         \/ p \in gone /\ mm.ptr[p] # Blank),
                gone)

\* GJAlloc(), GJAlloc(const GJAlloc &)
RegisterHandle ==
    /\ Running /\ InMain /\ ~handle
    /\ handle' = TRUE
    /\ m' = Registered(m, Size(AutoHandle))
    /\ UNCHANGED <<program, begun, built, exiting, raw>>

\* ~GJAlloc
UnregisterHandle ==
    /\ Running /\ handle
    /\ handle' = FALSE
    /\ m' = Unregistered(m, Size(AutoHandle))
    /\ raw' = raw \cap InUse(m')
    /\ UNCHANGED <<program, begun, built, exiting>>

HasHandle == handle \/ StaticHandle \in Built

RawAllocate ==
    /\ Running /\ HasHandle
    /\ \E b \in Blocks \ InUse(m) :
        /\ m' = Allocated(m, b, "small")
        /\ raw' = raw \cup {b}
    /\ UNCHANGED <<program, begun, built, exiting, handle>>

\* destroy and deallocate; the destructor of the object destroys its member.
RawDeallocate ==
    /\ Running /\ HasHandle
    /\ \E b \in raw :
        /\ m' = Deallocated(Released(m, b), b, "small")
        /\ raw' = raw \ {b}
    /\ UNCHANGED <<program, begun, built, exiting, handle>>

\* The constructor of a singleton's `mv'
ConstructMV(size) ==
    /\ Running /\ size \in UsedSizes \ begun
    /\ begun' = begun \cup {size}
    /\ m' = Fault([m EXCEPT !.mv[size] = MV(@)], "order", m.mv[size].cnt # 0)
    /\ UNCHANGED <<program, built, exiting, handle, raw>>

\* The constructor of a static GJAlloc
ConstructHandle(h) ==
    /\ Running /\ h \in StaticHandles \ Built /\ ~exiting
    /\ built' = Append(built, h)
    /\ m' = Registered(m, Size(h))
    /\ UNCHANGED <<program, begun, exiting, handle, raw>>

Exit ==
    /\ Running /\ InMain /\ ~handle /\ m.live \cap Autos = {}
    /\ exiting' = TRUE
    /\ UNCHANGED <<program, begun, built, handle, raw, m>>

DestroyStatic ==
    /\ Running /\ exiting /\ built # <<>>
    /\ \E o \in {built[Len(built)]} :
        m' = IF o \in Statics THEN Removed(Released(m, o), {o})
             ELSE Unregistered(m, Size(o))
    /\ built' = SubSeq(built, 1, Len(built) - 1)
    /\ raw' = raw \cap InUse(m')
    /\ UNCHANGED <<program, begun, exiting, handle>>

Init == /\ program \in [plain : BOOLEAN, alike : BOOLEAN]
        /\ begun = {} /\ built = <<>> /\ exiting = FALSE
        /\ handle = FALSE /\ raw = {}
        /\ m = [mv |-> [s \in Sizes |-> StaticMemory], live |-> {},
                ptr |-> [p \in Pointers |-> Blank],
                count |-> [r \in Counters |-> 0],
                failed |-> FALSE, faults |-> {}]

Next == \/ \E p \in Roots :
            \/ DefaultConstruct(p) \/ ConstructFromValue(p)
            \/ ConstructThrows(p) \/ Adopt(p) \/ Destroy(p)
            \/ \E q \in Pointers : CopyConstruct(p, q)
        \/ \E p, q \in Pointers : Assign(p, q)
        \/ RegisterHandle \/ UnregisterHandle \/ RawAllocate \/ RawDeallocate
        \/ \E size \in Sizes : ConstructMV(size)
        \/ \E h \in StaticHandles : ConstructHandle(h)
        \/ Exit \/ DestroyStatic

Spec == Init /\ [][Next]_vars

----------------------------------------------------------------------------
(* Properties.  They hold until one of the Faults; the README tells what     *)
(* each of them leads to.                                                    *)

\* In a well-typed state every counter says how many pointers share it, they all
\* point to the same object, which is in memory, and no other counter counts for
\* that object.
CountsAreTrue ==
    /\ TypeOK
    /\ m.faults = {} =>
        \A r \in Counters :
            LET sharers == {p \in m.live : m.ptr[p].refs = r}
                objects == {m.ptr[p].t : p \in sharers}
            IN  /\ m.count[r] = Cardinality(sharers)
                /\ objects \subseteq InUse(m) \cup {NULL}
                /\ Cardinality(objects) <= 1
                /\ \A p \in m.live \ sharers : m.ptr[p].t \notin objects \ {NULL}

\* The count of a singleton is the number of GJAlloc objects that share it, so
\* the allocator is ready exactly as long as there is one, every block in use is
\* in an allocator that is ready, and the program goes wrong in no other way than
\* by a fault.
PoolsFollowHandles ==
    m.faults = {} =>
        /\ ~m.failed
        /\ \A s \in Sizes :
            LET users == {h \in Built \cap StaticHandles : Size(h) = s}
                         \cup {h \in {AutoHandle} : handle /\ Size(h) = s}
            IN  /\ m.mv[s].cnt = Cardinality(users)
                /\ m.mv[s].pool = "ready" <=> users # {}
                /\ m.mv[s].blocks # {} => users # {}

\* The pointers, and the client with its own blocks, own the objects together:
\* an object leaves memory in the step in which its last owner lets go.
Ownership == INSTANCE SharedOwnership
    WITH Holders <- Pointers \cup {CLIENT},
         Objects <- Blocks,
         held    <- [h \in Pointers \cup {CLIENT} |->
                        IF h = CLIENT THEN raw
                        ELSE IF h \in m.live THEN {m.ptr[h].t} \ {NULL} ELSE {}],
         alive   <- InUse(m)

ImplementsOwnership ==
    /\ Ownership!Init
    /\ [][m'.faults = {} => [Ownership!Next]_(Ownership!vars)]_vars
=============================================================================
