------------------------------ MODULE PagePool ------------------------------
(***************************************************************************)
(* What the free list of one page promises to the code that manages pages: *)
(* a header stands for a set of free blocks.  Allocation takes any block   *)
(* of the working header's set, a free adds the block, and moving the page *)
(* between the roles below copies a set from one header to the other.      *)
(* This is the view of a page that module PageSlots takes.                 *)
(***************************************************************************)
EXTENDS Integers, FiniteSets

CONSTANT Positions  \* the block positions of the page

VARIABLES role,     \* "alloc", "last_free" or "filed": see FreeList
          work,     \* blocks free according to the working header
          filed,    \* blocks free according to the page's own header
          live      \* blocks the client owns

vars == <<role, work, filed, live>>

Init == /\ role = "alloc"
        /\ work = Positions
        /\ filed = {}
        /\ live = {}

Alloc == /\ role = "alloc"
         /\ \E b \in work : /\ work' = work \ {b}
                            /\ live' = live \cup {b}
         /\ UNCHANGED <<role, filed>>

Free == \E b \in live :
            /\ live' = live \ {b}
            /\ \/ /\ role # "filed"
                  /\ work' = work \cup {b}
                  /\ UNCHANGED <<role, filed>>
               \/ /\ role = "filed"
                  /\ role' = "last_free"
                  /\ work' = filed \cup {b}
                  /\ UNCHANGED filed

\* The page is full and loses its role.
Exhaust == /\ role = "alloc"
           /\ work = {}
           /\ role' = "filed"
           /\ UNCHANGED <<work, filed, live>>

\* Frees collected in the working header reach the page's own header, or are
\* lost with the working header: the page's header is never left with a block
\* that neither of the two had.
Flushed(kept) == role = "last_free" /\ kept \in {work, filed}

FileAway == \E kept \in {work, filed} :
                /\ Flushed(kept)
                /\ role' = "filed"
                /\ work' = {}
                /\ filed' = kept
                /\ UNCHANGED live

Take == \E kept \in {work, filed} :
            /\ (role = "filed" /\ kept = filed) \/ Flushed(kept)
            /\ kept # {}
            /\ role' = "alloc"
            /\ work' = kept
            /\ filed' = {}
            /\ UNCHANGED live

\* The empty page goes back to malloc and comes back.
Renew == /\ role = "filed"
         /\ filed = Positions
         /\ role' = "alloc"
         /\ work' = Positions
         /\ filed' = {}
         /\ UNCHANGED live

Next == Alloc \/ Free \/ Exhaust \/ FileAway \/ Take \/ Renew

Spec == Init /\ [][Next]_vars
=============================================================================
