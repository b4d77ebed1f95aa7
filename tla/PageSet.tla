------------------------------ MODULE PageSet ------------------------------
(***************************************************************************)
(* What the hash table promises to the rest of an allocator: it is a set   *)
(* of pages, and every pointer into a page of the set leads to that page.  *)
(* This is the view module PageSlots takes of it (the field table).        *)
(***************************************************************************)
EXTENDS FiniteSets

CONSTANT Pages

VARIABLES pages,    \* the set
          owner     \* what is found for each pointer, given by its page

Init == /\ pages = {}
        /\ owner = [p \in {} |-> p]

Become(S) == /\ pages' = S
             /\ owner' = [p \in S |-> p]

Insert == \E p \in Pages \ pages : Become(pages \cup {p})

Delete == \E P \in SUBSET pages : Become(pages \ P)

Next == Insert \/ Delete
=============================================================================
