-------------------------- MODULE SharedOwnership --------------------------
(***************************************************************************)
(* What reference counting promises: an object is alive as long as one of  *)
(* its holders is left, and no longer.  A holder takes a new object, joins *)
(* another holder, takes an object over from another holder, or lets go.   *)
(***************************************************************************)
CONSTANTS Holders, Objects

VARIABLES held,  \* the objects of each holder
          alive  \* the objects in memory

vars == <<held, alive>>

Init == held = [h \in Holders |-> {}] /\ alive = {}

\* A smart pointer gives up what it had, the client keeps it.
Create(h) == \E o \in Objects \ alive, kept \in {{}, held[h]} :
                held' = [held EXCEPT ![h] = kept \cup {o}]

Share(h, g) == held' = [held EXCEPT ![h] = held[g]]

HandOver(g, h) == \E o \in held[g] :
                     held' = [held EXCEPT ![g] = @ \ {o}, ![h] = {o}]

\* One holder lets go, or several, when an object goes with holders in it.
Drop == /\ held' \in [Holders -> SUBSET Objects]
        /\ \A h \in Holders : held'[h] \subseteq held[h]

Next == /\ \/ Drop
           \/ \E h \in Holders : \/ Create(h)
                                 \/ \E g \in Holders : Share(h, g) \/ HandOver(g, h)
        /\ alive' = UNION {held'[h] : h \in Holders}

Spec == Init /\ [][Next]_vars
=============================================================================
