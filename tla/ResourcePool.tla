---------------------------- MODULE ResourcePool ----------------------------
(***************************************************************************)
(* What a pool promises: each resource is either free or with one holder,  *)
(* and a holder gets one that was free.                                    *)
(***************************************************************************)
CONSTANTS
    Resource,
    Holder

VARIABLES
    free,      \* resources with nobody
    lent       \* holder -> the resources it has: one, or none

pool_state == <<free, lent>>

Init ==
    /\ free = Resource
    /\ lent = [h \in Holder |-> {}]

Lend(h, r) ==
    /\ lent[h] = {} /\ r \in free
    /\ lent' = [lent EXCEPT ![h] = {r}]
    /\ free' = free \ {r}

GiveBack(h, r) ==
    /\ r \in lent[h]
    /\ lent' = [lent EXCEPT ![h] = {}]
    /\ free' = free \cup {r}

Next == \E h \in Holder, r \in Resource : Lend(h, r) \/ GiveBack(h, r)

Spec == Init /\ [][Next]_pool_state
=============================================================================
