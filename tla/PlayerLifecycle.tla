-------------------------- MODULE PlayerLifecycle --------------------------
(***************************************************************************)
(* What a game session promises each player, with nothing of how: you      *)
(* enter once, you leave once, and leaving gives you one record, which     *)
(* says the score you had when you left and never changes.  The players    *)
(* who leave together are recorded together, before the next group leaves. *)
(***************************************************************************)
CONSTANTS
    Player,       \* everybody who may ever enter
    Score,        \* what a score may be
    RecordsMayBeLost

VARIABLES
    playing,      \* who is in the game
    leaving,      \* player -> final score, of those not yet recorded
    recorded      \* player -> score in the hall of fame

lifecycle == <<playing, leaving, recorded>>

Extend(f, g) == [p \in DOMAIN f \cup DOMAIN g |->
                    IF p \in DOMAIN g THEN g[p] ELSE f[p]]

Nobody == [p \in {} |-> {}]

Init ==
    /\ playing = {}
    /\ leaving = Nobody
    /\ recorded = Nobody

Enter(p) ==
    /\ p \notin playing \cup DOMAIN leaving \cup DOMAIN recorded
    /\ playing' = playing \cup {p}
    /\ UNCHANGED <<leaving, recorded>>

Leave(group) ==
    /\ group # {} /\ leaving = Nobody
    /\ leaving' \in [group -> Score]
    /\ playing' = playing \ group
    /\ UNCHANGED recorded

Record ==
    /\ leaving # Nobody
    /\ recorded' = Extend(recorded, leaving)
    /\ leaving' = Nobody
    /\ UNCHANGED playing

LoseRecords ==
    /\ RecordsMayBeLost
    /\ leaving # Nobody
    /\ leaving' = Nobody
    /\ UNCHANGED <<playing, recorded>>

Next ==
    \/ \E p \in Player : Enter(p)
    \/ \E group \in SUBSET playing : Leave(group)
    \/ Record
    \/ LoseRecords

Spec == Init /\ [][Next]_lifecycle /\ WF_lifecycle(Record \/ LoseRecords)
=============================================================================
