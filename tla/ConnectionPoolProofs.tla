------------------------ MODULE ConnectionPoolProofs ------------------------
(***************************************************************************)
(* What TLC checks of ConnectionPool on four threads and two connections,  *)
(* proved for any number of either: the safety invariants, from one        *)
(* inductive invariant, and the implementation of ResourcePool.            *)
(***************************************************************************)
EXTENDS ConnectionPool, FiniteSetTheorems, TLAPS

(* No connection is in two slots, and only a query has one.                *)
NothingTwice ==
    /\ \A i, j \in Slot : pool_[i] = pool_[j] /\ pool_[i] # Null => i = j
    /\ \A t \in Thread : conn_[t] # Null <=> pc[t] = "using"

Inv == TypeOK /\ SlotsMatchQueries /\ NothingTwice /\ ExclusiveConnections

(* The threads at a place are finitely many.                               *)
LEMMA AtIsFinite ==
  ASSUME NEW w
  PROVE  IsFiniteSet(At(w)) /\ Cardinality(At(w)) \in Nat
  BY ConstantsAssumption, FS_Subset, FS_CardinalityType DEF At

(* Counting: a thread that comes to a place, and one that leaves it.       *)
LEMMA OneMore ==
  ASSUME TypeOK, NEW t \in Thread, NEW w \in Where, pc[t] # w,
         pc' = [pc EXCEPT ![t] = w]
  PROVE  Cardinality(At(w)') = Cardinality(At(w)) + 1
  <1>1. At(w)' = At(w) \cup {t} /\ t \notin At(w)
    BY DEF At, TypeOK
  <1> QED
    BY <1>1, AtIsFinite, FS_AddElement

LEMMA OneLess ==
  ASSUME TypeOK, NEW t \in Thread, NEW w \in Where, pc[t] = w,
         NEW v \in Where, v # w, pc' = [pc EXCEPT ![t] = v]
  PROVE  Cardinality(At(w)') = Cardinality(At(w)) - 1 /\ Cardinality(At(w)) > 0
  <1>1. At(w)' = At(w) \ {t} /\ t \in At(w)
    BY DEF At, TypeOK
  <1>2. Cardinality(At(w)') = Cardinality(At(w)) - 1
    BY <1>1, AtIsFinite, FS_RemoveElement
  <1>3. Cardinality(At(w)) # 0
    BY <1>1, AtIsFinite, FS_EmptySet
  <1> QED
    BY <1>2, <1>3, AtIsFinite

LEMMA InitInv == Init => Inv
  <1> SUFFICES ASSUME Init PROVE Inv
    OBVIOUS
  <1> USE ConstantsAssumption DEF Init
  <1>1. TypeOK
    BY DEF TypeOK, Slot, Connection, Where
  <1>2. At("using") = {}
    BY DEF At
  <1>3. SlotsMatchQueries
    <2>1. Cardinality(At("using")) = 0
      BY <1>2, FS_EmptySet
    <2>2. \A i \in Slot : pool_[i] # Null /\ ~(i < 0)
      BY DEF Slot
    <2> QED
      BY <2>1, <2>2 DEF SlotsMatchQueries
  <1>4. NothingTwice
    BY DEF NothingTwice, Slot
  <1>5. ExclusiveConnections
    BY <1>2 DEF ExclusiveConnections
  <1> QED
    BY <1>1, <1>3, <1>4, <1>5 DEF Inv

(* Taking moves a connection from the slot at the counter to the thread.   *)
LEMMA TakeKeepsInv ==
  ASSUME Inv, NEW t \in Thread, pc[t] \in {"idle", "woken"}, IsFree, TakeConnection(t)
  PROVE  Inv'
  <1> DEFINE u == used_connections_
  <1>0. u \in Slot /\ pool_[u] \in Connection /\ pool_[u] # Null
    BY ConstantsAssumption DEF Inv, TypeOK, SlotsMatchQueries, IsFree, Slot
  <1>1. TypeOK'
    <2>1. u \in 0 .. Capacity /\ u + 1 \in 0 .. Capacity
      BY <1>0, ConstantsAssumption DEF Slot
    <2> QED
      BY <1>0, <2>1 DEF Inv, TypeOK, TakeConnection, Where
  <1>2. Cardinality(At("using")') = Cardinality(At("using")) + 1
    BY OneMore DEF Inv, TakeConnection, Where
  <1>3. SlotsMatchQueries'
    BY <1>0, <1>2 DEF Inv, TypeOK, SlotsMatchQueries, TakeConnection, Slot
  <1>4. NothingTwice'
    BY <1>0 DEF Inv, TypeOK, NothingTwice, TakeConnection
  <1>5. ExclusiveConnections'
    BY <1>0 DEF Inv, TypeOK, NothingTwice, ExclusiveConnections, TakeConnection, At
  <1> QED
    BY <1>1, <1>3, <1>4, <1>5 DEF Inv

(* Returning moves it back, to the last empty slot.                        *)
LEMMA ReturnKeepsInv ==
  ASSUME Inv, NEW t \in Thread, ReturnConnection(t)
  PROVE  Inv'
  <1> DEFINE u == used_connections_ - 1
  <1>0. u \in Slot /\ pool_[u] = Null /\ conn_[t] \in Connection /\ conn_[t] # Null
    BY ConstantsAssumption
    DEF Inv, TypeOK, SlotsMatchQueries, NothingTwice, ReturnConnection, Slot
  <1>1. TypeOK'
    <2>1. u \in 0 .. Capacity
      BY <1>0, ConstantsAssumption DEF Slot
    <2> QED
      BY <1>0, <2>1 DEF Inv, TypeOK, ReturnConnection, Where
  <1>2. Cardinality(At("using")') = Cardinality(At("using")) - 1
    BY OneLess DEF Inv, ReturnConnection, Where
  <1>3. SlotsMatchQueries'
    BY <1>0, <1>2 DEF Inv, TypeOK, SlotsMatchQueries, ReturnConnection, Slot
  <1>4. NothingTwice'
    BY <1>0 DEF Inv, TypeOK, NothingTwice, ExclusiveConnections, ReturnConnection, At
  <1>5. ExclusiveConnections'
    BY <1>0 DEF Inv, TypeOK, NothingTwice, ExclusiveConnections, ReturnConnection, At
  <1> QED
    BY <1>1, <1>3, <1>4, <1>5 DEF Inv

(* A step that only moves threads among places without a connection.       *)
LEMMA OtherStepsKeepInv ==
  ASSUME Inv, UNCHANGED <<pool_, used_connections_, conn_>>,
         pc' \in [Thread -> Where], At("using")' = At("using")
  PROVE  Inv'
  <1>1. \A t \in Thread : pc'[t] = "using" <=> pc[t] = "using"
    BY DEF At
  <1> QED
    BY <1>1 DEF Inv, TypeOK, SlotsMatchQueries, NothingTwice, ExclusiveConnections, Slot
  
LEMMA StepKeepsInv == Inv /\ [Next]_vars => Inv'
  <1> SUFFICES ASSUME Inv, [Next]_vars PROVE Inv'
    OBVIOUS
  <1>1. ASSUME NEW t \in Thread, pc[t] \in {"idle", "woken"}, LookForConnection(t)
        PROVE  Inv'
    <2>1. CASE IsFree
      BY <1>1, <2>1, TakeKeepsInv DEF LookForConnection
    <2>2. CASE ~IsFree
      BY <1>1, <2>2, OtherStepsKeepInv DEF LookForConnection, Wait, Inv, TypeOK, At, Where
    <2> QED
      BY <2>1, <2>2
  <1>2. ASSUME NEW t \in Thread, GetConnection(t) PROVE Inv'
    BY <1>1, <1>2 DEF GetConnection
  <1>3. ASSUME NEW t \in Thread, LookAgain(t) PROVE Inv'
    BY <1>1, <1>3 DEF LookAgain
  <1>4. ASSUME NEW t \in Thread, WakeSpuriously(t) PROVE Inv'
    BY <1>4, OtherStepsKeepInv DEF WakeSpuriously, Inv, TypeOK, At, Where
  <1>5. ASSUME NEW t \in Thread, ReturnConnection(t) PROVE Inv'
    BY <1>5, ReturnKeepsInv
  <1>6. ASSUME NEW t \in Thread, Notify(t) PROVE Inv'
    BY <1>6, OtherStepsKeepInv DEF Notify, Inv, TypeOK, At, Where
  <1>7. CASE UNCHANGED vars
    BY <1>7, OtherStepsKeepInv DEF vars, Inv, TypeOK, At
  <1> QED
    BY <1>2, <1>3, <1>4, <1>5, <1>6, <1>7 DEF Next, GoOn

THEOREM InvAlways == Spec => []Inv
  BY InitInv, StepKeepsInv, PTL DEF Spec

(* For any threads and any capacity: the counter and the slots agree with  *)
(* the queries under way.                                                  *)
THEOREM SlotsAlwaysMatchQueries == Spec => [](TypeOK /\ SlotsMatchQueries)
  <1>1. Inv => TypeOK /\ SlotsMatchQueries
    BY DEF Inv
  <1> QED
    BY <1>1, InvAlways, PTL

(* For any threads and any capacity: no two queries share a connection.    *)
THEOREM ConnectionsStayExclusive == Spec => []ExclusiveConnections
  <1>1. Inv => ExclusiveConnections
    BY DEF Inv
  <1> QED
    BY <1>1, InvAlways, PTL

-----------------------------------------------------------------------------
(* No lost wakeup.  Threads that will look for a connection, or make       *)
(* another one look, before they do anything else.                         *)
Alert == At("notifying") \cup At("woken")

LEMMA AlertIsFinite == IsFiniteSet(Alert) /\ Cardinality(Alert) \in Nat
  BY AtIsFinite, FS_Union, FS_CardinalityType DEF Alert

LEMMA FreeSlotsAreFew ==
  Inv => Capacity - used_connections_ \in Nat
  BY ConstantsAssumption DEF Inv, TypeOK

(* A step after which no slot is free, or nobody waits, needs no count.    *)
LEMMA NothingToWaitFor ==
  ASSUME Inv', ~IsFree' \/ At("waiting")' = {}, Capacity' = Capacity
  PROVE  NoLostWakeup'
  <1>1. Cardinality(Alert)' \in Nat
    <2>1. IsFiniteSet(Alert')
      BY ConstantsAssumption, FS_Subset DEF Alert, At
    <2> QED
      BY <2>1, FS_CardinalityType
  <1> QED
    BY <1>1, ConstantsAssumption DEF NoLostWakeup, Alert, IsFree, Inv, TypeOK

LEMMA StepLosesNoWakeup == Inv /\ Inv' /\ NoLostWakeup /\ [Next]_vars => NoLostWakeup'
  <1> SUFFICES ASSUME Inv, Inv', NoLostWakeup, [Next]_vars, At("waiting")' # {}
               PROVE  Capacity - used_connections_' <= Cardinality(Alert')
    BY DEF NoLostWakeup, Alert
  <1>0. /\ Cardinality(Alert) \in Nat
        /\ At("waiting") # {} => Capacity - used_connections_ <= Cardinality(Alert)
        /\ Capacity \in Nat /\ used_connections_ \in Nat /\ used_connections_' \in Nat
    BY AlertIsFinite, ConstantsAssumption DEF NoLostWakeup, Alert, Inv, TypeOK
  <1>a. ASSUME NEW t \in Thread, Wait(t), ~IsFree
        PROVE  Capacity - used_connections_' <= Cardinality(Alert')
    BY <1>a, NothingToWaitFor DEF Wait, IsFree, NoLostWakeup, Alert
  <1>1. ASSUME NEW t \in Thread, GetConnection(t), IsFree
        PROVE  Capacity - used_connections_' <= Cardinality(Alert')
    <2>1. Alert' = Alert /\ At("waiting")' = At("waiting")
      BY <1>1 DEF GetConnection, LookForConnection, TakeConnection, Alert, At, Inv, TypeOK
    <2>2. used_connections_' = used_connections_ + 1
      BY <1>1 DEF GetConnection, LookForConnection, TakeConnection
    <2> QED
      BY <1>0, <2>1, <2>2
  <1>2. ASSUME NEW t \in Thread, LookAgain(t), IsFree
        PROVE  Capacity - used_connections_' <= Cardinality(Alert')
    <2>1. /\ Alert' = Alert \ {t} /\ t \in Alert
          /\ At("waiting")' = At("waiting")
      BY <1>2 DEF LookAgain, LookForConnection, TakeConnection, Alert, At, Inv, TypeOK
    <2>2. used_connections_' = used_connections_ + 1
      BY <1>2 DEF LookAgain, LookForConnection, TakeConnection
    <2>3. Cardinality(Alert') = Cardinality(Alert) - 1
      BY <2>1, AlertIsFinite, FS_RemoveElement
    <2> QED
      BY <1>0, <2>1, <2>2, <2>3
  <1>3. ASSUME NEW t \in Thread, WakeSpuriously(t)
        PROVE  Capacity - used_connections_' <= Cardinality(Alert')
    <2>1. Alert' = Alert \cup {t} /\ t \notin Alert /\ At("waiting") # {}
      BY <1>3 DEF WakeSpuriously, Alert, At, Inv, TypeOK
    <2>2. Cardinality(Alert') = Cardinality(Alert) + 1
      BY <2>1, AlertIsFinite, FS_AddElement
    <2> QED
      BY <1>0, <1>3, <2>1, <2>2 DEF WakeSpuriously
  <1>4. ASSUME NEW t \in Thread, ReturnConnection(t)
        PROVE  Capacity - used_connections_' <= Cardinality(Alert')
    <2>1. /\ Alert' = Alert \cup {t} /\ t \notin Alert
          /\ At("waiting")' = At("waiting")
      BY <1>4 DEF ReturnConnection, Alert, At, Inv, TypeOK
    <2>2. used_connections_' = used_connections_ - 1
      BY <1>4 DEF ReturnConnection
    <2>3. Cardinality(Alert') = Cardinality(Alert) + 1
      BY <2>1, AlertIsFinite, FS_AddElement
    <2> QED
      BY <1>0, <2>1, <2>2, <2>3
  <1>5. ASSUME NEW t \in Thread, Notify(t)
        PROVE  Capacity - used_connections_' <= Cardinality(Alert')
    <2>1. At("waiting") # {}
      BY <1>5 DEF Notify, At, Inv, TypeOK
    <2>2. PICK w \in At("waiting") : pc' = [pc EXCEPT ![t] = "idle", ![w] = "woken"]
      BY <1>5, <2>1 DEF Notify
    <2>3. /\ Alert' = (Alert \ {t}) \cup {w}
          /\ t \in Alert /\ w \notin Alert
      BY <1>5, <2>2 DEF Notify, Alert, At, Inv, TypeOK
    <2>4. Cardinality(Alert \ {t}) = Cardinality(Alert) - 1 /\ IsFiniteSet(Alert \ {t})
      BY <2>3, AlertIsFinite, FS_RemoveElement
    <2>5. Cardinality(Alert') = Cardinality(Alert)
      <3>1. w \notin Alert \ {t} /\ Alert' = (Alert \ {t}) \cup {w}
        BY <2>3
      <3>2. Cardinality(Alert') = Cardinality(Alert \ {t}) + 1
        BY <2>4, <3>1, FS_AddElement
      <3> QED
        BY <1>0, <2>4, <3>2
    <2> QED
      BY <1>0, <1>5, <2>1, <2>5 DEF Notify
  <1>6. CASE UNCHANGED vars
    BY <1>0, <1>6 DEF vars, Alert, At
  <1> QED
    BY <1>a, <1>1, <1>2, <1>3, <1>4, <1>5, <1>6
    DEF Next, GoOn, GetConnection, LookAgain, LookForConnection

(* For any threads and any capacity: a connection never lies free while    *)
(* threads wait and nobody is about to wake one.                           *)
THEOREM NoWakeupIsEverLost == Spec => []NoLostWakeup
  <1>1. Init => NoLostWakeup
    BY DEF Init, NoLostWakeup, At
  <1> QED
    BY <1>1, InvAlways, StepLosesNoWakeup, PTL DEF Spec

-----------------------------------------------------------------------------
(* The implementation of ResourcePool.                                     *)
Free == {pool_[i] : i \in Slot} \ {Null}
Lent == [t \in Thread |-> {conn_[t]} \ {Null}]

LEMMA TakeLends ==
  ASSUME Inv, NEW t \in Thread, pc[t] \in {"idle", "woken"}, IsFree, TakeConnection(t)
  PROVE  Resources!Next
  <1> DEFINE u == used_connections_
  <1>0. u \in Slot /\ pool_[u] \in Connection /\ pool_[u] # Null
    BY ConstantsAssumption DEF Inv, TypeOK, SlotsMatchQueries, IsFree, Slot
  <1>1. Lent[t] = {}
    BY DEF Inv, NothingTwice, Lent
  <1>2. pool_[u] \in Free
    BY <1>0 DEF Free
  <1>3. Lent' = [Lent EXCEPT ![t] = {pool_[u]}]
    BY <1>0 DEF Inv, TypeOK, TakeConnection, Lent
  <1>4. Free' = Free \ {pool_[u]}
    BY <1>0 DEF Inv, TypeOK, NothingTwice, TakeConnection, Free
  <1>5. PICK r \in Connection : r = pool_[u]
    BY <1>0
  <1>6. Resources!Lend(t, r)
    BY <1>1, <1>2, <1>3, <1>4, <1>5 DEF Resources!Lend, Free, Lent
  <1> QED
    BY <1>6 DEF Resources!Next

LEMMA ReturnGivesBack ==
  ASSUME Inv, NEW t \in Thread, ReturnConnection(t)
  PROVE  Resources!Next
  <1> DEFINE u == used_connections_ - 1
  <1>0. u \in Slot /\ pool_[u] = Null /\ conn_[t] \in Connection /\ conn_[t] # Null
    BY ConstantsAssumption
    DEF Inv, TypeOK, SlotsMatchQueries, NothingTwice, ReturnConnection, Slot
  <1>1. conn_[t] \in Lent[t]
    BY <1>0 DEF Lent
  <1>2. Lent' = [Lent EXCEPT ![t] = {}]
    BY <1>0 DEF Inv, TypeOK, ReturnConnection, Lent
  <1>3. Free' = Free \cup {conn_[t]}
    BY <1>0 DEF Inv, TypeOK, ReturnConnection, Free
  <1>4. PICK r \in Connection : r = conn_[t]
    BY <1>0
  <1>5. Resources!GiveBack(t, r)
    BY <1>1, <1>2, <1>3, <1>4 DEF Resources!GiveBack, Free, Lent
  <1> QED
    BY <1>5 DEF Resources!Next

(* For any threads and any capacity: the pool implements ResourcePool.     *)
THEOREM PoolImplementsResourcePool == Spec => ImplementsResourcePool
  <1>1. Init => Resources!Init
    <2> SUFFICES ASSUME Init PROVE Resources!Init
      OBVIOUS
    <2>1. Free = Connection
      BY ConstantsAssumption DEF Init, Free, Connection, Slot
    <2>2. Lent = [t \in Thread |-> {}]
      BY DEF Init, Lent
    <2> QED
      BY <2>1, <2>2 DEF Resources!Init, Free, Lent
  <1>2. Inv /\ [Next]_vars => [Resources!Next]_(Resources!pool_state)
    <2> SUFFICES ASSUME Inv, [Next]_vars
                 PROVE  Resources!Next \/ UNCHANGED <<pool_, conn_>>
      BY DEF Resources!pool_state
    <2>1. ASSUME NEW t \in Thread, pc[t] \in {"idle", "woken"}, LookForConnection(t)
          PROVE  Resources!Next \/ UNCHANGED <<pool_, conn_>>
      BY <2>1, TakeLends DEF LookForConnection, Wait
    <2>2. ASSUME NEW t \in Thread, ReturnConnection(t)
          PROVE  Resources!Next
      BY <2>2, ReturnGivesBack
    <2> QED
      BY <2>1, <2>2 DEF Next, GoOn, GetConnection, LookAgain, WakeSpuriously, Notify, vars
  <1> QED
    BY <1>1, <1>2, InvAlways, PTL DEF Spec, ImplementsResourcePool, Resources!Spec
=============================================================================
