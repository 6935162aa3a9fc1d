--------------------------- MODULE ConnectionPool ---------------------------
(***************************************************************************)
(* The pool of database connections (src/src/database/connection_pool.h)   *)
(* and the threads that use it: every query takes a connection for as long *)
(* as it lasts (src/src/database/database.cpp).                            *)
(*                                                                         *)
(* What is done under mutex_ is one step.  Waiting on cond_var_ gives the  *)
(* mutex up; a thread that is woken, by a notification or for no reason,   *)
(* takes it again and looks again.  The notification of a return comes     *)
(* after the mutex is released, as a step of its own.                      *)
(***************************************************************************)
EXTENDS Integers, FiniteSets

CONSTANTS
    Thread,      \* the threads that run queries
    Capacity,    \* how many connections the constructor opens
    Null         \* an empty shared_ptr

(* std::thread::hardware_concurrency() gives the capacity: it may be zero. *)
ASSUME ConstantsAssumption ==
    /\ IsFiniteSet(Thread)
    /\ Capacity \in Nat
    /\ Null \notin Nat

VARIABLES
    pool_,               \* slot -> connection, or Null once moved out
    used_connections_,   \* how many slots, from the first on, are lent out
    pc,                  \* where each thread is
    conn_                \* thread -> connection in its ConnectionWrapper

vars == <<pool_, used_connections_, pc, conn_>>

(* The connections are numbered as they are opened.                        *)
Slot == 0 .. Capacity - 1
Connection == Slot

Where == {"idle", "waiting", "woken", "using", "notifying"}
At(w) == {t \in Thread : pc[t] = w}

Init ==
    /\ pool_ = [i \in Slot |-> i]
    /\ used_connections_ = 0
    /\ pc = [t \in Thread |-> "idle"]
    /\ conn_ = [t \in Thread |-> Null]

(* The predicate of the wait, and what follows once it is true.            *)
IsFree == used_connections_ < Capacity

(* Bug: the connection is copied out, not moved.                           *)
CopyConnection(t) ==
    /\ conn_' = [conn_ EXCEPT ![t] = pool_[used_connections_]]
    /\ used_connections_' = used_connections_ + 1
    /\ pc' = [pc EXCEPT ![t] = "using"]
    /\ UNCHANGED pool_

TakeConnection(t) ==
    /\ conn_' = [conn_ EXCEPT ![t] = pool_[used_connections_]]
    /\ pool_' = [pool_ EXCEPT ![used_connections_] = Null]
    /\ used_connections_' = used_connections_ + 1
    /\ pc' = [pc EXCEPT ![t] = "using"]

Wait(t) ==
    /\ pc' = [pc EXCEPT ![t] = "waiting"]
    /\ UNCHANGED <<pool_, used_connections_, conn_>>

LookForConnection(t) == IF IsFree THEN TakeConnection(t) ELSE Wait(t)

(* GetConnection, called by SaveRecordsTable and GetRecordsTable.          *)
GetConnection(t) ==
    /\ pc[t] = "idle"
    /\ LookForConnection(t)

WakeSpuriously(t) ==
    /\ pc[t] = "waiting"
    /\ pc' = [pc EXCEPT ![t] = "woken"]
    /\ UNCHANGED <<pool_, used_connections_, conn_>>

LookAgain(t) ==
    /\ pc[t] = "woken"
    /\ LookForConnection(t)

(* The query has ended, well or with an exception: the wrapper is          *)
(* destroyed and puts the connection into the last slot lent out.          *)
(* Bug: the connection goes back to the slot it came from.                 *)
ReturnToOwnSlot(t) ==
    /\ pc[t] = "using"
    /\ used_connections_ > 0
    /\ pool_' = [pool_ EXCEPT ![conn_[t]] = conn_[t]]
    /\ used_connections_' = used_connections_ - 1
    /\ conn_' = [conn_ EXCEPT ![t] = Null]
    /\ pc' = [pc EXCEPT ![t] = "notifying"]

(* Bug: the counter is not taken back.                                     *)
ReturnUncounted(t) ==
    /\ pc[t] = "using"
    /\ used_connections_ > 0
    /\ pool_' = [pool_ EXCEPT ![used_connections_ - 1] = conn_[t]]
    /\ conn_' = [conn_ EXCEPT ![t] = Null]
    /\ pc' = [pc EXCEPT ![t] = "notifying"]
    /\ UNCHANGED used_connections_

ReturnConnection(t) ==
    /\ pc[t] = "using"
    /\ used_connections_ > 0
    /\ pool_' = [pool_ EXCEPT ![used_connections_ - 1] = conn_[t]]
    /\ used_connections_' = used_connections_ - 1
    /\ conn_' = [conn_ EXCEPT ![t] = Null]
    /\ pc' = [pc EXCEPT ![t] = "notifying"]

(* notify_one wakes any one of those who wait at this moment.              *)
(* Bug: nobody is notified.                                                *)
NotifyNobody(t) ==
    /\ pc[t] = "notifying"
    /\ pc' = [pc EXCEPT ![t] = "idle"]
    /\ UNCHANGED <<pool_, used_connections_, conn_>>

Notify(t) ==
    /\ pc[t] = "notifying"
    /\ IF At("waiting") = {}
       THEN pc' = [pc EXCEPT ![t] = "idle"]
       ELSE \E w \in At("waiting") : pc' = [pc EXCEPT ![t] = "idle", ![w] = "woken"]
    /\ UNCHANGED <<pool_, used_connections_, conn_>>

GoOn(t) == LookAgain(t) \/ ReturnConnection(t) \/ Notify(t)

Next == \E t \in Thread : GetConnection(t) \/ WakeSpuriously(t) \/ GoOn(t)

Spec == Init /\ [][Next]_vars

(* A thread that can run runs on, and every query comes to an end.  That   *)
(* a thread asks again, or wakes for no reason, is not relied upon.        *)
FairSpec == Spec /\ \A t \in Thread : WF_vars(GoOn(t))

-----------------------------------------------------------------------------
(* Properties.                                                             *)

(* Every variable has its type.                                            *)
TypeOK ==
    /\ pool_ \in [Slot -> Connection \cup {Null}]
    /\ used_connections_ \in 0 .. Capacity
    /\ pc \in [Thread -> Where]
    /\ conn_ \in [Thread -> Connection \cup {Null}]

(* A query has a connection, and no other query has the same one, nor does *)
(* the pool still offer it: two transactions never mix.                    *)
ExclusiveConnections ==
    /\ \A t \in At("using") : conn_[t] # Null
    /\ \A t, u \in At("using") : t # u => conn_[t] # conn_[u]
    /\ \A t \in At("using"), i \in Slot : pool_[i] # conn_[t]

(* used_connections_ counts the queries under way, so that the exception   *)
(* of ReturnConnection is never thrown, and the slots it counts are the    *)
(* empty ones, though the connections come back in any order:              *)
(* GetConnection finds a connection behind the counter, and                *)
(* ReturnConnection a slot that holds nothing.                             *)
SlotsMatchQueries ==
    /\ used_connections_ = Cardinality(At("using"))
    /\ \A i \in Slot : pool_[i] = Null <=> i < used_connections_

(* The notification comes after the unlock, when others may have taken the *)
(* connection or begun to wait; yet there are never more free connections  *)
(* than threads about to notify or to look, as long as somebody waits.     *)
NoLostWakeup ==
    At("waiting") # {} =>
        Capacity - used_connections_ <= Cardinality(At("notifying") \cup At("woken"))

(* The comment in GetConnection: the thread waits until a connection comes *)
(* free.  While somebody waits, somebody will be using a connection.       *)
SomebodyIsServed == At("waiting") # {} ~> At("using") # {}

Resources == INSTANCE ResourcePool WITH
    Resource <- Connection,
    Holder <- Thread,
    free <- {pool_[i] : i \in Slot} \ {Null},
    lent <- [t \in Thread |-> {conn_[t]} \ {Null}]

(* Seen from outside, the slots, the counter and the waiting are not       *)
(* there: connections are lent one at a time and given back.               *)
ImplementsResourcePool == Resources!Spec
=============================================================================
