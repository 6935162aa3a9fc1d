---------------------------- MODULE GameSession ----------------------------
(***************************************************************************)
(* One game session: the dogs of the players who joined it, the lost       *)
(* objects on its map, and the records of the players who left it          *)
(* (src/src/app/game_session.cpp, the Dog class of src/src/model/model.cpp *)
(* and the handler of src/src/app/application.cpp that commits records).   *)
(*                                                                         *)
(* Two executors act on a session.  Its own strand runs Tick, GenerateLoot *)
(* and the players' moves, one at a time.  The API strand runs JoinGame,   *)
(* which writes dogs_ WITHOUT going through the session's strand, so that  *)
(* a dog may appear anywhere inside a tick.  A tick is therefore cut into  *)
(* the phases of GameSession::Tick.  At its end the application removes    *)
(* the players of the dogs retired, which is Application's: nothing that   *)
(* a session holds changes by it.                                          *)
(***************************************************************************)
EXTENDS Integers, FiniteSets

CONSTANTS
    BagCapacity,   \* Map::bag_capacity_
    MaxInactive,   \* Dog::max_inactive_time_, in seconds
    MsPerSecond,   \* milliseconds in a second (small when model-checked)
    Deltas,        \* the time steps, in milliseconds, that a tick may carry
    Offices,       \* the offices of the map
    DbMayFail,     \* may SaveRecordsTable throw?
    MaxDogs,       \* bound: how many dogs ever join
    MaxLoot,       \* bound: how many lost objects are ever generated
    MaxLive        \* bound: live_time_ stops counting there

ASSUME ConstantsAssumption ==
    /\ BagCapacity \in Nat
    /\ MaxInactive \in Nat
    /\ MsPerSecond \in Nat \ {0}
    /\ Deltas \subseteq Nat
    /\ Offices \cap Nat = {}
    /\ DbMayFail \in BOOLEAN
    /\ MaxDogs \in Nat
    /\ MaxLoot \in Nat
    /\ MaxLive \in Nat

(* The bound on live_time_ is out of the way of every idle time.           *)
ASSUME MaxLiveAssumption ==
    \A delta \in Deltas : MaxInactive * MsPerSecond + delta <= MaxLive

VARIABLES
    dogs_,           \* dog id -> dog, for the dogs in play
    lost_objects_,   \* the ids of the objects lying on the map
    dog_id,          \* the next dog id
    lost_object_id,  \* the next lost object id
    phase,           \* where the session's strand is inside Tick
    events,          \* gathering events of this tick not yet handled
    player_records,  \* records of this tick's leavers not yet committed
    hall_of_fame     \* the database table

vars == <<dogs_, lost_objects_, dog_id, lost_object_id, phase, events,
          player_records, hall_of_fame>>

Phase == {"ready", "gather", "retire", "commit"}

(* speed_ is told apart only as zero or not; bag and score_ are kept as    *)
(* the sets of objects carried and delivered, score_ being their sum.      *)
Dog == [moving : BOOLEAN, is_active : BOOLEAN, inactive_time : Nat,
        live_time : Nat, bag : SUBSET Nat, score : SUBSET Nat]

PlayerRecord == [dog : Nat, score : SUBSET Nat, play_time : Nat]

Recorded == {r.dog : r \in hall_of_fame}
Leaving == {r.dog : r \in player_records}

-----------------------------------------------------------------------------
(* The methods of Dog.                                                     *)

NewDog == [moving |-> FALSE, is_active |-> TRUE, inactive_time |-> 0,
           live_time |-> 0, bag |-> {}, score |-> {}]

(* Bug: stopping counts as activity, too.                                  *)
SetSpeedForgetsIdleTime(dog, moving) ==
    [dog EXCEPT !.moving = moving, !.is_active = moving, !.inactive_time = 0]

SetSpeed(dog, moving) ==
    IF moving
    THEN [dog EXCEPT !.moving = TRUE, !.is_active = TRUE, !.inactive_time = 0]
    ELSE [dog EXCEPT !.moving = FALSE, !.is_active = FALSE]

IsFullBag(dog) == BagCapacity <= Cardinality(dog.bag)

AddItemToBag(dog, item) == [dog EXCEPT !.bag = @ \cup {item}]

(* Bug: the bag is cleared before its value is added.                      *)
ClearBagFirst(dog) == [dog EXCEPT !.bag = {}]

ClearBag(dog) == [dog EXCEPT !.score = @ \cup dog.bag, !.bag = {}]

(* GetPlayTime answers nothing for a dog that is active or has not been    *)
(* idle for long enough, both times being cut down to whole seconds.       *)
HasPlayTime(dog) ==
    ~dog.is_active /\ dog.inactive_time \div MsPerSecond >= MaxInactive

PlayTime(dog) == dog.live_time \div MsPerSecond

(* Bug: only the time in motion is counted.                                *)
UpdatePlayTimeInMotion(dog, delta) ==
    IF dog.moving
    THEN [dog EXCEPT !.live_time = IF @ + delta > MaxLive THEN MaxLive ELSE @ + delta]
    ELSE dog

UpdatePlayTime(dog, delta) ==
    [dog EXCEPT !.live_time = IF @ + delta > MaxLive THEN MaxLive ELSE @ + delta]

UpdateInactiveTime(dog, delta) == [dog EXCEPT !.inactive_time = @ + delta]

(* The roads decide whether the dog is stopped at a border on its way.     *)
MoveDog(dog, delta, stopped) ==
    LET moved == UpdatePlayTime(SetSpeed(dog, dog.moving /\ ~stopped), delta)
    IN  IF moved.is_active THEN moved ELSE UpdateInactiveTime(moved, delta)

-----------------------------------------------------------------------------
Init ==
    /\ dogs_ = [d \in {} |-> NewDog]
    /\ lost_objects_ = {}
    /\ dog_id = 0
    /\ lost_object_id = 0
    /\ phase = "ready"
    /\ events = {}
    /\ player_records = {}
    /\ hall_of_fame = {}

(* What JoinGame does to the session; its strand is not involved.          *)
AddDog ==
    /\ dog_id < MaxDogs
    /\ dogs_' = [d \in DOMAIN dogs_ \cup {dog_id} |->
                    IF d = dog_id THEN NewDog ELSE dogs_[d]]
    /\ dog_id' = dog_id + 1
    /\ UNCHANGED <<lost_objects_, lost_object_id, phase, events,
                   player_records, hall_of_fame>>

(* A player's move reaches the session's strand.  A move for a dog that    *)
(* has left throws and changes nothing.                                    *)
SetDogDirection(d, moving) ==
    /\ phase = "ready"
    /\ d \in DOMAIN dogs_
    /\ dogs_' = [dogs_ EXCEPT ![d] = SetSpeed(@, moving)]
    /\ UNCHANGED <<lost_objects_, dog_id, lost_object_id, phase, events,
                   player_records, hall_of_fame>>

(* The loot generator makes up at most the shortage.                       *)
Shortage ==
    LET loot == Cardinality(lost_objects_)
        looters == Cardinality(DOMAIN dogs_)
    IN  IF loot > looters THEN 0 ELSE looters - loot

GenerateLoot(n) ==
    /\ phase = "ready"
    /\ n \in 1 .. Shortage
    /\ lost_object_id + n <= MaxLoot
    /\ lost_objects_' = lost_objects_ \cup (lost_object_id .. lost_object_id + n - 1)
    /\ lost_object_id' = lost_object_id + n
    /\ UNCHANGED <<dogs_, dog_id, phase, events, player_records, hall_of_fame>>

-----------------------------------------------------------------------------
(* Tick.  All dogs move; then the provider takes its snapshot of items and *)
(* dogs, and the detector finds which dog passed which item or office.     *)
(* Where they lie is abstracted: any pairs of the snapshot may have met.   *)

Encounters == (DOMAIN dogs_) \X (lost_objects_ \cup Offices)

MoveDogs(delta, stopped, found) ==
    /\ phase = "ready"
    /\ dogs_' = [d \in DOMAIN dogs_ |-> MoveDog(dogs_[d], delta, d \in stopped)]
    /\ events' = found
    /\ phase' = "gather"
    /\ UNCHANGED <<lost_objects_, dog_id, lost_object_id, player_records,
                   hall_of_fame>>

(* One gathering event, in an order only the geometry knows.  The item is  *)
(* looked up in the snapshot, not in lost_objects_: it may be gone.        *)
VisitOffice(d) ==
    /\ dogs_' = [dogs_ EXCEPT ![d] = ClearBag(@)]
    /\ UNCHANGED lost_objects_

(* Bug: the item stays on the map.                                         *)
TakeCopyOfItem(d, item) ==
    /\ dogs_' = IF IsFullBag(dogs_[d]) THEN dogs_
                ELSE [dogs_ EXCEPT ![d] = AddItemToBag(@, item)]
    /\ UNCHANGED lost_objects_

(* Bug: the item is erased though the bag was full.                        *)
TakeItemInVain(d, item) ==
    /\ dogs_' = IF IsFullBag(dogs_[d]) THEN dogs_
                ELSE [dogs_ EXCEPT ![d] = AddItemToBag(@, item)]
    /\ lost_objects_' = lost_objects_ \ {item}

TakeItem(d, item) ==
    IF IsFullBag(dogs_[d])
    THEN UNCHANGED <<dogs_, lost_objects_>>
    ELSE /\ dogs_' = [dogs_ EXCEPT ![d] = AddItemToBag(@, item)]
         /\ lost_objects_' = lost_objects_ \ {item}

Gather(d, item) ==
    /\ phase = "gather"
    /\ <<d, item>> \in events
    /\ events' = events \ {<<d, item>>}
    /\ IF item \in Offices THEN VisitOffice(d) ELSE TakeItem(d, item)
    /\ UNCHANGED <<dog_id, lost_object_id, phase, player_records,
                   hall_of_fame>>

EndGather ==
    /\ phase = "gather" /\ events = {}
    /\ phase' = "retire"
    /\ UNCHANGED <<dogs_, lost_objects_, dog_id, lost_object_id, events,
                   player_records, hall_of_fame>>

(* RemoveInactiveDogs: the records are taken and the dogs erased before    *)
(* anybody hears of it; with nobody to retire the tick is over.            *)
(* Bug: one dog is retired in a tick.                                      *)
OneRetired ==
    LET idle == {d \in DOMAIN dogs_ : HasPlayTime(dogs_[d])}
    IN  IF idle = {} THEN {} ELSE {CHOOSE d \in idle : TRUE}

Retired == {d \in DOMAIN dogs_ : HasPlayTime(dogs_[d])}

RecordOf(d) == [dog |-> d, score |-> dogs_[d].score, play_time |-> PlayTime(dogs_[d])]

(* Bug: a score of zero is no record.                                      *)
RecordsOfScorers(leavers) == {RecordOf(d) : d \in {l \in leavers : dogs_[l].score # {}}}

RecordsOf(leavers) == {RecordOf(d) : d \in leavers}

(* Bug: the dogs are left in play.                                         *)
DogsWithLeavers(leavers) == dogs_

DogsWithout(leavers) == [d \in DOMAIN dogs_ \ leavers |-> dogs_[d]]

RetireDogs ==
    /\ phase = "retire"
    /\ player_records' = RecordsOf(Retired)
    /\ dogs_' = DogsWithout(Retired)
    /\ phase' = IF Retired = {} THEN "ready" ELSE "commit"
    /\ UNCHANGED <<lost_objects_, dog_id, lost_object_id, events,
                   hall_of_fame>>

(* handle_finished_players_sig: one transaction inserts every record.      *)
(* Bug: the table is written anew.                                         *)
CommitOverRecords ==
    /\ phase = "commit"
    /\ hall_of_fame' = player_records
    /\ player_records' = {}
    /\ phase' = "ready"
    /\ UNCHANGED <<dogs_, lost_objects_, dog_id, lost_object_id, events>>

CommitGameRecords ==
    /\ phase = "commit"
    /\ hall_of_fame' = hall_of_fame \cup player_records
    /\ player_records' = {}
    /\ phase' = "ready"
    /\ UNCHANGED <<dogs_, lost_objects_, dog_id, lost_object_id, events>>

(* The transaction throws: the exception leaves Tick, and with it the      *)
(* records and the call that would have removed the players.  It ends the  *)
(* thread of io_context::run that it reaches, and the process, unless the  *)
(* thread is the main one: that waits for the others, and the game goes on *)
(* as it does here.  To stop for good is a behaviour of Spec as well.      *)
CommitFails ==
    /\ DbMayFail
    /\ phase = "commit"
    /\ player_records' = {}
    /\ phase' = "ready"
    /\ UNCHANGED <<dogs_, lost_objects_, dog_id, lost_object_id, events,
                   hall_of_fame>>

Tick ==
    \/ \E delta \in Deltas :
         \E stopped \in SUBSET {d \in DOMAIN dogs_ : dogs_[d].moving} :
           \E found \in SUBSET Encounters : MoveDogs(delta, stopped, found)
    \/ \E e \in events : Gather(e[1], e[2])
    \/ EndGather
    \/ RetireDogs
    \/ CommitGameRecords
    \/ CommitFails

Next ==
    \/ AddDog
    \/ \E d \in DOMAIN dogs_, moving \in BOOLEAN : SetDogDirection(d, moving)
    \/ \E n \in 1 .. Shortage : GenerateLoot(n)
    \/ Tick

Spec == Init /\ [][Next]_vars

(* The ticker re-arms itself after every tick, so ticks never stop.        *)
FairSpec == Spec /\ WF_vars(Tick)

-----------------------------------------------------------------------------
(* Properties.                                                             *)

(* Every variable has its type; the counters run ahead of the ids in use.  *)
TypeOK ==
    /\ dog_id \in 0 .. MaxDogs
    /\ lost_object_id \in 0 .. MaxLoot
    /\ DOMAIN dogs_ \subseteq 0 .. dog_id - 1
    /\ dogs_ \in [DOMAIN dogs_ -> Dog]
    /\ lost_objects_ \subseteq 0 .. lost_object_id - 1
    /\ phase \in Phase
    /\ events \subseteq (DOMAIN dogs_) \X (Nat \cup Offices)
    /\ player_records \subseteq PlayerRecord
    /\ hall_of_fame \subseteq PlayerRecord

(* What a dog carries or has delivered no longer lies on the map, although *)
(* the loop of Tick handles events of items that an earlier event of the   *)
(* same tick may have taken away.                                          *)
GatheredIsOffMap ==
    \A d \in DOMAIN dogs_ : (dogs_[d].bag \cup dogs_[d].score) \cap lost_objects_ = {}

(* However many items a dog passes in one tick, its bag does not overflow. *)
BagWithinCapacity ==
    \A d \in DOMAIN dogs_ :
        IsFiniteSet(dogs_[d].bag) /\ Cardinality(dogs_[d].bag) <= BagCapacity

(* Between ticks no dog is in play that has been idle for the whole        *)
(* retirement time: the tick that completes it also retires the dog, a     *)
(* failing database or a join in the middle notwithstanding.               *)
NoOverstay ==
    phase \in {"ready", "commit"} =>
        \A d \in DOMAIN dogs_ : ~HasPlayTime(dogs_[d])

(* A record's play time covers the idle time that ended the game, since a  *)
(* dog never accounts for more idle time than it has lived.                *)
PlayTimeCoversIdleTime ==
    /\ \A d \in DOMAIN dogs_ : dogs_[d].inactive_time <= dogs_[d].live_time
    /\ \A r \in player_records \cup hall_of_fame : r.play_time >= MaxInactive

(* Nobody gets two records, or a record while still playing: the records   *)
(* are in the table, or about to be, of different dogs that have all left. *)
OneRecordPerDog ==
    /\ Recorded \cap Leaving = {}
    /\ (Recorded \cup Leaving) \cap DOMAIN dogs_ = {}
    /\ \A r, s \in hall_of_fame \cup player_records : r.dog = s.dog => r = s

(* The README's promise that a player's record is registered: every dog    *)
(* that ever joined is in play, about to be recorded, or recorded.         *)
NobodyLeavesUnrecorded ==
    \A d \in 0 .. dog_id - 1 : d \in DOMAIN dogs_ \cup Leaving \cup Recorded

(* While a dog plays, nothing it has gathered is lost, and only what it    *)
(* carried can be added to its score: a full bag emptied at an office is   *)
(* worth what it was.                                                      *)
WorthOnlyGrows ==
    [][\A d \in DOMAIN dogs_ \cap DOMAIN dogs_' :
          /\ dogs_[d].bag \cup dogs_[d].score \subseteq dogs_'[d].bag \cup dogs_'[d].score
          /\ dogs_'[d].score \subseteq dogs_[d].bag \cup dogs_[d].score]_vars

(* A lost object leaves the map only into a bag, and comes to lie there    *)
(* only by generation: a retiring dog does not put its bag back.           *)
LootMovesIntoBags ==
    [][/\ \A i \in lost_objects_ \ lost_objects_' :
             \E d \in DOMAIN dogs_' : i \in dogs_'[d].bag
       /\ \A i \in lost_objects_' \ lost_objects_ : i >= lost_object_id]_vars

(* A dog that stops moving, be it told to or held by a border, moves again *)
(* or ends with a record: nobody idles in the game for ever.               *)
IdleDogsAreRecorded ==
    \A d \in 0 .. MaxDogs - 1 :
        (d \in DOMAIN dogs_ /\ ~dogs_[d].moving) ~>
            (d \in Recorded \/ (d \in DOMAIN dogs_ /\ dogs_[d].moving))

(* The session implements the lifecycle that PlayerLifecycle promises.     *)
FinalScores(records) ==
    [d \in {r.dog : r \in records} |-> (CHOOSE r \in records : r.dog = d).score]

Lifecycle == INSTANCE PlayerLifecycle WITH
    Player <- 0 .. MaxDogs - 1,
    Score <- SUBSET (0 .. MaxLoot - 1),
    RecordsMayBeLost <- DbMayFail,
    playing <- DOMAIN dogs_,
    leaving <- FinalScores(player_records),
    recorded <- FinalScores(hall_of_fame)

(* Every behaviour of the session, seen through its records, is one of the *)
(* lifecycle: one record per player, with the score they left with, and    *)
(* once a group has left its records arrive.                               *)
ImplementsLifecycle == Lifecycle!Spec
=============================================================================
