------------------------- MODULE GameSessionProofs -------------------------
(***************************************************************************)
(* Proofs about GameSession, for every value of its constants.             *)
(***************************************************************************)
EXTENDS GameSession, FiniteSetTheorems, TLAPS

-----------------------------------------------------------------------------
(* What the methods of Dog return.                                         *)

LEMMA NewDogType == NewDog \in Dog
  BY DEF NewDog, Dog

LEMMA SetSpeedFacts ==
  ASSUME NEW dog \in Dog, NEW moving \in BOOLEAN
  PROVE  /\ SetSpeed(dog, moving) \in Dog
         /\ SetSpeed(dog, moving).bag = dog.bag
         /\ SetSpeed(dog, moving).score = dog.score
         /\ SetSpeed(dog, moving).live_time = dog.live_time
         /\ SetSpeed(dog, moving).is_active = moving
         /\ SetSpeed(dog, moving).moving = moving
         /\ SetSpeed(dog, moving).inactive_time = IF moving THEN 0 ELSE dog.inactive_time
  BY DEF SetSpeed, Dog

LEMMA UpdatePlayTimeFacts ==
  ASSUME NEW dog \in Dog, NEW delta \in Nat
  PROVE  /\ UpdatePlayTime(dog, delta) \in Dog
         /\ UpdatePlayTime(dog, delta).bag = dog.bag
         /\ UpdatePlayTime(dog, delta).score = dog.score
         /\ UpdatePlayTime(dog, delta).is_active = dog.is_active
         /\ UpdatePlayTime(dog, delta).moving = dog.moving
         /\ UpdatePlayTime(dog, delta).inactive_time = dog.inactive_time
         /\ UpdatePlayTime(dog, delta).live_time =
              IF dog.live_time + delta > MaxLive THEN MaxLive ELSE dog.live_time + delta
  BY ConstantsAssumption DEF UpdatePlayTime, Dog

LEMMA UpdateInactiveTimeFacts ==
  ASSUME NEW dog \in Dog, NEW delta \in Nat
  PROVE  /\ UpdateInactiveTime(dog, delta) \in Dog
         /\ UpdateInactiveTime(dog, delta).bag = dog.bag
         /\ UpdateInactiveTime(dog, delta).score = dog.score
         /\ UpdateInactiveTime(dog, delta).is_active = dog.is_active
         /\ UpdateInactiveTime(dog, delta).moving = dog.moving
         /\ UpdateInactiveTime(dog, delta).live_time = dog.live_time
         /\ UpdateInactiveTime(dog, delta).inactive_time = dog.inactive_time + delta
  BY DEF UpdateInactiveTime, Dog

LEMMA MoveDogFacts ==
  ASSUME NEW dog \in Dog, NEW delta \in Nat, NEW stopped \in BOOLEAN,
         NEW moved, moved = MoveDog(dog, delta, stopped)
  PROVE  /\ moved \in Dog
         /\ moved.bag = dog.bag
         /\ moved.score = dog.score
         /\ moved.is_active = moved.moving
         /\ moved.moving = (dog.moving /\ ~stopped)
         /\ moved.inactive_time = IF moved.moving THEN 0 ELSE dog.inactive_time + delta
         /\ moved.live_time = IF dog.live_time + delta > MaxLive
                              THEN MaxLive ELSE dog.live_time + delta
  <1> DEFINE still == SetSpeed(dog, dog.moving /\ ~stopped)
             lived == UpdatePlayTime(still, delta)
  <1>1. (dog.moving /\ ~stopped) \in BOOLEAN
    BY DEF Dog
  <1>2. /\ still \in Dog /\ still.bag = dog.bag /\ still.score = dog.score
        /\ still.live_time = dog.live_time
        /\ still.is_active = (dog.moving /\ ~stopped)
        /\ still.moving = (dog.moving /\ ~stopped)
        /\ still.inactive_time = IF dog.moving /\ ~stopped THEN 0 ELSE dog.inactive_time
    BY <1>1, SetSpeedFacts
  <1>3. /\ lived \in Dog /\ lived.bag = dog.bag /\ lived.score = dog.score
        /\ lived.is_active = (dog.moving /\ ~stopped)
        /\ lived.moving = (dog.moving /\ ~stopped)
        /\ lived.inactive_time = still.inactive_time
        /\ lived.live_time = IF dog.live_time + delta > MaxLive
                             THEN MaxLive ELSE dog.live_time + delta
    BY <1>2, UpdatePlayTimeFacts
  <1>4. /\ lived.is_active => MoveDog(dog, delta, stopped) = lived
        /\ ~lived.is_active =>
              MoveDog(dog, delta, stopped) = UpdateInactiveTime(lived, delta)
    BY DEF MoveDog
  <1> HIDE DEF still, lived
  <1>5. CASE dog.moving /\ ~stopped
    BY <1>2, <1>3, <1>4, <1>5
  <1>6. CASE ~(dog.moving /\ ~stopped)
    <2> DEFINE idled == UpdateInactiveTime(lived, delta)
    <2>1. MoveDog(dog, delta, stopped) = idled
      BY <1>3, <1>4, <1>6
    <2>2. /\ idled \in Dog /\ idled.bag = lived.bag /\ idled.score = lived.score
          /\ idled.is_active = lived.is_active /\ idled.moving = lived.moving
          /\ idled.live_time = lived.live_time
          /\ idled.inactive_time = lived.inactive_time + delta
      BY <1>3, UpdateInactiveTimeFacts
    <2> HIDE DEF idled
    <2> QED
      BY <1>2, <1>3, <1>6, <2>1, <2>2
  <1> QED
    BY <1>5, <1>6

LEMMA MoveDogTimes ==
  ASSUME NEW dog \in Dog, NEW delta \in Nat, NEW stopped \in BOOLEAN
  PROVE  /\ MoveDog(dog, delta, stopped).is_active =>
               MoveDog(dog, delta, stopped).inactive_time = 0
         /\ MoveDog(dog, delta, stopped).inactive_time
               \in {0, dog.inactive_time + delta}
         /\ MoveDog(dog, delta, stopped).live_time =
               IF dog.live_time + delta > MaxLive THEN MaxLive ELSE dog.live_time + delta
  <1> DEFINE moved == MoveDog(dog, delta, stopped)
  <1>1. /\ moved.is_active = moved.moving
        /\ moved.inactive_time = IF moved.moving THEN 0 ELSE dog.inactive_time + delta
        /\ moved.live_time = IF dog.live_time + delta > MaxLive
                             THEN MaxLive ELSE dog.live_time + delta
    BY MoveDogFacts
  <1> HIDE DEF moved
  <1>2. /\ moved.is_active => moved.inactive_time = 0
        /\ moved.inactive_time \in {0, dog.inactive_time + delta}
    BY <1>1
  <1> QED
    BY <1>1, <1>2 DEF moved

LEMMA MoveDogKeepsBag ==
  ASSUME NEW dog \in Dog, NEW delta \in Nat, NEW stopped \in BOOLEAN
  PROVE  /\ MoveDog(dog, delta, stopped).bag = dog.bag
         /\ MoveDog(dog, delta, stopped).score = dog.score
  BY MoveDogFacts

(* Whole seconds: a time cut down to seconds is a natural number, and it   *)
(* reaches m seconds exactly when the time reaches m seconds' worth.       *)
LEMMA WholeSeconds ==
  ASSUME NEW t \in Nat, NEW m \in Nat
  PROVE  /\ t \div MsPerSecond \in Nat
         /\ t \div MsPerSecond >= m <=> t >= m * MsPerSecond
  <1> DEFINE s == t \div MsPerSecond
             r == t % MsPerSecond
  <1>1. MsPerSecond \in Nat /\ MsPerSecond > 0
    BY ConstantsAssumption
  <1>2. /\ s \in Int /\ r \in Int /\ 0 <= r /\ r < MsPerSecond
        /\ t = MsPerSecond * s + r
    BY <1>1, Z3
  <1> HIDE DEF s, r
  <1>3. s >= 0
    <2>1. SUFFICES ASSUME s <= -1 PROVE FALSE
      BY <1>2
    <2>2. MsPerSecond * s <= MsPerSecond * (-1)
      BY <1>1, <1>2, <2>1, Z3
    <2> QED
      BY <1>1, <1>2, <2>2, Z3
  <1>4. ASSUME s >= m PROVE t >= m * MsPerSecond
    <2>1. MsPerSecond * s >= MsPerSecond * m
      BY <1>1, <1>2, <1>4, Z3
    <2> QED
      BY <1>1, <1>2, <2>1, Z3
  <1>5. ASSUME s < m PROVE t < m * MsPerSecond
    <2>1. s + 1 <= m
      BY <1>2, <1>5
    <2>2. MsPerSecond * (s + 1) <= MsPerSecond * m
      BY <1>1, <1>2, <2>1, Z3
    <2> QED
      BY <1>1, <1>2, <2>2, Z3
  <1> QED
    BY <1>1, <1>2, <1>3, <1>4, <1>5, Z3 DEF s

-----------------------------------------------------------------------------
(* Type correctness.  Outside the gathering loop no event is pending, so   *)
(* that dogs may be erased without leaving events that name them.          *)

TypeInv == TypeOK /\ (phase # "gather" => events = {})

LEMMA LootIsFinite ==
  ASSUME TypeOK
  PROVE  /\ IsFiniteSet(lost_objects_) /\ Cardinality(lost_objects_) \in Nat
         /\ IsFiniteSet(DOMAIN dogs_) /\ Cardinality(DOMAIN dogs_) \in Nat
         /\ Shortage \in Nat
  <1>1. IsFiniteSet(lost_objects_)
    BY FS_Interval, FS_Subset, 0 \in Int, lost_object_id - 1 \in Int DEF TypeOK
  <1>2. IsFiniteSet(DOMAIN dogs_)
    BY FS_Interval, FS_Subset, 0 \in Int, dog_id - 1 \in Int DEF TypeOK
  <1> QED
    BY <1>1, <1>2, FS_CardinalityType DEF Shortage

LEMMA TypeInit == Init => TypeInv
  BY ConstantsAssumption DEF Init, TypeInv, TypeOK, Phase

LEMMA AddDogType ==
  ASSUME TypeInv, AddDog
  PROVE  TypeInv'
  <1>1. /\ dog_id' \in 0 .. MaxDogs
        /\ DOMAIN dogs_' = DOMAIN dogs_ \cup {dog_id}
        /\ DOMAIN dogs_' \subseteq 0 .. dog_id' - 1
    BY ConstantsAssumption DEF TypeInv, TypeOK, AddDog
  <1>2. \A d \in DOMAIN dogs_' : dogs_'[d] \in Dog
    BY NewDogType DEF TypeInv, TypeOK, AddDog
  <1>3. dogs_' \in [DOMAIN dogs_' -> Dog]
    BY <1>1, <1>2 DEF AddDog
  <1> QED
    BY <1>1, <1>3 DEF TypeInv, TypeOK, AddDog

LEMMA SetDogDirectionType ==
  ASSUME TypeInv, NEW d \in DOMAIN dogs_, NEW moving \in BOOLEAN,
         SetDogDirection(d, moving)
  PROVE  TypeInv'
  <1>1. SetSpeed(dogs_[d], moving) \in Dog
    BY SetSpeedFacts DEF TypeInv, TypeOK
  <1>2. dogs_' \in [DOMAIN dogs_ -> Dog] /\ DOMAIN dogs_' = DOMAIN dogs_
    BY <1>1 DEF TypeInv, TypeOK, SetDogDirection
  <1> QED
    BY <1>2 DEF TypeInv, TypeOK, SetDogDirection

LEMMA GenerateLootType ==
  ASSUME TypeInv, NEW n \in 1 .. Shortage, GenerateLoot(n)
  PROVE  TypeInv'
  <1>1. n \in Nat /\ n >= 1
    BY LootIsFinite DEF TypeInv
  <1>2. lost_object_id' \in 0 .. MaxLoot
    BY <1>1, ConstantsAssumption DEF TypeInv, TypeOK, GenerateLoot
  <1>3. lost_objects_' \subseteq 0 .. lost_object_id' - 1
    BY <1>1 DEF TypeInv, TypeOK, GenerateLoot
  <1> QED
    BY <1>2, <1>3 DEF TypeInv, TypeOK, GenerateLoot

LEMMA MoveDogsType ==
  ASSUME TypeInv, NEW delta \in Deltas, NEW stopped,
         NEW found \in SUBSET Encounters, MoveDogs(delta, stopped, found)
  PROVE  TypeInv'
  <1>1. ASSUME NEW d \in DOMAIN dogs_
        PROVE  MoveDog(dogs_[d], delta, d \in stopped) \in Dog
    <2>1. dogs_[d] \in Dog /\ delta \in Nat /\ (d \in stopped) \in BOOLEAN
      BY ConstantsAssumption DEF TypeInv, TypeOK
    <2> QED
      BY <2>1, MoveDogFacts
  <1>2. dogs_' \in [DOMAIN dogs_ -> Dog] /\ DOMAIN dogs_' = DOMAIN dogs_
    BY <1>1 DEF MoveDogs
  <1>3. events' \subseteq (DOMAIN dogs_) \X (Nat \cup Offices)
    BY DEF MoveDogs, Encounters, TypeInv, TypeOK
  <1> QED
    BY <1>2, <1>3 DEF TypeInv, TypeOK, MoveDogs, Phase

LEMMA GatherType ==
  ASSUME TypeInv, NEW d, NEW item, Gather(d, item)
  PROVE  TypeInv'
  <1>1. d \in DOMAIN dogs_ /\ item \in Nat \cup Offices /\ dogs_[d] \in Dog
    BY DEF TypeInv, TypeOK, Gather, TakeItem, VisitOffice
  <1>2. ClearBag(dogs_[d]) \in Dog
    BY <1>1 DEF ClearBag, Dog
  <1>3. item \notin Offices => AddItemToBag(dogs_[d], item) \in Dog
    BY <1>1 DEF AddItemToBag, Dog
  <1>4. dogs_' \in [DOMAIN dogs_ -> Dog] /\ DOMAIN dogs_' = DOMAIN dogs_
    BY <1>1, <1>2, <1>3 DEF TypeInv, TypeOK, Gather, TakeItem, VisitOffice
  <1>5. lost_objects_' \subseteq lost_objects_
    BY DEF Gather, TakeItem, VisitOffice
  <1> QED
    BY <1>4, <1>5 DEF TypeInv, TypeOK, Gather

LEMMA RetireDogsType ==
  ASSUME TypeInv, RetireDogs
  PROVE  TypeInv'
  <1>1. \A d \in Retired : /\ dogs_[d].score \in SUBSET Nat
                           /\ PlayTime(dogs_[d]) \in Nat
                           /\ d \in Nat
    BY WholeSeconds, 0 \in Nat DEF Retired, PlayTime, TypeInv, TypeOK, Dog
  <1>2. player_records' \subseteq PlayerRecord
    BY <1>1 DEF RetireDogs, RecordsOf, RecordOf, PlayerRecord
  <1>3. /\ dogs_' \in [DOMAIN dogs_ \ Retired -> Dog]
        /\ DOMAIN dogs_' = DOMAIN dogs_ \ Retired
    BY DEF RetireDogs, DogsWithout, TypeInv, TypeOK
  <1>4. events = {} /\ events' = {}
    BY DEF RetireDogs, TypeInv
  <1> QED
    BY <1>2, <1>3, <1>4 DEF TypeInv, TypeOK, RetireDogs, Phase

LEMMA TypeStep == TypeInv /\ [Next]_vars => TypeInv'
  <1> SUFFICES ASSUME TypeInv, [Next]_vars PROVE TypeInv'
    OBVIOUS
  <1>1. CASE AddDog
    BY <1>1, AddDogType
  <1>2. CASE \E d \in DOMAIN dogs_, moving \in BOOLEAN : SetDogDirection(d, moving)
    BY <1>2, SetDogDirectionType
  <1>3. CASE \E n \in 1 .. Shortage : GenerateLoot(n)
    BY <1>3, GenerateLootType
  <1>4. CASE \E delta \in Deltas :
               \E stopped \in SUBSET {d \in DOMAIN dogs_ : dogs_[d].moving} :
                 \E found \in SUBSET Encounters : MoveDogs(delta, stopped, found)
    BY <1>4, MoveDogsType
  <1>5. CASE \E e \in events : Gather(e[1], e[2])
    BY <1>5, GatherType
  <1>6. CASE EndGather
    BY <1>6 DEF TypeInv, TypeOK, EndGather, Phase
  <1>7. CASE RetireDogs
    BY <1>7, RetireDogsType
  <1>8. CASE CommitGameRecords
    BY <1>8 DEF TypeInv, TypeOK, CommitGameRecords, Phase
  <1>9. CASE CommitFails
    BY <1>9 DEF TypeInv, TypeOK, CommitFails, Phase
  <1>10. CASE UNCHANGED vars
    BY <1>10 DEF TypeInv, TypeOK, vars
  <1> QED
    BY <1>1, <1>2, <1>3, <1>4, <1>5, <1>6, <1>7, <1>8, <1>9, <1>10
    DEF Next, Tick

LEMMA TypeAlways == Spec => []TypeInv
  BY TypeInit, TypeStep, PTL DEF Spec

(* Every variable keeps its type, whatever the capacities and times.       *)
THEOREM TypeCorrect == Spec => []TypeOK
  <1>1. TypeInv => TypeOK
    BY DEF TypeInv
  <1> QED
    BY <1>1, TypeAlways, PTL

-----------------------------------------------------------------------------
(* Gathering.  A fresh id is in nobody's bag because everything gathered   *)
(* is below the counter; a second event for a taken item finds it off the  *)
(* map already and leaves it there.                                        *)

LootInv ==
    /\ \A d \in DOMAIN dogs_ :
          dogs_[d].bag \cup dogs_[d].score \subseteq 0 .. lost_object_id - 1
    /\ events \subseteq (DOMAIN dogs_) \X ((0 .. lost_object_id - 1) \cup Offices)
    /\ GatheredIsOffMap
    /\ BagWithinCapacity

LEMMA LootInit == Init => LootInv
  BY DEF Init, LootInv, GatheredIsOffMap, BagWithinCapacity

LEMMA LootUnderAddDog ==
  ASSUME TypeInv, LootInv, AddDog
  PROVE  LootInv'
  <1>1. /\ DOMAIN dogs_' = DOMAIN dogs_ \cup {dog_id}
        /\ dogs_'[dog_id] = NewDog
        /\ \A d \in DOMAIN dogs_ : dogs_'[d] = dogs_[d]
        /\ UNCHANGED <<lost_objects_, lost_object_id, events>>
    BY DEF AddDog, TypeInv, TypeOK
  <1>2. /\ NewDog.bag = {} /\ NewDog.score = {}
        /\ IsFiniteSet(NewDog.bag) /\ Cardinality(NewDog.bag) <= BagCapacity
    BY FS_EmptySet, ConstantsAssumption DEF NewDog
  <1>3. BagWithinCapacity'
    BY <1>1, <1>2 DEF LootInv, BagWithinCapacity
  <1>4. GatheredIsOffMap'
    BY <1>1, <1>2 DEF LootInv, GatheredIsOffMap
  <1> QED
    BY <1>1, <1>2, <1>3, <1>4 DEF LootInv

(* Steps after which every dog left has the bag and score it had.          *)
LEMMA LootUnderSameBags ==
  ASSUME LootInv,
         DOMAIN dogs_' \subseteq DOMAIN dogs_,
         \A d \in DOMAIN dogs_' : /\ dogs_'[d].bag = dogs_[d].bag
                                  /\ dogs_'[d].score = dogs_[d].score,
         events' \subseteq (DOMAIN dogs_') \X ((0 .. lost_object_id - 1) \cup Offices),
         UNCHANGED <<lost_objects_, lost_object_id>>
  PROVE  LootInv'
  BY DEF LootInv, GatheredIsOffMap, BagWithinCapacity

LEMMA LootUnderGenerateLoot ==
  ASSUME TypeInv, LootInv, NEW n \in 1 .. Shortage, GenerateLoot(n)
  PROVE  LootInv'
  <1>1. n \in Nat /\ n >= 1
    BY LootIsFinite DEF TypeInv
  <1>2. /\ lost_object_id' = lost_object_id + n
        /\ lost_objects_' = lost_objects_ \cup (lost_object_id .. lost_object_id + n - 1)
        /\ UNCHANGED <<dogs_, events>>
    BY DEF GenerateLoot
  <1>3. 0 .. lost_object_id - 1 \subseteq 0 .. lost_object_id' - 1
    BY <1>1, <1>2 DEF TypeInv, TypeOK
  <1>4. (0 .. lost_object_id - 1) \cap (lost_object_id .. lost_object_id + n - 1) = {}
    BY <1>1 DEF TypeInv, TypeOK
  <1>5. GatheredIsOffMap'
    BY <1>2, <1>4 DEF LootInv, GatheredIsOffMap
  <1> QED
    BY <1>2, <1>3, <1>5 DEF LootInv, BagWithinCapacity

LEMMA LootUnderGather ==
  ASSUME TypeInv, LootInv, NEW d, NEW item, Gather(d, item)
  PROVE  LootInv'
  <1>1. /\ d \in DOMAIN dogs_ /\ dogs_[d] \in Dog
        /\ item \in (0 .. lost_object_id - 1) \cup Offices
        /\ events' \subseteq events /\ lost_object_id' = lost_object_id
    BY DEF TypeInv, TypeOK, LootInv, Gather
  <1>2. CASE item \in Offices
    <2>1. /\ dogs_' = [dogs_ EXCEPT ![d] = ClearBag(@)]
          /\ UNCHANGED lost_objects_
      BY <1>2 DEF Gather, VisitOffice
    <2>2. /\ ClearBag(dogs_[d]).bag = {}
          /\ ClearBag(dogs_[d]).score = dogs_[d].score \cup dogs_[d].bag
          /\ IsFiniteSet(ClearBag(dogs_[d]).bag)
          /\ Cardinality(ClearBag(dogs_[d]).bag) <= BagCapacity
      BY <1>1, FS_EmptySet, ConstantsAssumption DEF ClearBag, Dog
    <2>3. /\ DOMAIN dogs_' = DOMAIN dogs_
          /\ dogs_'[d] = ClearBag(dogs_[d])
          /\ \A e \in DOMAIN dogs_ \ {d} : dogs_'[e] = dogs_[e]
      BY <1>1, <2>1 DEF TypeInv, TypeOK
    <2>4. BagWithinCapacity'
      BY <1>1, <2>2, <2>3 DEF LootInv, BagWithinCapacity
    <2>5. GatheredIsOffMap'
      BY <1>1, <2>1, <2>2, <2>3 DEF LootInv, GatheredIsOffMap
    <2> QED
      BY <1>1, <2>2, <2>3, <2>4, <2>5 DEF LootInv
  <1>3. CASE item \notin Offices /\ IsFullBag(dogs_[d])
    <2>1. UNCHANGED <<dogs_, lost_objects_>>
      BY <1>3 DEF Gather, TakeItem
    <2> QED
      BY <1>1, <2>1 DEF LootInv, GatheredIsOffMap, BagWithinCapacity
  <1>4. CASE item \notin Offices /\ ~IsFullBag(dogs_[d])
    <2>1. /\ dogs_' = [dogs_ EXCEPT ![d] = AddItemToBag(@, item)]
          /\ lost_objects_' = lost_objects_ \ {item}
      BY <1>4 DEF Gather, TakeItem
    <2>2. /\ AddItemToBag(dogs_[d], item).bag = dogs_[d].bag \cup {item}
          /\ AddItemToBag(dogs_[d], item).score = dogs_[d].score
      BY <1>1 DEF AddItemToBag, Dog
    <2>3. /\ DOMAIN dogs_' = DOMAIN dogs_
          /\ dogs_'[d] = AddItemToBag(dogs_[d], item)
          /\ \A e \in DOMAIN dogs_ \ {d} : dogs_'[e] = dogs_[e]
      BY <1>1, <2>1 DEF TypeInv, TypeOK
    <2>4. /\ IsFiniteSet(dogs_[d].bag \cup {item})
          /\ Cardinality(dogs_[d].bag \cup {item}) <= BagCapacity
      <3>1. IsFiniteSet(dogs_[d].bag) /\ Cardinality(dogs_[d].bag) < BagCapacity
        BY <1>1, <1>4, FS_CardinalityType, ConstantsAssumption
        DEF IsFullBag, LootInv, BagWithinCapacity
      <3>2. Cardinality(dogs_[d].bag) \in Nat
        BY <3>1, FS_CardinalityType
      <3>3. /\ IsFiniteSet(dogs_[d].bag \cup {item})
            /\ \/ Cardinality(dogs_[d].bag \cup {item}) = Cardinality(dogs_[d].bag)
               \/ Cardinality(dogs_[d].bag \cup {item}) = Cardinality(dogs_[d].bag) + 1
        BY <3>1, FS_AddElement
      <3> QED
        BY <3>1, <3>2, <3>3, ConstantsAssumption
    <2>5. BagWithinCapacity'
      BY <1>1, <2>2, <2>3, <2>4 DEF LootInv, BagWithinCapacity
    <2>6. GatheredIsOffMap'
      BY <1>1, <2>1, <2>2, <2>3 DEF LootInv, GatheredIsOffMap
    <2> QED
      BY <1>1, <1>4, <2>2, <2>3, <2>5, <2>6 DEF LootInv
  <1> QED
    BY <1>2, <1>3, <1>4

LEMMA LootStep == TypeInv /\ LootInv /\ [Next]_vars => LootInv'
  <1> SUFFICES ASSUME TypeInv, LootInv, [Next]_vars PROVE LootInv'
    OBVIOUS
  <1>1. CASE AddDog
    BY <1>1, LootUnderAddDog
  <1>2. ASSUME NEW d \in DOMAIN dogs_, NEW moving \in BOOLEAN, SetDogDirection(d, moving)
        PROVE  LootInv'
    <2>1. /\ dogs_[d] \in Dog /\ DOMAIN dogs_' = DOMAIN dogs_
          /\ dogs_'[d] = SetSpeed(dogs_[d], moving)
          /\ \A e \in DOMAIN dogs_ \ {d} : dogs_'[e] = dogs_[e]
          /\ UNCHANGED <<lost_objects_, lost_object_id, events>>
      BY <1>2 DEF TypeInv, TypeOK, SetDogDirection
    <2> QED
      BY <2>1, SetSpeedFacts, LootUnderSameBags DEF LootInv
  <1>3. CASE \E n \in 1 .. Shortage : GenerateLoot(n)
    BY <1>3, LootUnderGenerateLoot
  <1>4. ASSUME NEW delta \in Deltas, NEW stopped, NEW found \in SUBSET Encounters,
               MoveDogs(delta, stopped, found)
        PROVE  LootInv'
    <2>1. ASSUME NEW d \in DOMAIN dogs_
          PROVE  dogs_'[d].bag = dogs_[d].bag /\ dogs_'[d].score = dogs_[d].score
      <3>1. dogs_[d] \in Dog /\ delta \in Nat /\ (d \in stopped) \in BOOLEAN
        BY ConstantsAssumption DEF TypeInv, TypeOK
      <3>2. dogs_'[d] = MoveDog(dogs_[d], delta, d \in stopped)
        BY <1>4 DEF MoveDogs
      <3>3. /\ MoveDog(dogs_[d], delta, d \in stopped).bag = dogs_[d].bag
            /\ MoveDog(dogs_[d], delta, d \in stopped).score = dogs_[d].score
        BY <3>1, MoveDogKeepsBag
      <3> QED
        BY <3>2, <3>3
    <2>2. /\ DOMAIN dogs_' = DOMAIN dogs_
          /\ events' \subseteq (DOMAIN dogs_) \X ((0 .. lost_object_id - 1) \cup Offices)
          /\ UNCHANGED <<lost_objects_, lost_object_id>>
      BY <1>4 DEF MoveDogs, Encounters, TypeInv, TypeOK
    <2> QED
      BY <2>1, <2>2, LootUnderSameBags
  <1>5. CASE \E e \in events : Gather(e[1], e[2])
    BY <1>5, LootUnderGather
  <1>6. CASE RetireDogs
    <2>1. /\ DOMAIN dogs_' \subseteq DOMAIN dogs_
          /\ \A d \in DOMAIN dogs_' : dogs_'[d] = dogs_[d]
          /\ events' = {}
          /\ UNCHANGED <<lost_objects_, lost_object_id>>
      BY <1>6 DEF RetireDogs, DogsWithout, TypeInv
    <2> QED
      BY <2>1, LootUnderSameBags
  <1>7. CASE EndGather \/ CommitGameRecords \/ CommitFails \/ UNCHANGED vars
    BY <1>7 DEF EndGather, CommitGameRecords, CommitFails,
       vars, LootInv, GatheredIsOffMap, BagWithinCapacity
  <1> QED
    BY <1>1, <1>2, <1>3, <1>4, <1>5, <1>6, <1>7 DEF Next, Tick

LEMMA LootAlways == Spec => []LootInv
  BY TypeAlways, LootInit, LootStep, PTL DEF Spec

(* Whatever is gathered is off the map for good, for any number of dogs    *)
(* passing the same item in one tick and any order of their events.        *)
THEOREM GatheredStaysOffMap == Spec => []GatheredIsOffMap
  <1>1. LootInv => GatheredIsOffMap
    BY DEF LootInv
  <1> QED
    BY <1>1, LootAlways, PTL

(* No bag overflows, for any bag capacity, zero included.                  *)
THEOREM BagsNeverOverflow == Spec => []BagWithinCapacity
  <1>1. LootInv => BagWithinCapacity
    BY DEF LootInv
  <1> QED
    BY <1>1, LootAlways, PTL

-----------------------------------------------------------------------------
(* Records.  Ids of records lie below the counter, so a new dog has none;  *)
(* outside the commit no record is pending, so the records of one tick are *)
(* never mixed with those of the next.                                     *)

RecordInv ==
    /\ OneRecordPerDog
    /\ phase # "commit" => player_records = {}
    /\ Recorded \cup Leaving \subseteq 0 .. dog_id - 1
    /\ ~DbMayFail => NobodyLeavesUnrecorded

LEMMA RecordInit == Init => RecordInv
  BY DEF Init, RecordInv, OneRecordPerDog, Recorded, Leaving, NobodyLeavesUnrecorded

LEMMA RecordsUnderAddDog ==
  ASSUME TypeInv, RecordInv, AddDog
  PROVE  RecordInv'
  <1>1. /\ DOMAIN dogs_' = DOMAIN dogs_ \cup {dog_id}
        /\ dog_id \in Nat /\ dog_id' = dog_id + 1
        /\ UNCHANGED <<phase, player_records, hall_of_fame>>
    BY DEF AddDog, TypeInv, TypeOK
  <1>2. dog_id \notin Recorded \cup Leaving
    BY <1>1 DEF RecordInv
  <1>3. Recorded' = Recorded /\ Leaving' = Leaving
    BY <1>1 DEF Recorded, Leaving
  <1>4. OneRecordPerDog'
    BY <1>1, <1>2, <1>3 DEF RecordInv, OneRecordPerDog
  <1>5. ~DbMayFail => NobodyLeavesUnrecorded'
    BY <1>1, <1>3 DEF RecordInv, NobodyLeavesUnrecorded
  <1> QED
    BY <1>1, <1>3, <1>4, <1>5 DEF RecordInv

LEMMA RecordsUnderRetireDogs ==
  ASSUME TypeInv, RecordInv, RetireDogs
  PROVE  RecordInv'
  <1>1. /\ player_records = {} /\ Leaving = {}
        /\ UNCHANGED <<dog_id, hall_of_fame>>
    BY DEF RecordInv, RetireDogs, Leaving
  <1>2. DOMAIN dogs_' = DOMAIN dogs_ \ Retired /\ Retired \subseteq DOMAIN dogs_
    BY DEF RetireDogs, DogsWithout, Retired
  <1>3. /\ Leaving' = Retired
        /\ \A r, s \in player_records' : r.dog = s.dog => r = s
    <2>1. player_records' = {RecordOf(d) : d \in Retired}
      BY DEF RetireDogs, RecordsOf
    <2>2. \A d \in Retired : RecordOf(d).dog = d
      BY DEF RecordOf
    <2>3. Leaving' = {r.dog : r \in player_records'}
      BY DEF Leaving
    <2> QED
      BY <2>1, <2>2, <2>3
  <1>4. Recorded' = Recorded
    BY <1>1 DEF Recorded
  <1>5. \A r \in hall_of_fame', s \in player_records' : r.dog # s.dog
    <2>1. Recorded \cap Leaving' = {}
      BY <1>2, <1>3 DEF RecordInv, OneRecordPerDog
    <2> QED
      BY <1>4, <2>1 DEF Recorded, Leaving
  <1>6. OneRecordPerDog'
    BY <1>1, <1>2, <1>3, <1>4, <1>5 DEF RecordInv, OneRecordPerDog
  <1>7. phase' # "commit" => player_records' = {}
    BY DEF RetireDogs, RecordsOf
  <1>8. (Recorded \cup Leaving)' \subseteq 0 .. dog_id' - 1
    BY <1>1, <1>2, <1>3, <1>4 DEF RecordInv, TypeInv, TypeOK
  <1>9. ~DbMayFail => NobodyLeavesUnrecorded'
    BY <1>1, <1>2, <1>3, <1>4 DEF RecordInv, NobodyLeavesUnrecorded
  <1> QED
    BY <1>6, <1>7, <1>8, <1>9 DEF RecordInv

LEMMA RecordsUnderCommit ==
  ASSUME TypeInv, RecordInv, CommitGameRecords
  PROVE  RecordInv'
  <1>1. /\ hall_of_fame' = hall_of_fame \cup player_records
        /\ player_records' = {}
        /\ UNCHANGED <<dogs_, dog_id>>
    BY DEF CommitGameRecords
  <1>2. Recorded' = Recorded \cup Leaving /\ Leaving' = {}
    BY <1>1 DEF Recorded, Leaving
  <1> QED
    BY <1>1, <1>2 DEF RecordInv, OneRecordPerDog, NobodyLeavesUnrecorded

LEMMA RecordStep == TypeInv /\ RecordInv /\ [Next]_vars => RecordInv'
  <1> SUFFICES ASSUME TypeInv, RecordInv, [Next]_vars PROVE RecordInv'
    OBVIOUS
  <1>1. CASE AddDog
    BY <1>1, RecordsUnderAddDog
  <1>2. CASE RetireDogs
    BY <1>2, RecordsUnderRetireDogs
  <1>3. CASE CommitGameRecords
    BY <1>3, RecordsUnderCommit
  <1>4. CASE CommitFails
    BY <1>4 DEF CommitFails, RecordInv, OneRecordPerDog, Recorded, Leaving
  <1>5. ASSUME DOMAIN dogs_' = DOMAIN dogs_,
               UNCHANGED <<dog_id, player_records, hall_of_fame>>,
               phase' = phase \/ (phase' # "commit" /\ phase # "commit")
        PROVE  RecordInv'
    <2>1. Recorded' = Recorded /\ Leaving' = Leaving
      BY <1>5 DEF Recorded, Leaving
    <2> QED
      BY <1>5, <2>1 DEF RecordInv, OneRecordPerDog, NobodyLeavesUnrecorded
  <1>6. CASE \E d \in DOMAIN dogs_, moving \in BOOLEAN : SetDogDirection(d, moving)
    BY <1>5, <1>6 DEF SetDogDirection
  <1>7. CASE \E n \in 1 .. Shortage : GenerateLoot(n)
    BY <1>5, <1>7 DEF GenerateLoot
  <1>8. CASE \E delta \in Deltas :
               \E stopped \in SUBSET {d \in DOMAIN dogs_ : dogs_[d].moving} :
                 \E found \in SUBSET Encounters : MoveDogs(delta, stopped, found)
    BY <1>5, <1>8 DEF MoveDogs
  <1>9. CASE \E e \in events : Gather(e[1], e[2])
    BY <1>5, <1>9 DEF Gather, TakeItem, VisitOffice, TypeInv, TypeOK
  <1>10. CASE EndGather \/ UNCHANGED vars
    BY <1>5, <1>10 DEF EndGather, vars
  <1> QED
    BY <1>1, <1>2, <1>3, <1>4, <1>6, <1>7, <1>8, <1>9, <1>10 DEF Next, Tick

LEMMA RecordAlways == Spec => []RecordInv
  BY TypeAlways, RecordInit, RecordStep, PTL DEF Spec

(* A dog has one record at most, and only after it has left the game,      *)
(* however many leave in one tick and whoever joins in the meantime.       *)
THEOREM OneRecordEach == Spec => []OneRecordPerDog
  <1>1. RecordInv => OneRecordPerDog
    BY DEF RecordInv
  <1> QED
    BY <1>1, RecordAlways, PTL

(* With a database that never fails, every dog that ever joined is in play *)
(* or its record is on its way or in the table.                            *)
THEOREM EveryLeaverRecorded == ~DbMayFail /\ Spec => []NobodyLeavesUnrecorded
  <1> SUFFICES ASSUME ~DbMayFail PROVE Spec => []NobodyLeavesUnrecorded
    OBVIOUS
  <1>1. RecordInv => NobodyLeavesUnrecorded
    BY DEF RecordInv
  <1> QED
    BY <1>1, RecordAlways, PTL

-----------------------------------------------------------------------------
(* Idle time.  Between ticks a dog's idle time is below the limit, so the  *)
(* next tick cannot carry it past what live_time_ can still count: this is *)
(* why idle time never overtakes live time.                                *)

Limit == MaxInactive * MsPerSecond

IdleInv ==
    /\ \A d \in DOMAIN dogs_ :
          /\ dogs_[d].is_active => dogs_[d].inactive_time = 0
          /\ dogs_[d].inactive_time <= dogs_[d].live_time
          /\ dogs_[d].inactive_time <= MaxLive
          /\ phase \in {"ready", "commit"} =>
                dogs_[d].inactive_time = 0 \/ dogs_[d].inactive_time < Limit
    /\ \A r \in player_records \cup hall_of_fame : r.play_time >= MaxInactive

LEMMA LimitType == Limit \in Nat
  BY ConstantsAssumption DEF Limit

LEMMA HasPlayTimeMeans ==
  ASSUME NEW dog \in Dog
  PROVE  HasPlayTime(dog) <=> ~dog.is_active /\ dog.inactive_time >= Limit
  <1>1. dog.inactive_time \in Nat /\ MaxInactive \in Nat
    BY ConstantsAssumption DEF Dog
  <1> QED
    BY <1>1, WholeSeconds DEF HasPlayTime, Limit

LEMMA IdleInit == Init => IdleInv
  BY DEF Init, IdleInv

(* A dog as it may be between ticks.                                       *)
Rested(dog) ==
    /\ dog.is_active => dog.inactive_time = 0
    /\ dog.inactive_time <= dog.live_time
    /\ dog.inactive_time <= MaxLive
    /\ dog.inactive_time = 0 \/ dog.inactive_time < Limit

LEMMA IdleUnderRestedDogs ==
  ASSUME IdleInv, phase' \in {"ready", "commit"} \/ phase' = phase,
         \A d \in DOMAIN dogs_' : \/ d \in DOMAIN dogs_ /\ dogs_'[d] = dogs_[d]
                                  \/ Rested(dogs_'[d]),
         phase' # phase => \A d \in DOMAIN dogs_' : Rested(dogs_'[d]),
         \A r \in player_records' \cup hall_of_fame' : r.play_time >= MaxInactive
  PROVE  IdleInv'
  BY DEF IdleInv, Rested

LEMMA IdleUnderMoveDogs ==
  ASSUME TypeInv, IdleInv, NEW delta \in Deltas, NEW stopped, NEW found,
         MoveDogs(delta, stopped, found)
  PROVE  IdleInv'
  <1>1. ASSUME NEW d \in DOMAIN dogs_
        PROVE  /\ dogs_'[d].is_active => dogs_'[d].inactive_time = 0
               /\ dogs_'[d].inactive_time <= dogs_'[d].live_time
               /\ dogs_'[d].inactive_time <= MaxLive
    <2> DEFINE dog == dogs_[d]
               moved == MoveDog(dog, delta, d \in stopped)
    <2>1. dog \in Dog /\ delta \in Nat /\ (d \in stopped) \in BOOLEAN
      BY ConstantsAssumption DEF TypeInv, TypeOK
    <2>2. dogs_'[d] = moved
      BY DEF MoveDogs
    <2>3. /\ moved.is_active => moved.inactive_time = 0
          /\ moved.inactive_time \in {0, dog.inactive_time + delta}
          /\ moved.live_time = IF dog.live_time + delta > MaxLive
                               THEN MaxLive ELSE dog.live_time + delta
      BY <2>1, MoveDogTimes
    <2>4. /\ dog.inactive_time \in Nat /\ dog.live_time \in Nat /\ MaxLive \in Nat
          /\ dog.inactive_time <= dog.live_time
          /\ dog.inactive_time = 0 \/ dog.inactive_time < Limit
          /\ Limit + delta <= MaxLive
      BY <2>1, ConstantsAssumption, MaxLiveAssumption
      DEF IdleInv, MoveDogs, Dog, Limit
    <2>5. dog.inactive_time + delta <= MaxLive
      BY <2>1, <2>4, LimitType
    <2> HIDE DEF moved, dog
    <2> QED
      BY <2>1, <2>2, <2>3, <2>4, <2>5
  <1>2. /\ DOMAIN dogs_' = DOMAIN dogs_ /\ phase' = "gather"
        /\ UNCHANGED <<player_records, hall_of_fame>>
    BY DEF MoveDogs
  <1> QED
    BY <1>1, <1>2 DEF IdleInv

LEMMA IdleUnderGather ==
  ASSUME TypeInv, IdleInv, NEW d, NEW item, Gather(d, item)
  PROVE  IdleInv'
  <1>1. /\ d \in DOMAIN dogs_ /\ dogs_[d] \in Dog /\ phase = "gather"
        /\ UNCHANGED <<phase, player_records, hall_of_fame>>
    BY DEF TypeInv, TypeOK, Gather, TakeItem, VisitOffice
  <1>2. /\ DOMAIN dogs_' = DOMAIN dogs_
        /\ \A e \in DOMAIN dogs_ \ {d} : dogs_'[e] = dogs_[e]
        /\ dogs_'[d] \in {dogs_[d], ClearBag(dogs_[d]), AddItemToBag(dogs_[d], item)}
    BY <1>1 DEF TypeInv, TypeOK, Gather, TakeItem, VisitOffice
  <1>3. \A new \in {dogs_[d], ClearBag(dogs_[d]), AddItemToBag(dogs_[d], item)} :
           /\ new.is_active = dogs_[d].is_active
           /\ new.inactive_time = dogs_[d].inactive_time
           /\ new.live_time = dogs_[d].live_time
    BY <1>1 DEF ClearBag, AddItemToBag, Dog
  <1> QED
    BY <1>1, <1>2, <1>3 DEF IdleInv

LEMMA IdleUnderRetireDogs ==
  ASSUME TypeInv, IdleInv, RetireDogs
  PROVE  IdleInv'
  <1>1. ASSUME NEW d \in DOMAIN dogs_'
        PROVE  d \in DOMAIN dogs_ /\ dogs_'[d] = dogs_[d] /\ Rested(dogs_[d])
    <2>1. d \in DOMAIN dogs_ \ Retired /\ dogs_'[d] = dogs_[d] /\ dogs_[d] \in Dog
      BY DEF RetireDogs, DogsWithout, TypeInv, TypeOK
    <2>2. dogs_[d].inactive_time = 0 \/ dogs_[d].inactive_time < Limit
      BY <2>1, HasPlayTimeMeans, LimitType DEF Retired, Dog, IdleInv
    <2> QED
      BY <2>1, <2>2 DEF IdleInv, Rested
  <1>2. ASSUME NEW d \in Retired
        PROVE  PlayTime(dogs_[d]) >= MaxInactive
    <2>1. d \in DOMAIN dogs_ /\ dogs_[d] \in Dog
      BY DEF Retired, TypeInv, TypeOK
    <2>2. dogs_[d].live_time \in Nat /\ dogs_[d].inactive_time \in Nat
      BY <2>1 DEF Dog
    <2>3. dogs_[d].inactive_time >= Limit
      BY <2>1, HasPlayTimeMeans DEF Retired
    <2>4. dogs_[d].live_time >= Limit
      BY <2>1, <2>2, <2>3, LimitType DEF IdleInv
    <2> QED
      BY <2>2, <2>4, WholeSeconds, ConstantsAssumption DEF PlayTime, Limit
  <1>3. \A r \in player_records' : r.play_time >= MaxInactive
    BY <1>2 DEF RetireDogs, RecordsOf, RecordOf
  <1>4. phase' \in {"ready", "commit"} /\ UNCHANGED hall_of_fame
    BY DEF RetireDogs
  <1> QED
    BY <1>1, <1>3, <1>4 DEF IdleInv, Rested

LEMMA IdleStep == TypeInv /\ IdleInv /\ [Next]_vars => IdleInv'
  <1> SUFFICES ASSUME TypeInv, IdleInv, [Next]_vars PROVE IdleInv'
    OBVIOUS
  <1>1. CASE AddDog
    <2>1. /\ DOMAIN dogs_' = DOMAIN dogs_ \cup {dog_id}
          /\ dogs_'[dog_id] = NewDog
          /\ \A d \in DOMAIN dogs_ : dogs_'[d] = dogs_[d]
          /\ UNCHANGED <<phase, player_records, hall_of_fame>>
      BY <1>1 DEF AddDog, TypeInv, TypeOK
    <2>2. Rested(NewDog)
      BY ConstantsAssumption DEF Rested, NewDog
    <2> QED
      BY <2>1, <2>2, IdleUnderRestedDogs DEF IdleInv
  <1>2. ASSUME NEW d \in DOMAIN dogs_, NEW moving \in BOOLEAN, SetDogDirection(d, moving)
        PROVE  IdleInv'
    <2>1. /\ dogs_[d] \in Dog /\ DOMAIN dogs_' = DOMAIN dogs_ /\ phase = "ready"
          /\ dogs_'[d] = SetSpeed(dogs_[d], moving)
          /\ \A e \in DOMAIN dogs_ \ {d} : dogs_'[e] = dogs_[e]
          /\ UNCHANGED <<phase, player_records, hall_of_fame>>
      BY <1>2 DEF TypeInv, TypeOK, SetDogDirection
    <2>2. /\ dogs_'[d].live_time = dogs_[d].live_time
          /\ dogs_'[d].is_active = moving
          /\ dogs_'[d].inactive_time = IF moving THEN 0 ELSE dogs_[d].inactive_time
      BY <2>1, SetSpeedFacts
    <2>3. Rested(dogs_[d]) /\ dogs_[d].live_time \in Nat /\ MaxLive \in Nat
      BY <2>1, ConstantsAssumption DEF IdleInv, Rested, Dog
    <2>4. Rested(dogs_'[d])
      BY <2>2, <2>3 DEF Rested
    <2> QED
      BY <2>1, <2>4, IdleUnderRestedDogs DEF IdleInv
  <1>3. ASSUME NEW delta \in Deltas, NEW stopped, NEW found \in SUBSET Encounters,
               MoveDogs(delta, stopped, found)
        PROVE  IdleInv'
    BY <1>3, IdleUnderMoveDogs
  <1>4. CASE \E e \in events : Gather(e[1], e[2])
    BY <1>4, IdleUnderGather
  <1>5. CASE RetireDogs
    BY <1>5, IdleUnderRetireDogs
  <1>6. CASE CommitGameRecords \/ CommitFails
    BY <1>6 DEF CommitGameRecords, CommitFails, IdleInv
  <1>7. CASE \/ EndGather \/ UNCHANGED vars
             \/ \E n \in 1 .. Shortage : GenerateLoot(n)
    BY <1>7 DEF EndGather, GenerateLoot, vars, IdleInv
  <1> QED
    BY <1>1, <1>2, <1>3, <1>4, <1>5, <1>6, <1>7 DEF Next, Tick

LEMMA IdleAlways == Spec => []IdleInv
  BY TypeAlways, IdleInit, IdleStep, PTL DEF Spec

(* After a tick nobody is left who has been idle for the whole retirement  *)
(* time, whatever the time step and however the database answers.  (With a *)
(* retirement time of zero a dog told to stop is overdue until the tick.)  *)
THEOREM NobodyOverstays == MaxInactive > 0 /\ Spec => []NoOverstay
  <1> SUFFICES ASSUME MaxInactive > 0 PROVE Spec => []NoOverstay
    OBVIOUS
  <1>1. TypeInv /\ IdleInv => NoOverstay
    <2> SUFFICES ASSUME TypeInv, IdleInv, phase \in {"ready", "commit"},
                        NEW d \in DOMAIN dogs_, HasPlayTime(dogs_[d])
                 PROVE  FALSE
      BY DEF NoOverstay
    <2>1. dogs_[d] \in Dog
      BY DEF TypeInv, TypeOK
    <2>2. dogs_[d].inactive_time \in Nat
      BY <2>1 DEF Dog
    <2>3. Limit > 0
      BY ConstantsAssumption, Z3 DEF Limit
    <2> QED
      BY <2>1, <2>2, <2>3, HasPlayTimeMeans, LimitType DEF IdleInv
  <1> QED
    BY <1>1, TypeAlways, IdleAlways, PTL

(* No record says less play time than the retirement time.                 *)
THEOREM PlayTimesCoverIdleTimes == Spec => []PlayTimeCoversIdleTime
  <1>1. IdleInv => PlayTimeCoversIdleTime
    BY DEF IdleInv, PlayTimeCoversIdleTime
  <1> QED
    BY <1>1, IdleAlways, PTL

-----------------------------------------------------------------------------
(* Action properties.                                                      *)

LEMMA GatherEffect ==
  ASSUME TypeInv, NEW d, NEW item, Gather(d, item)
  PROVE  /\ d \in DOMAIN dogs_ /\ DOMAIN dogs_' = DOMAIN dogs_
         /\ \A e \in DOMAIN dogs_ \ {d} : dogs_'[e] = dogs_[e]
         /\ dogs_[d].bag \cup dogs_[d].score \subseteq dogs_'[d].bag \cup dogs_'[d].score
         /\ dogs_'[d].score \subseteq dogs_[d].bag \cup dogs_[d].score
         /\ lost_objects_' \subseteq lost_objects_
         /\ lost_objects_ \ lost_objects_' \subseteq dogs_'[d].bag
  <1>1. d \in DOMAIN dogs_ /\ dogs_[d] \in Dog
    BY DEF TypeInv, TypeOK, Gather, TakeItem, VisitOffice
  <1>2. /\ ClearBag(dogs_[d]).bag = {}
        /\ ClearBag(dogs_[d]).score = dogs_[d].score \cup dogs_[d].bag
        /\ AddItemToBag(dogs_[d], item).bag = dogs_[d].bag \cup {item}
        /\ AddItemToBag(dogs_[d], item).score = dogs_[d].score
    BY <1>1 DEF ClearBag, AddItemToBag, Dog
  <1>3. \/ /\ dogs_' = [dogs_ EXCEPT ![d] = ClearBag(@)]
           /\ lost_objects_' = lost_objects_
        \/ dogs_' = dogs_ /\ lost_objects_' = lost_objects_
        \/ /\ dogs_' = [dogs_ EXCEPT ![d] = AddItemToBag(@, item)]
           /\ lost_objects_' = lost_objects_ \ {item}
    BY DEF Gather, TakeItem, VisitOffice
  <1>4. /\ DOMAIN dogs_' = DOMAIN dogs_
        /\ \A e \in DOMAIN dogs_ \ {d} : dogs_'[e] = dogs_[e]
    BY <1>1, <1>3 DEF TypeInv, TypeOK
  <1>5. \/ dogs_'[d] = ClearBag(dogs_[d]) /\ lost_objects_' = lost_objects_
        \/ dogs_'[d] = dogs_[d] /\ lost_objects_' = lost_objects_
        \/ dogs_'[d] = AddItemToBag(dogs_[d], item) /\ lost_objects_' = lost_objects_ \ {item}
    BY <1>1, <1>3 DEF TypeInv, TypeOK
  <1> QED
    BY <1>1, <1>2, <1>4, <1>5

(* While a dog plays its worth never shrinks, and its score grows only by  *)
(* what it carried.                                                        *)
THEOREM WorthNeverShrinks == Spec => WorthOnlyGrows
  <1> DEFINE Grows == \A d \in DOMAIN dogs_ \cap DOMAIN dogs_' :
          /\ dogs_[d].bag \cup dogs_[d].score \subseteq dogs_'[d].bag \cup dogs_'[d].score
          /\ dogs_'[d].score \subseteq dogs_[d].bag \cup dogs_[d].score
  <1>1. TypeInv /\ [Next]_vars => Grows
    <2> SUFFICES ASSUME TypeInv, [Next]_vars PROVE Grows
      OBVIOUS
    <2>1. ASSUME \A d \in DOMAIN dogs_ \cap DOMAIN dogs_' :
                    dogs_'[d].bag = dogs_[d].bag /\ dogs_'[d].score = dogs_[d].score
          PROVE  Grows
      BY <2>1
    <2>2. CASE AddDog
      BY <2>1, <2>2 DEF AddDog, TypeInv, TypeOK
    <2>3. ASSUME NEW d \in DOMAIN dogs_, NEW moving \in BOOLEAN, SetDogDirection(d, moving)
          PROVE  Grows
      <3>1. /\ dogs_[d] \in Dog /\ DOMAIN dogs_' = DOMAIN dogs_
            /\ dogs_'[d] = SetSpeed(dogs_[d], moving)
            /\ \A e \in DOMAIN dogs_ \ {d} : dogs_'[e] = dogs_[e]
        BY <2>3 DEF TypeInv, TypeOK, SetDogDirection
      <3> QED
        BY <2>1, <3>1, SetSpeedFacts
    <2>4. ASSUME NEW delta \in Deltas, NEW stopped, NEW found,
                 MoveDogs(delta, stopped, found)
          PROVE  Grows
      <3>1. ASSUME NEW d \in DOMAIN dogs_
            PROVE  dogs_'[d].bag = dogs_[d].bag /\ dogs_'[d].score = dogs_[d].score
        <4>1. dogs_[d] \in Dog /\ delta \in Nat /\ (d \in stopped) \in BOOLEAN
          BY ConstantsAssumption DEF TypeInv, TypeOK
        <4>2. dogs_'[d] = MoveDog(dogs_[d], delta, d \in stopped)
          BY <2>4 DEF MoveDogs
        <4>3. /\ MoveDog(dogs_[d], delta, d \in stopped).bag = dogs_[d].bag
              /\ MoveDog(dogs_[d], delta, d \in stopped).score = dogs_[d].score
          BY <4>1, MoveDogKeepsBag
        <4> QED
          BY <4>2, <4>3
      <3> QED
        BY <2>1, <3>1
    <2>5. CASE \E e \in events : Gather(e[1], e[2])
      <3>1. PICK e \in events : Gather(e[1], e[2])
        BY <2>5
      <3> QED
        BY <3>1, GatherEffect
    <2>6. CASE RetireDogs
      BY <2>1, <2>6 DEF RetireDogs, DogsWithout
    <2>7. CASE \/ EndGather \/ CommitGameRecords \/ CommitFails \/ UNCHANGED vars
               \/ \E n \in 1 .. Shortage : GenerateLoot(n)
      BY <2>1, <2>7 DEF EndGather, CommitGameRecords, CommitFails,
         GenerateLoot, vars
    <2> QED
      BY <2>2, <2>3, <2>4, <2>5, <2>6, <2>7 DEF Next, Tick
  <1>2. Spec => [][Grows]_vars
    BY <1>1, TypeAlways, PTL DEF Spec
  <1> QED
    BY <1>2 DEF WorthOnlyGrows

(* Loot leaves the map only into a bag, and comes there only new.          *)
THEOREM LootOnlyMovesIntoBags == Spec => LootMovesIntoBags
  <1> DEFINE Moves ==
         /\ \A i \in lost_objects_ \ lost_objects_' :
               \E d \in DOMAIN dogs_' : i \in dogs_'[d].bag
         /\ \A i \in lost_objects_' \ lost_objects_ : i >= lost_object_id
  <1>1. TypeInv /\ [Next]_vars => Moves
    <2> SUFFICES ASSUME TypeInv, [Next]_vars PROVE Moves
      OBVIOUS
    <2>1. ASSUME UNCHANGED lost_objects_ PROVE Moves
      BY <2>1
    <2>2. ASSUME NEW n \in 1 .. Shortage, GenerateLoot(n) PROVE Moves
      <3>1. /\ n \in Nat /\ lost_object_id \in Nat
            /\ lost_objects_' = lost_objects_ \cup (lost_object_id .. lost_object_id + n - 1)
        BY <2>2, LootIsFinite DEF GenerateLoot, TypeInv, TypeOK
      <3> QED
        BY <3>1
    <2>3. CASE \E e \in events : Gather(e[1], e[2])
      <3>1. PICK e \in events : Gather(e[1], e[2])
        BY <2>3
      <3> QED
        BY <3>1, GatherEffect
    <2>4. CASE \E d \in DOMAIN dogs_, moving \in BOOLEAN : SetDogDirection(d, moving)
      BY <2>1, <2>4 DEF SetDogDirection
    <2>5. CASE \E delta \in Deltas :
                 \E stopped \in SUBSET {d \in DOMAIN dogs_ : dogs_[d].moving} :
                   \E found \in SUBSET Encounters : MoveDogs(delta, stopped, found)
      BY <2>1, <2>5 DEF MoveDogs
    <2>6. CASE \/ AddDog \/ EndGather \/ RetireDogs \/ CommitGameRecords
               \/ CommitFails \/ UNCHANGED vars
      BY <2>1, <2>6 DEF AddDog, EndGather, RetireDogs, CommitGameRecords,
         CommitFails, vars
    <2> QED
      BY <2>2, <2>3, <2>4, <2>5, <2>6 DEF Next, Tick
  <1>2. Spec => [][Moves]_vars
    BY <1>1, TypeAlways, PTL DEF Spec
  <1> QED
    BY <1>2 DEF LootMovesIntoBags

-----------------------------------------------------------------------------
(* GameSession implements the safety part of PlayerLifecycle: its initial  *)
(* states map to initial states, and each of its steps maps to a step of   *)
(* the lifecycle or to a stutter.  The map reads the records as functions  *)
(* from dogs to scores, which is sound because no dog has two records.     *)

OneEach(records) == \A r, s \in records : r.dog = s.dog => r = s

LEMMA FinalScoresDomain ==
  ASSUME NEW records
  PROVE  DOMAIN FinalScores(records) = {r.dog : r \in records}
  BY DEF FinalScores

LEMMA FinalScoresValue ==
  ASSUME NEW records, OneEach(records), NEW r \in records
  PROVE  FinalScores(records)[r.dog] = r.score
  <1>1. (CHOOSE s \in records : s.dog = r.dog) = r
    BY DEF OneEach
  <1> QED
    BY <1>1 DEF FinalScores

LEMMA FinalScoresOfNone == FinalScores({}) = Lifecycle!Nobody
  <1>1. {r.dog : r \in {}} = {}
    OBVIOUS
  <1> QED
    BY <1>1 DEF FinalScores, Lifecycle!Nobody

LEMMA FinalScoresOfSome ==
  ASSUME NEW records, records # {}
  PROVE  FinalScores(records) # Lifecycle!Nobody
  <1> PICK r \in records : TRUE
    OBVIOUS
  <1>1. r.dog \in DOMAIN FinalScores(records)
    BY FinalScoresDomain
  <1>2. DOMAIN Lifecycle!Nobody = {}
    BY DEF Lifecycle!Nobody
  <1> QED
    BY <1>1, <1>2

LEMMA FinalScoresOfUnion ==
  ASSUME NEW old, NEW new, OneEach(old \cup new)
  PROVE  FinalScores(old \cup new) = Lifecycle!Extend(FinalScores(old), FinalScores(new))
  <1> DEFINE all == FinalScores(old \cup new)
             ext == Lifecycle!Extend(FinalScores(old), FinalScores(new))
             dogs == {r.dog : r \in old} \cup {r.dog : r \in new}
  <1>1. OneEach(old) /\ OneEach(new)
    BY DEF OneEach
  <1>2. /\ DOMAIN all = dogs /\ all = [d \in dogs |-> all[d]]
    <2>1. {r.dog : r \in old \cup new} = dogs
      OBVIOUS
    <2> QED
      BY <2>1 DEF FinalScores
  <1>3. ext = [d \in dogs |-> IF d \in {r.dog : r \in new}
                              THEN FinalScores(new)[d] ELSE FinalScores(old)[d]]
    BY FinalScoresDomain DEF Lifecycle!Extend
  <1>4. ASSUME NEW d \in dogs PROVE all[d] = ext[d]
    <2>1. CASE d \in {r.dog : r \in new}
      <3>1. PICK r \in new : r.dog = d
        BY <2>1
      <3>2. FinalScores(new)[r.dog] = r.score /\ FinalScores(old \cup new)[r.dog] = r.score
        BY <1>1, FinalScoresValue
      <3> QED
        BY <1>3, <2>1, <3>1, <3>2
    <2>2. CASE d \notin {r.dog : r \in new}
      <3>1. PICK r \in old : r.dog = d
        BY <2>2
      <3>2. FinalScores(old)[r.dog] = r.score /\ FinalScores(old \cup new)[r.dog] = r.score
        BY <1>1, FinalScoresValue
      <3> QED
        BY <1>3, <2>2, <3>1, <3>2
    <2> QED
      BY <2>1, <2>2
  <1>5. ext = [d \in dogs |-> ext[d]]
    BY <1>3
  <1> HIDE DEF all, dogs, ext
  <1>6. all = ext
    BY <1>2, <1>4, <1>5
  <1> QED
    BY <1>6 DEF all, ext

-----------------------------------------------------------------------------
LEMMA LifecycleInit == Init => Lifecycle!Init
  BY FinalScoresOfNone DEF Init, Lifecycle!Init

LEMMA Entering ==
  ASSUME TypeInv, RecordInv, AddDog
  PROVE  \E p \in 0 .. MaxDogs - 1 : Lifecycle!Enter(p)
  <1>1. /\ dog_id \in 0 .. MaxDogs - 1
        /\ DOMAIN dogs_' = DOMAIN dogs_ \cup {dog_id}
        /\ UNCHANGED <<player_records, hall_of_fame>>
    BY ConstantsAssumption DEF AddDog, TypeInv, TypeOK
  <1>2. dog_id \notin DOMAIN dogs_ \cup Leaving \cup Recorded
    BY <1>1 DEF TypeInv, TypeOK, RecordInv
  <1>3. /\ DOMAIN FinalScores(player_records) = Leaving
        /\ DOMAIN FinalScores(hall_of_fame) = Recorded
    BY FinalScoresDomain DEF Leaving, Recorded
  <1>4. Lifecycle!Enter(dog_id)
    BY <1>1, <1>2, <1>3 DEF Lifecycle!Enter
  <1> QED
    BY <1>1, <1>4

LEMMA LeavingTogether ==
  ASSUME TypeInv, LootInv, RecordInv, RecordInv', RetireDogs
  PROVE  [Lifecycle!Next]_(Lifecycle!lifecycle)
  <1>1. /\ player_records = {} /\ hall_of_fame' = hall_of_fame
        /\ DOMAIN dogs_' = DOMAIN dogs_ \ Retired
        /\ Retired \subseteq DOMAIN dogs_
    BY DEF RetireDogs, DogsWithout, RecordInv, Retired
  <1>2. player_records' = {RecordOf(d) : d \in Retired}
    BY DEF RetireDogs, RecordsOf
  <1>3. \A d \in Retired : RecordOf(d).dog = d /\ RecordOf(d).score = dogs_[d].score
    BY DEF RecordOf
  <1>4. CASE Retired = {}
    <2>1. player_records' = {} /\ DOMAIN dogs_' = DOMAIN dogs_
      BY <1>1, <1>2, <1>4
    <2> QED
      BY <1>1, <2>1 DEF Lifecycle!lifecycle
  <1>5. CASE Retired # {}
    <2>1. DOMAIN FinalScores(player_records') = Retired
      <3>1. DOMAIN FinalScores(player_records') = {r.dog : r \in player_records'}
        BY FinalScoresDomain
      <3>2. {r.dog : r \in player_records'} = Retired
        BY <1>2, <1>3
      <3> QED
        BY <3>1, <3>2
    <2>2. ASSUME NEW d \in Retired
          PROVE  FinalScores(player_records')[d] \in SUBSET (0 .. MaxLoot - 1)
      <3>1. RecordOf(d) \in player_records' /\ OneEach(player_records')
        BY <1>2 DEF RecordInv, OneRecordPerDog, OneEach
      <3>2. FinalScores(player_records')[RecordOf(d).dog] = RecordOf(d).score
        BY <3>1, FinalScoresValue
      <3>3. dogs_[d].score \subseteq 0 .. lost_object_id - 1
        BY <1>1 DEF LootInv
      <3>4. 0 .. lost_object_id - 1 \subseteq 0 .. MaxLoot - 1
        BY ConstantsAssumption DEF TypeInv, TypeOK
      <3> QED
        BY <1>3, <3>2, <3>3, <3>4
    <2>3. FinalScores(player_records') \in [Retired -> SUBSET (0 .. MaxLoot - 1)]
      BY <2>1, <2>2 DEF FinalScores
    <2>4. Lifecycle!Leave(Retired)
      BY <1>1, <1>5, <2>3, FinalScoresOfNone DEF Lifecycle!Leave
    <2> QED
      BY <1>1, <2>4 DEF Lifecycle!Next
  <1> QED
    BY <1>4, <1>5

LEMMA Recording ==
  ASSUME RecordInv, CommitGameRecords
  PROVE  [Lifecycle!Next]_(Lifecycle!lifecycle)
  <1>1. /\ hall_of_fame' = hall_of_fame \cup player_records
        /\ player_records' = {} /\ dogs_' = dogs_
    BY DEF CommitGameRecords
  <1>2. CASE player_records = {}
    BY <1>1, <1>2 DEF Lifecycle!lifecycle
  <1>3. CASE player_records # {}
    <2>1. OneEach(hall_of_fame \cup player_records)
      BY DEF RecordInv, OneRecordPerDog, OneEach
    <2>2. FinalScores(hall_of_fame') =
            Lifecycle!Extend(FinalScores(hall_of_fame), FinalScores(player_records))
      BY <1>1, <2>1, FinalScoresOfUnion
    <2>3. /\ FinalScores(player_records) # Lifecycle!Nobody
          /\ FinalScores(player_records') = Lifecycle!Nobody
      BY <1>1, <1>3, FinalScoresOfNone, FinalScoresOfSome
    <2>4. Lifecycle!Record
      BY <1>1, <2>2, <2>3 DEF Lifecycle!Record
    <2> QED
      BY <2>4 DEF Lifecycle!Next
  <1> QED
    BY <1>2, <1>3

LEMMA Losing ==
  ASSUME CommitFails
  PROVE  [Lifecycle!Next]_(Lifecycle!lifecycle)
  <1>1. DbMayFail /\ player_records' = {} /\ UNCHANGED <<dogs_, hall_of_fame>>
    BY DEF CommitFails
  <1>2. CASE player_records = {}
    BY <1>1, <1>2 DEF Lifecycle!lifecycle
  <1>3. CASE player_records # {}
    <2>1. Lifecycle!LoseRecords
      BY <1>1, <1>3, FinalScoresOfNone, FinalScoresOfSome DEF Lifecycle!LoseRecords
    <2> QED
      BY <2>1 DEF Lifecycle!Next
  <1> QED
    BY <1>2, <1>3

LEMMA LifecycleStep ==
  TypeInv /\ LootInv /\ RecordInv /\ RecordInv' /\ [Next]_vars
     => [Lifecycle!Next]_(Lifecycle!lifecycle)
  <1> SUFFICES ASSUME TypeInv, LootInv, RecordInv, RecordInv', [Next]_vars
               PROVE  [Lifecycle!Next]_(Lifecycle!lifecycle)
    OBVIOUS
  <1>1. CASE AddDog
    BY <1>1, Entering DEF Lifecycle!Next
  <1>2. CASE RetireDogs
    BY <1>2, LeavingTogether
  <1>3. CASE CommitGameRecords
    BY <1>3, Recording
  <1>4. CASE CommitFails
    BY <1>4, Losing
  <1>5. ASSUME DOMAIN dogs_' = DOMAIN dogs_, UNCHANGED <<player_records, hall_of_fame>>
        PROVE  [Lifecycle!Next]_(Lifecycle!lifecycle)
    BY <1>5 DEF Lifecycle!lifecycle
  <1>6. CASE \E d \in DOMAIN dogs_, moving \in BOOLEAN : SetDogDirection(d, moving)
    BY <1>5, <1>6 DEF SetDogDirection
  <1>7. CASE \E n \in 1 .. Shortage : GenerateLoot(n)
    BY <1>5, <1>7 DEF GenerateLoot
  <1>8. CASE \E delta \in Deltas :
               \E stopped \in SUBSET {d \in DOMAIN dogs_ : dogs_[d].moving} :
                 \E found \in SUBSET Encounters : MoveDogs(delta, stopped, found)
    BY <1>5, <1>8 DEF MoveDogs
  <1>9. CASE \E e \in events : Gather(e[1], e[2])
    BY <1>5, <1>9 DEF Gather, TakeItem, VisitOffice, TypeInv, TypeOK
  <1>10. CASE EndGather \/ UNCHANGED vars
    BY <1>5, <1>10 DEF EndGather, vars
  <1> QED
    BY <1>1, <1>2, <1>3, <1>4, <1>6, <1>7, <1>8, <1>9, <1>10 DEF Next, Tick

(* Seen through its records, a session of any size does nothing that the   *)
(* lifecycle does not allow.                                               *)
THEOREM SessionImplementsLifecycle ==
  Spec => Lifecycle!Init /\ [][Lifecycle!Next]_(Lifecycle!lifecycle)
  BY LifecycleInit, LifecycleStep, TypeAlways, LootAlways, RecordAlways, PTL DEF Spec
=============================================================================
