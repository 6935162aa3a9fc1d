-------------------------- MODULE GameClientProofs --------------------------
(***************************************************************************)
(* Proofs about GameClient, for any number of players and objects, and     *)
(* however many replies are on their way.                                  *)
(***************************************************************************)
EXTENDS GameClient, FiniteSetTheorems, SequenceTheorems, WellFoundedInduction, TLAPS

(* A state as the server answers it, and an object of the scene.           *)
Answer == [bags : UNION {[P -> SUBSET Loot] : P \in SUBSET Player}, lost : SUBSET Loot]
Object == Loot \X (SUBSET Player) \X Nat

-----------------------------------------------------------------------------
(* The invariant, in parts.                                                *)

Typing ==
    /\ TypeOK
    /\ stateReplies \in Seq(Answer) /\ desiredState \in Answer
    /\ IsFiniteSet(scene)

(* The requests of the constructor are not repeated, so that no more       *)
(* replies come than are made room for.                                    *)
AskedOnce ==
    /\ "state" \in asking => stateReplies = <<>> /\ ~stateLoaded
    /\ "list" \in asking => listReplies = <<>> /\ ~playersLoaded

Blank ==
    ~started => /\ current = {} /\ scene = {}
                /\ \A p \in Player : DOMAIN held[p] = {}
                /\ DOMAIN lostObjects = {} /\ DOMAIN disappearingLoot = {}

(* An object is kept under the id of its loot.                             *)
Filed(objects) == \A l \in DOMAIN objects : objects[l] \in Object /\ objects[l][1] = l

Places ==
    /\ \A p \in Player : Filed(held[p])
    /\ Filed(lostObjects) /\ Filed(disappearingLoot)
    /\ HasOnePlace

Inv == Typing /\ AskedOnce /\ Blank /\ Places

-----------------------------------------------------------------------------
(* Sequences of replies.                                                   *)

LEMMA WithoutFacts ==
  ASSUME NEW S, NEW s \in Seq(S), NEW i \in 1 .. Len(s)
  PROVE  /\ Without(s, i) \in Seq(S)
         /\ Len(Without(s, i)) = Len(s) - 1
         /\ \A k \in 1 .. Len(s) - 1 : Without(s, i)[k] = IF k < i THEN s[k] ELSE s[k + 1]
  BY LenProperties DEF Without

LEMMA AppendFacts ==
  ASSUME NEW S, NEW s \in Seq(S), NEW e \in S
  PROVE  /\ Append(s, e) \in Seq(S)
         /\ Len(Append(s, e)) = Len(s) + 1
         /\ \A k \in 1 .. Len(s) : Append(s, e)[k] = s[k]
         /\ Append(s, e)[Len(s) + 1] = e
  BY AppendProperties, LenProperties

LEMMA FirstReply ==
  ASSUME NEW S, NEW e \in S
  PROVE  Len(<<>>) = 0 /\ Append(<<>>, e) \in Seq(S) /\ Len(Append(<<>>, e)) = 1
  OBVIOUS

LEMMA AnswerFacts ==
  /\ Unauthorized \in Answer
  /\ DOMAIN Unauthorized.bags = {} /\ Unauthorized.lost = {}
  /\ \A x \in Answer : /\ x.lost \subseteq Loot /\ DOMAIN x.bags \subseteq Player
                       /\ \A p \in DOMAIN x.bags : x.bags[p] \subseteq Loot
  <1>1. DOMAIN <<>> = {} /\ <<>> \in [{} -> SUBSET Loot]
    OBVIOUS
  <1>2. ASSUME NEW x \in Answer
        PROVE  /\ x.lost \subseteq Loot /\ DOMAIN x.bags \subseteq Player
               /\ \A p \in DOMAIN x.bags : x.bags[p] \subseteq Loot
    <2>1. PICK P \in SUBSET Player : x.bags \in [P -> SUBSET Loot]
      BY DEF Answer
    <2> QED
      BY <2>1 DEF Answer
  <1> QED
    BY <1>1, <1>2 DEF Unauthorized, Answer

LEMMA StateIsAnswer ==
  ASSUME TypeOK
  PROVE  State \in Answer
  <1>1. joined \in SUBSET Player
    BY DEF TypeOK
  <1>2. [p \in joined |-> bag[p]] \in [joined -> SUBSET Loot] /\ lost \in SUBSET Loot
    BY <1>1 DEF TypeOK
  <1> QED
    BY <1>1, <1>2, AnswerFacts DEF State, Answer

-----------------------------------------------------------------------------
(* Objects.                                                                *)

LEMMA FiniteImage ==
  ASSUME NEW f, IsFiniteSet(DOMAIN f)
  PROVE  IsFiniteSet({f[x] : x \in DOMAIN f})
  <1>1. [x \in DOMAIN f |-> f[x]] \in Surjection(DOMAIN f, {f[x] : x \in DOMAIN f})
    BY DEF Surjection
  <1> QED
    BY <1>1, FS_Surjection

(* There are finitely many objects at a time.                              *)
Bounded ==
    /\ \A p \in Player : DOMAIN held[p] \subseteq Loot
    /\ DOMAIN lostObjects \subseteq Loot /\ DOMAIN disappearingLoot \subseteq Loot

KnownIsFinite == IsFiniteSet(Held) /\ IsFiniteSet(Lying) /\ IsFiniteSet(Vanishing)

LEMMA KnownFinite == Bounded => KnownIsFinite
  <1> SUFFICES ASSUME Bounded
               PROVE  IsFiniteSet(Held) /\ IsFiniteSet(Lying) /\ IsFiniteSet(Vanishing)
    BY DEF KnownIsFinite
  <1> DEFINE bagOf == [p \in Player |-> {held[p][l] : l \in DOMAIN held[p]}]
  <1>1. \A objects : DOMAIN objects \subseteq Loot =>
           IsFiniteSet({objects[l] : l \in DOMAIN objects})
    <2> SUFFICES ASSUME NEW objects, DOMAIN objects \subseteq Loot
                 PROVE  IsFiniteSet({objects[l] : l \in DOMAIN objects})
      OBVIOUS
    <2>1. IsFiniteSet(DOMAIN objects)
      BY ConstantsAssumption, FS_Subset
    <2> QED
      BY <2>1, FiniteImage
  <1>2. IsFiniteSet(Lying) /\ IsFiniteSet(Vanishing)
    BY <1>1 DEF Lying, Vanishing, Bounded
  <1>3. IsFiniteSet(Held)
    <2>1. IsFiniteSet({bagOf[p] : p \in Player})
      <3>1. DOMAIN bagOf = Player
        OBVIOUS
      <3> HIDE DEF bagOf
      <3> QED
        BY <3>1, FiniteImage, ConstantsAssumption
    <2>2. \A b \in {bagOf[p] : p \in Player} : IsFiniteSet(b)
      BY <1>1 DEF Bounded
    <2>3. Held = UNION {bagOf[p] : p \in Player}
      BY DEF Held
    <2> HIDE DEF bagOf
    <2> QED
      BY <2>1, <2>2, <2>3, FS_UNION
  <1> QED
    BY <1>2, <1>3

LEMMA ObjectsFinite ==
  ASSUME Typing
  PROVE  IsFiniteSet(Objects)
  <1>1. Bounded
    BY DEF Typing, TypeOK, Bounded
  <1> QED
    BY <1>1, KnownFinite, FS_Union DEF Objects, Typing, KnownIsFinite

(* An object that is made is a new one.                                    *)
LEMMA NewObjectFacts ==
  ASSUME Typing, NEW l \in Loot, NEW whom \in SUBSET Player
  PROVE  /\ NewObject(l, whom) \in Object
         /\ NewObject(l, whom)[1] = l /\ NewObject(l, whom)[2] = whom
         /\ NewObject(l, whom) \notin Objects
  <1> DEFINE like == {x \in Objects : x[1] = l /\ x[2] = whom}
             number == [o \in like |-> o[3]]
             used == {o[3] : o \in like}
             n == CHOOSE m \in 0 .. Cardinality(used) : m \notin used
  <1>1. IsFiniteSet(used)
    <2>1. IsFiniteSet(like)
      BY ObjectsFinite, FS_Subset
    <2>2. DOMAIN number = like /\ used = {number[o] : o \in like}
      OBVIOUS
    <2> HIDE DEF like, used, number
    <2> QED
      BY <2>1, <2>2, FiniteImage
  <1>2. Cardinality(used) \in Nat
    BY <1>1, FS_CardinalityType
  <1>3. \E m \in 0 .. Cardinality(used) : m \notin used
    <2> HIDE DEF used
    <2>1. Cardinality(0 .. Cardinality(used)) = Cardinality(used) + 1
      BY <1>2, FS_Interval
    <2> SUFFICES ASSUME 0 .. Cardinality(used) \subseteq used PROVE FALSE
      OBVIOUS
    <2>2. Cardinality(0 .. Cardinality(used)) <= Cardinality(used)
      BY <1>1, FS_Subset
    <2> QED
      BY <1>2, <2>1, <2>2
  <1>4. n \in 0 .. Cardinality(used) /\ n \notin used
    <2> HIDE DEF used
    <2> QED
      BY <1>3
  <1>5. n \in Nat
    <2> HIDE DEF used, n
    <2> QED
      BY <1>2, <1>4
  <1>6. NewObject(l, whom) = <<l, whom, n>>
    BY DEF NewObject
  <1>7. <<l, whom, n>> \notin Objects
    <2> SUFFICES ASSUME <<l, whom, n>> \in Objects PROVE FALSE
      OBVIOUS
    <2> HIDE DEF n
    <2>1. <<l, whom, n>> \in like
      OBVIOUS
    <2>2. n \in used
      BY <2>1
    <2> QED
      BY <1>4, <2>2
  <1> HIDE DEF n
  <1> QED
    BY <1>5, <1>6, <1>7 DEF Object

-----------------------------------------------------------------------------
(* Of some players there is a first and a last one.                        *)

LEMMA FirstPlayer ==
  ASSUME NEW S, S \subseteq Player, S # {}
  PROVE  \E first \in S : \A p \in S : ~(p < first)
  <1>1. S \subseteq Nat
    BY ConstantsAssumption
  <1>2. PICK first \in S : \A p \in S : ~(<<p, first>> \in OpToRel(<, Nat))
    BY <1>1, WFMin, NatLessThanWellFounded
  <1> QED
    BY <1>1, <1>2 DEF OpToRel

LEMMA LastPlayer ==
  ASSUME NEW S, S \subseteq Player, S # {}
  PROVE  \E last \in S : \A p \in S : p <= last
  <1> DEFINE After(p) == {q \in S : p < q}
             afters == {After(p) : p \in S}
  <1>1. S \subseteq Nat /\ IsFiniteSet(S)
    BY ConstantsAssumption, FS_Subset
  <1>2. afters \subseteq FiniteSubsetsOf(S) /\ afters # {}
    <2>1. \A p \in S : After(p) \in SUBSET S /\ IsFiniteSet(After(p))
      BY <1>1, FS_Subset
    <2> QED
      BY <2>1 DEF FiniteSubsetsOf
  <1>3. PICK least \in afters : \A a \in afters : <<a, least>> \notin StrictSubsetOrdering(S)
    <2> HIDE DEF afters
    <2> QED
      BY <1>2, WFMin, FS_StrictSubsetOrderingWellFounded
  <1>4. PICK last \in S : least = After(last)
    BY <1>3
  <1>5. ASSUME NEW p \in S, last < p
        PROVE  FALSE
    <2>1. /\ \A q \in S : p < q => last < q
          /\ ~(p < p)
      <3>1. last \in Nat /\ p \in Nat /\ \A q \in S : q \in Nat
        BY <1>1
      <3> QED
        BY <3>1, <1>5
    <2>2. After(p) \subseteq After(last) /\ p \in After(last) /\ p \notin After(p)
      BY <1>5, <2>1
    <2>3. <<After(p), After(last)>> \in StrictSubsetOrdering(S)
      BY <2>2 DEF StrictSubsetOrdering
    <2> QED
      BY <1>3, <1>4, <2>3
  <1> QED
    BY <1>1, <1>5

-----------------------------------------------------------------------------
(* Where the objects of the page come from when a state is applied.        *)

Carries(p, l) == p \in current /\ l \in DOMAIN held[p]

LEMMA OldBagFacts ==
  ASSUME NEW p \in Player, NEW l
  PROVE  /\ l \in DOMAIN OldBag(p) <=> Carries(p, l)
         /\ Carries(p, l) => OldBag(p)[l] = held[p][l]
  BY DEF OldBag, Carries, NoObjects

LEMMA NewBagFacts ==
  ASSUME NEW x \in Answer, NEW p \in DOMAIN x.bags
  PROVE  /\ DOMAIN NewBag(x, p) = x.bags[p]
         /\ \A l \in x.bags[p] :
               \/ Carries(p, l) /\ NewBag(x, p)[l] = held[p][l]
               \/ ~Carries(p, l) /\ Takes(x, p, l) /\ NewBag(x, p)[l] = lostObjects[l]
               \/ ~Carries(p, l) /\ Creates(x, p, l) /\ NewBag(x, p)[l] = NewObject(l, {p})
  <1>1. DOMAIN NewBag(x, p) = x.bags[p]
    BY DEF NewBag
  <1>2. ASSUME NEW l \in x.bags[p]
        PROVE  \/ Carries(p, l) /\ NewBag(x, p)[l] = held[p][l]
               \/ ~Carries(p, l) /\ Takes(x, p, l) /\ NewBag(x, p)[l] = lostObjects[l]
               \/ ~Carries(p, l) /\ Creates(x, p, l) /\ NewBag(x, p)[l] = NewObject(l, {p})
    <2>1. p \in Player
      BY AnswerFacts
    <2>2. l \in Lacking(x, p) <=> ~Carries(p, l)
      BY <2>1, OldBagFacts DEF Lacking
    <2>3. CASE Carries(p, l)
      <3>1. l \in DOMAIN OldBag(p) /\ OldBag(p)[l] = held[p][l]
        BY <2>1, <2>3, OldBagFacts
      <3>2. ~Takes(x, p, l)
        BY <2>2, <2>3 DEF Takes
      <3>3. NewBag(x, p)[l] = OldBag(p)[l]
        BY <3>1, <3>2 DEF NewBag
      <3> QED
        BY <2>3, <3>1, <3>3
    <2>4. CASE ~Carries(p, l) /\ Takes(x, p, l)
      <3>1. l \notin DOMAIN OldBag(p)
        BY <2>1, <2>4, OldBagFacts
      <3>2. NewBag(x, p)[l] = lostObjects[l]
        BY <2>4, <3>1 DEF NewBag
      <3> QED
        BY <2>4, <3>2
    <2>5. CASE ~Carries(p, l) /\ ~Takes(x, p, l)
      <3>1. l \notin DOMAIN OldBag(p)
        BY <2>1, <2>5, OldBagFacts
      <3>2. NewBag(x, p)[l] = NewObject(l, {p})
        BY <2>5, <3>1 DEF NewBag
      <3>3. Creates(x, p, l)
        BY <2>2, <2>5 DEF Creates
      <3> QED
        BY <2>5, <3>2, <3>3
    <2> QED
      BY <2>3, <2>4, <2>5
  <1> QED
    BY <1>1, <1>2

(* At most one player takes an object from the map.                        *)
LEMMA TakesFacts ==
  ASSUME NEW x \in Answer, NEW p \in Player, NEW l, Takes(x, p, l)
  PROVE  /\ p \in DOMAIN x.bags /\ l \in x.bags[p] /\ ~Carries(p, l)
         /\ l \in DOMAIN lostObjects /\ l \notin x.lost
         /\ l \notin LeftOver(x)
         /\ \A q \in Player : Takes(x, q, l) => q = p
  <1>1. /\ p \in DOMAIN x.bags /\ l \in x.bags[p] /\ ~Carries(p, l)
        /\ l \in DOMAIN lostObjects /\ l \notin x.lost
    BY OldBagFacts DEF Takes, Abandoned, Lacking
  <1>2. l \notin LeftOver(x)
    BY DEF LeftOver
  <1>3. ASSUME NEW q \in Player, Takes(x, q, l)
        PROVE  q = p
    <2>1. l \in Lacking(x, p) /\ l \in Lacking(x, q)
      BY <1>3 DEF Takes
    <2>2. ~(q < p) /\ ~(p < q)
      BY <1>3, <2>1 DEF Takes
    <2>3. p \in Nat /\ q \in Nat
      BY ConstantsAssumption
    <2> QED
      BY <2>2, <2>3
  <1> QED
    BY <1>1, <1>2, <1>3

LEMMA DroppingFacts ==
  ASSUME NEW x \in Answer, NEW l
  PROVE  \A p : p \in Dropping(x, l) <=>
                   p \in DOMAIN x.bags /\ Carries(p, l) /\ l \notin x.bags[p]
  BY OldBagFacts, AnswerFacts DEF Dropping

LEMMA DroppedFacts ==
  ASSUME Typing, NEW x \in Answer
  PROVE  /\ \A l \in DOMAIN disappearingLoot \cup LeftOver(x) : l \in DOMAIN Dropped(x)
         /\ \A l : Dropping(x, l) # {} => l \in DOMAIN Dropped(x)
         /\ \A l \in DOMAIN Dropped(x) :
               \/ l \in LeftOver(x) /\ Dropped(x)[l] = lostObjects[l]
               \/ /\ l \notin LeftOver(x)
                  /\ \E p \in Dropping(x, l) : Dropped(x)[l] = held[p][l]
               \/ /\ l \notin LeftOver(x) /\ Dropping(x, l) = {}
                  /\ l \in DOMAIN disappearingLoot /\ Dropped(x)[l] = disappearingLoot[l]
  <1>1. \A l \in DOMAIN disappearingLoot \cup LeftOver(x) : l \in DOMAIN Dropped(x)
    BY DEF Dropped
  <1>2. ASSUME NEW l, Dropping(x, l) # {}
        PROVE  l \in DOMAIN Dropped(x)
    <2>1. l \in Loot
      BY <1>2, DroppingFacts, AnswerFacts DEF Carries, Typing, TypeOK
    <2> QED
      BY <1>2, <2>1 DEF Dropped
  <1>3. ASSUME NEW l \in DOMAIN Dropped(x)
        PROVE  \/ l \in LeftOver(x) /\ Dropped(x)[l] = lostObjects[l]
               \/ /\ l \notin LeftOver(x)
                  /\ \E p \in Dropping(x, l) : Dropped(x)[l] = held[p][l]
               \/ /\ l \notin LeftOver(x) /\ Dropping(x, l) = {}
                  /\ l \in DOMAIN disappearingLoot /\ Dropped(x)[l] = disappearingLoot[l]
    <2>1. CASE l \in LeftOver(x)
      BY <1>3, <2>1 DEF Dropped
    <2>2. CASE l \notin LeftOver(x) /\ Dropping(x, l) # {}
      <3> DEFINE last == CHOOSE p \in Dropping(x, l) : \A q \in Dropping(x, l) : q <= p
      <3>1. Dropping(x, l) \subseteq Player
        BY DroppingFacts, AnswerFacts
      <3>2. last \in Dropping(x, l)
        BY <2>2, <3>1, LastPlayer
      <3>3. Dropped(x)[l] = held[last][l]
        BY <1>3, <2>2 DEF Dropped
      <3> HIDE DEF last
      <3> QED
        BY <2>2, <3>2, <3>3
    <2>3. CASE l \notin LeftOver(x) /\ Dropping(x, l) = {}
      BY <1>3, <2>3 DEF Dropped
    <2> QED
      BY <2>1, <2>2, <2>3
  <1> QED
    BY <1>1, <1>2, <1>3

(* What a player holds then, an object it held, took from the map or got.  *)
Kept(x, p, l) ==
    /\ l \in DOMAIN held[p] /\ held'[p][l] = held[p][l]
    /\ p \in DOMAIN x.bags => p \in current /\ l \in x.bags[p]
Taken(x, p, l) == Takes(x, p, l) /\ held'[p][l] = lostObjects[l]
Made(x, p, l) ==
    /\ p \in DOMAIN x.bags /\ l \in x.bags[p] /\ ~Carries(p, l)
    /\ Creates(x, p, l) /\ held'[p][l] = NewObject(l, {p})

LEMMA HeldNext ==
  ASSUME Typing, NEW x \in Answer, ApplyState(x)
  PROVE  /\ DOMAIN held' = Player
         /\ \A p \in DOMAIN x.bags : DOMAIN held'[p] = x.bags[p]
         /\ \A p \in Player \ DOMAIN x.bags :
               DOMAIN held'[p] # {} => p \in players' /\ held'[p] = held[p]
         /\ \A p \in Player \ DOMAIN x.bags : p \in players' => held'[p] = held[p]
         /\ \A p \in Player : \A l \in DOMAIN held'[p] :
               Kept(x, p, l) \/ Taken(x, p, l) \/ Made(x, p, l)
  <1>1. DOMAIN held' = Player
    BY DEF ApplyState
  <1>2. \A p \in DOMAIN x.bags : p \in Player /\ held'[p] = NewBag(x, p)
    BY AnswerFacts DEF ApplyState
  <1>3. \A p \in Player \ DOMAIN x.bags :
           /\ p \in players' => held'[p] = held[p]
           /\ p \notin players' => held'[p] = <<>>
    BY DEF ApplyState, NoObjects
  <1>4. ASSUME NEW p \in Player, NEW l \in DOMAIN held'[p]
        PROVE  Kept(x, p, l) \/ Taken(x, p, l) \/ Made(x, p, l)
    <2>1. CASE p \in DOMAIN x.bags
      <3>1. held'[p] = NewBag(x, p)
        BY <1>2, <2>1
      <3>2. l \in x.bags[p]
        BY <1>4, <2>1, <3>1, NewBagFacts
      <3>3. \/ Carries(p, l) /\ NewBag(x, p)[l] = held[p][l]
            \/ ~Carries(p, l) /\ Takes(x, p, l) /\ NewBag(x, p)[l] = lostObjects[l]
            \/ ~Carries(p, l) /\ Creates(x, p, l) /\ NewBag(x, p)[l] = NewObject(l, {p})
        BY <2>1, <3>2, NewBagFacts
      <3> QED
        BY <2>1, <3>1, <3>2, <3>3 DEF Kept, Taken, Made, Carries
    <2>2. CASE p \notin DOMAIN x.bags
      <3>1. held'[p] = held[p]
        BY <1>3, <1>4, <2>2
      <3> QED
        BY <1>4, <2>2, <3>1 DEF Kept
    <2> QED
      BY <2>1, <2>2
  <1>5. \A p \in DOMAIN x.bags : DOMAIN held'[p] = x.bags[p]
    BY <1>2, NewBagFacts
  <1> QED
    BY <1>1, <1>3, <1>4, <1>5

LEMMA LostNext ==
  ASSUME NEW x \in Answer, ApplyState(x)
  PROVE  /\ DOMAIN lostObjects' = x.lost
         /\ \A l \in x.lost :
               \/ l \in DOMAIN lostObjects /\ lostObjects'[l] = lostObjects[l]
               \/ l \notin DOMAIN lostObjects /\ lostObjects'[l] = NewObject(l, {})
  BY DEF ApplyState

(* The objects there were before, by who knows them.                       *)
LEMMA KnownObjects ==
  ASSUME Typing, Places
  PROVE  /\ \A p \in Player : \A l \in DOMAIN held[p] :
               /\ l \in Loot /\ held[p][l] \in Object /\ held[p][l][1] = l
               /\ held[p][l] \in Held /\ held[p][l] \in Objects
         /\ \A l \in DOMAIN lostObjects :
               /\ l \in Loot /\ lostObjects[l] \in Object /\ lostObjects[l][1] = l
               /\ lostObjects[l] \in Lying /\ lostObjects[l] \in Objects
         /\ \A l \in DOMAIN disappearingLoot :
               /\ l \in Loot /\ disappearingLoot[l] \in Object /\ disappearingLoot[l][1] = l
               /\ disappearingLoot[l] \in Vanishing /\ disappearingLoot[l] \in Objects
  <1>1. ASSUME NEW p \in Player, NEW l \in DOMAIN held[p]
        PROVE  held[p][l] \in Held /\ l \in Loot
    BY DEF Held, Typing, TypeOK
  <1>2. \A l \in DOMAIN lostObjects : l \in Loot /\ lostObjects[l] \in Lying
    BY DEF Lying, Typing, TypeOK
  <1>3. \A l \in DOMAIN disappearingLoot : l \in Loot /\ disappearingLoot[l] \in Vanishing
    BY DEF Vanishing, Typing, TypeOK
  <1> QED
    BY <1>1, <1>2, <1>3 DEF Places, Filed, Objects

(* The object a player holds under l, and one on the map, are what they    *)
(* are said to be, wherever they come from.                                *)
LEMMA NextObjects ==
  ASSUME Typing, Places, NEW x \in Answer, ApplyState(x)
  PROVE  /\ \A p \in Player : \A l \in DOMAIN held'[p] :
               l \in Loot /\ held'[p][l] \in Object /\ held'[p][l][1] = l
         /\ \A p \in Player : \A l \in DOMAIN held'[p] : Made(x, p, l) =>
               held'[p][l][2] = {p} /\ held'[p][l] \notin Objects
         /\ \A l \in x.lost :
               l \in Loot /\ lostObjects'[l] \in Object /\ lostObjects'[l][1] = l
         /\ \A l \in x.lost : l \notin DOMAIN lostObjects =>
               lostObjects'[l][2] = {} /\ lostObjects'[l] \notin Objects
         /\ \A l \in DOMAIN Dropped(x) :
               l \in Loot /\ Dropped(x)[l] \in Object /\ Dropped(x)[l][1] = l
  <1>1. ASSUME NEW p \in Player, NEW l \in DOMAIN held'[p]
        PROVE  /\ l \in Loot /\ held'[p][l] \in Object /\ held'[p][l][1] = l
               /\ Made(x, p, l) => held'[p][l][2] = {p} /\ held'[p][l] \notin Objects
    <2>1. ASSUME Made(x, p, l)
          PROVE  /\ l \in Loot /\ held'[p][l] \in Object /\ held'[p][l][1] = l
                 /\ held'[p][l][2] = {p} /\ held'[p][l] \notin Objects
      <3>1. l \in Loot /\ {p} \in SUBSET Player
        BY <2>1, AnswerFacts DEF Made
      <3> QED
        BY <2>1, <3>1, NewObjectFacts DEF Made
    <2>2. Kept(x, p, l) \/ Taken(x, p, l) \/ Made(x, p, l)
      BY <1>1, HeldNext
    <2>3. ASSUME Kept(x, p, l)
          PROVE  l \in Loot /\ held'[p][l] \in Object /\ held'[p][l][1] = l
      BY <2>3, KnownObjects DEF Kept
    <2>4. ASSUME Taken(x, p, l)
          PROVE  l \in Loot /\ held'[p][l] \in Object /\ held'[p][l][1] = l
      BY <2>4, KnownObjects, TakesFacts DEF Taken
    <2> QED
      BY <2>1, <2>2, <2>3, <2>4
  <1>2. ASSUME NEW l \in x.lost
        PROVE  /\ l \in Loot /\ lostObjects'[l] \in Object /\ lostObjects'[l][1] = l
               /\ l \notin DOMAIN lostObjects =>
                     lostObjects'[l][2] = {} /\ lostObjects'[l] \notin Objects
    <2>1. l \in Loot /\ {} \in SUBSET Player
      BY AnswerFacts
    <2>2. CASE l \in DOMAIN lostObjects
      BY <1>2, <2>2, LostNext, KnownObjects
    <2>3. CASE l \notin DOMAIN lostObjects
      <3>1. lostObjects'[l] = NewObject(l, {})
        BY <1>2, <2>3, LostNext
      <3> QED
        BY <2>1, <2>3, <3>1, NewObjectFacts
    <2> QED
      BY <2>2, <2>3
  <1>3. ASSUME NEW l \in DOMAIN Dropped(x)
        PROVE  l \in Loot /\ Dropped(x)[l] \in Object /\ Dropped(x)[l][1] = l
    <2>1. l \in LeftOver(x) => l \in DOMAIN lostObjects
      BY DEF LeftOver, Abandoned
    <2>2. \A p \in Dropping(x, l) : p \in Player /\ l \in DOMAIN held[p]
      BY DroppingFacts, AnswerFacts DEF Carries
    <2> QED
      BY <1>3, <2>1, <2>2, DroppedFacts, KnownObjects
  <1> QED
    BY <1>1, <1>2, <1>3

-----------------------------------------------------------------------------
(* Each object keeps one place when a state is applied.                    *)

(* HasOnePlace, told of what is kept under one id.                         *)
OnePlace ==
    /\ \A l \in DOMAIN lostObjects \cap DOMAIN disappearingLoot :
          lostObjects[l] # disappearingLoot[l]
    /\ \A p \in Player : \A l \in DOMAIN held[p] \cap DOMAIN lostObjects :
          held[p][l] # lostObjects[l]
    /\ \A p \in Player : \A l \in DOMAIN held[p] \cap DOMAIN disappearingLoot :
          held[p][l] # disappearingLoot[l]
    /\ \A p, q \in Player : \A l \in DOMAIN held[p] \cap DOMAIN held[q] :
          held[p][l] = held[q][l] => p = q

AllFiled == (\A p \in Player : Filed(held[p])) /\ Filed(lostObjects) /\ Filed(disappearingLoot)

LEMMA OnePlaceFacts == AllFiled => (HasOnePlace <=> OnePlace)
  <1> SUFFICES ASSUME AllFiled
               PROVE  HasOnePlace <=> OnePlace
    OBVIOUS
  <1>1. /\ \A p \in Player : \A l \in DOMAIN held[p] : held[p][l][1] = l
        /\ \A l \in DOMAIN lostObjects : lostObjects[l][1] = l
        /\ \A l \in DOMAIN disappearingLoot : disappearingLoot[l][1] = l
    BY DEF AllFiled, Filed
  <1>2. Lying \cap Vanishing = {} <=>
           \A l \in DOMAIN lostObjects \cap DOMAIN disappearingLoot :
              lostObjects[l] # disappearingLoot[l]
    BY <1>1 DEF Lying, Vanishing
  <1>3. \A o : o \in Held <=> \E p \in Player : \E l \in DOMAIN held[p] : o = held[p][l]
    BY DEF Held
  <1>4. Held \cap Lying = {} <=>
           \A p \in Player : \A l \in DOMAIN held[p] \cap DOMAIN lostObjects :
              held[p][l] # lostObjects[l]
    <2>1. \A o : o \in Lying <=> \E l \in DOMAIN lostObjects : o = lostObjects[l]
      BY DEF Lying
    <2>2. \A p \in Player : \A l \in DOMAIN held[p] : \A m \in DOMAIN lostObjects :
             held[p][l] = lostObjects[m] => l = m
      BY <1>1
    <2>3. Held \cap Lying = {} <=>
             \A p \in Player : \A l \in DOMAIN held[p] : \A m \in DOMAIN lostObjects :
                held[p][l] # lostObjects[m]
      BY <1>3, <2>1
    <2> QED
      BY <2>2, <2>3
  <1>5. Held \cap Vanishing = {} <=>
           \A p \in Player : \A l \in DOMAIN held[p] \cap DOMAIN disappearingLoot :
              held[p][l] # disappearingLoot[l]
    BY <1>1, <1>3 DEF Vanishing
  <1>6. (\A p, q \in Player : \A l \in DOMAIN held[p] : \A m \in DOMAIN held[q] :
            held[p][l] = held[q][m] => p = q /\ l = m)
        <=> \A p, q \in Player : \A l \in DOMAIN held[p] \cap DOMAIN held[q] :
               held[p][l] = held[q][l] => p = q
    BY <1>1
  <1> QED
    BY <1>2, <1>4, <1>5, <1>6 DEF HasOnePlace, OnePlace

LEMMA ApplyStatePlaces ==
  ASSUME Typing, Places, NEW x \in Answer, ApplyState(x)
  PROVE  Places'
  <1> DEFINE dropped == Dropped(x)
  <1>1. AllFiled /\ OnePlace
    BY OnePlaceFacts DEF Places, AllFiled
  <1>2. DOMAIN lostObjects' = x.lost /\ disappearingLoot' = dropped
    BY LostNext DEF ApplyState
  <1>3. AllFiled'
    BY <1>2, NextObjects DEF AllFiled, Filed
  <1>4. ASSUME NEW l \in x.lost, l \in DOMAIN dropped
        PROVE  lostObjects'[l] # dropped[l]
    <2>1. l \notin LeftOver(x)
      BY <1>4 DEF LeftOver, Abandoned
    <2>2. dropped[l] \in Objects
      BY <1>4, <2>1, DroppedFacts, DroppingFacts, AnswerFacts, KnownObjects DEF Carries
    <2>3. CASE l \notin DOMAIN lostObjects
      BY <1>4, <2>2, <2>3, NextObjects
    <2>4. CASE l \in DOMAIN lostObjects
      <3>1. lostObjects'[l] = lostObjects[l]
        BY <1>4, <2>4, LostNext
      <3>2. \A p \in Dropping(x, l) : p \in Player /\ l \in DOMAIN held[p]
        BY DroppingFacts, AnswerFacts DEF Carries
      <3> QED
        BY <1>1, <1>4, <2>1, <2>4, <3>1, <3>2, DroppedFacts DEF OnePlace
    <2> QED
      BY <2>3, <2>4
  <1>5. ASSUME NEW p \in Player, NEW l \in DOMAIN held'[p], l \in x.lost
        PROVE  held'[p][l] # lostObjects'[l]
    <2>1. ~Taken(x, p, l)
      BY <1>5, TakesFacts DEF Taken
    <2>2. CASE Kept(x, p, l)
      <3>1. CASE l \in DOMAIN lostObjects
        BY <1>1, <1>5, <2>2, <3>1, LostNext DEF Kept, OnePlace
      <3>2. CASE l \notin DOMAIN lostObjects
        BY <1>5, <2>2, <3>2, KnownObjects, NextObjects DEF Kept
      <3> QED
        BY <3>1, <3>2
    <2>3. CASE Made(x, p, l)
      <3>1. held'[p][l][2] = {p} /\ held'[p][l] \notin Objects
        BY <1>5, <2>3, NextObjects
      <3>2. CASE l \in DOMAIN lostObjects
        BY <1>5, <3>1, <3>2, KnownObjects, LostNext
      <3>3. CASE l \notin DOMAIN lostObjects
        <4>1. lostObjects'[l][2] = {}
          BY <1>5, <3>3, NextObjects
        <4> QED
          BY <3>1, <4>1
      <3> QED
        BY <3>2, <3>3
    <2> QED
      BY <1>5, <2>1, <2>2, <2>3, HeldNext
  <1>6. ASSUME NEW p \in Player, NEW l \in DOMAIN held'[p], l \in DOMAIN dropped
        PROVE  held'[p][l] # dropped[l]
    <2>1. \/ l \in LeftOver(x) /\ dropped[l] = lostObjects[l]
          \/ \E q \in Dropping(x, l) : dropped[l] = held[q][l]
          \/ l \in DOMAIN disappearingLoot /\ dropped[l] = disappearingLoot[l]
      BY <1>6, DroppedFacts
    <2>2. l \in LeftOver(x) => l \in DOMAIN lostObjects
      BY DEF LeftOver, Abandoned
    <2>3. \A q \in Dropping(x, l) :
             q \in Player /\ q \in DOMAIN x.bags /\ l \in DOMAIN held[q] /\ l \notin x.bags[q]
      BY DroppingFacts, AnswerFacts DEF Carries
    <2>4. dropped[l] \in Objects
      BY <2>1, <2>2, <2>3, KnownObjects
    <2>5. CASE Made(x, p, l)
      BY <1>6, <2>4, <2>5, NextObjects
    <2>6. CASE Kept(x, p, l)
      <3>1. l \in DOMAIN held[p] /\ held'[p][l] = held[p][l]
        BY <2>6 DEF Kept
      <3>2. \A q \in Dropping(x, l) : held[p][l] # held[q][l]
        BY <1>1, <2>3, <2>6, <3>1 DEF OnePlace, Kept
      <3> QED
        BY <1>1, <2>1, <2>2, <3>1, <3>2 DEF OnePlace
    <2>7. CASE Taken(x, p, l)
      <3>1. l \in DOMAIN lostObjects /\ l \notin LeftOver(x) /\ held'[p][l] = lostObjects[l]
        BY <2>7, TakesFacts DEF Taken
      <3> QED
        BY <1>1, <2>1, <2>3, <3>1 DEF OnePlace
    <2> QED
      BY <1>6, <2>5, <2>6, <2>7, HeldNext
  <1>7. ASSUME NEW p \in Player, NEW q \in Player, NEW l \in DOMAIN held'[p], l \in DOMAIN held'[q],
               held'[p][l] = held'[q][l], p # q
        PROVE  FALSE
    <2>1. ASSUME NEW r \in Player, l \in DOMAIN held'[r]
          PROVE  Kept(x, r, l) \/ Taken(x, r, l) \/ Made(x, r, l)
      BY <2>1, HeldNext
    <2>2. ASSUME NEW r \in Player, NEW s \in Player, r # s, Made(x, r, l),
                 l \in DOMAIN held'[r], l \in DOMAIN held'[s]
          PROVE  held'[r][l] # held'[s][l]
      <3>1. held'[r][l][2] = {r} /\ held'[r][l] \notin Objects
        BY <2>2, NextObjects
      <3>2. CASE Made(x, s, l)
        <4>1. held'[s][l][2] = {s}
          BY <2>2, <3>2, NextObjects
        <4> QED
          BY <2>2, <3>1, <4>1
      <3>3. CASE Kept(x, s, l)
        BY <3>1, <3>3, KnownObjects DEF Kept
      <3>4. CASE Taken(x, s, l)
        BY <3>1, <3>4, KnownObjects, TakesFacts DEF Taken
      <3> QED
        BY <2>1, <2>2, <3>2, <3>3, <3>4
    <2>3. ASSUME NEW r \in Player, NEW s \in Player, Kept(x, r, l), Taken(x, s, l)
          PROVE  held'[r][l] # held'[s][l]
      BY <1>1, <2>3, TakesFacts DEF Kept, Taken, OnePlace
    <2>4. ~(Kept(x, p, l) /\ Kept(x, q, l))
      BY <1>1, <1>7 DEF Kept, OnePlace
    <2>5. ~(Taken(x, p, l) /\ Taken(x, q, l))
      BY <1>7, TakesFacts DEF Taken
    <2> QED
      BY <1>7, <2>1, <2>2, <2>3, <2>4, <2>5
  <1>8. OnePlace'
    <2> HIDE DEF dropped
    <2> QED
      BY <1>2, <1>4, <1>5, <1>6, <1>7 DEF OnePlace
  <1>9. HasOnePlace' <=> OnePlace'
    BY <1>3, OnePlaceFacts, PTL
  <1> QED
    BY <1>3, <1>8, <1>9 DEF Places, AllFiled

-----------------------------------------------------------------------------
(* Types, and room for the replies.                                        *)

(* What TypeOK says of the page.                                           *)
ViewOK ==
    /\ {stateLoaded, playersLoaded} \subseteq BOOLEAN
    /\ players \subseteq Player /\ current \subseteq Player
    /\ DOMAIN held = Player /\ Bounded
    /\ scene \subseteq Object /\ IsFiniteSet(scene)
    /\ desiredState \in Answer

LEMMA ViewTyped == Typing => ViewOK
  BY DEF Typing, TypeOK, ViewOK, Bounded, Object

LEMMA ApplyStateTyping ==
  ASSUME Typing, Places, NEW x \in Answer, ApplyState(x)
  PROVE  /\ current' \subseteq Player /\ DOMAIN held' = Player /\ Bounded'
         /\ scene' \subseteq Object /\ IsFiniteSet(scene')
  <1> DEFINE created == UNION {{held'[p][l] : l \in {m \in x.bags[p] : Creates(x, p, m)}} :
                                  p \in DOMAIN x.bags}
  <1>1. current' \subseteq Player /\ DOMAIN held' = Player
    BY HeldNext, AnswerFacts DEF ApplyState
  <1>2. Bounded'
    BY NextObjects, LostNext, AnswerFacts DEF ApplyState, Bounded
  <1>3. IsFiniteSet(Held') /\ IsFiniteSet(Lying')
    <2>1. KnownIsFinite'
      BY <1>2, KnownFinite, PTL
    <2> QED
      BY <2>1 DEF KnownIsFinite
  <1>4. scene' = scene \cup Lying' \cup created
    BY LostNext DEF ApplyState, Lying
  <1>5. created \subseteq Held' /\ created \subseteq Object
    <2>1. ASSUME NEW p \in DOMAIN x.bags, NEW l \in x.bags[p]
          PROVE  held'[p][l] \in Held' /\ held'[p][l] \in Object
      <3>1. p \in Player /\ l \in DOMAIN held'[p]
        BY <2>1, HeldNext, AnswerFacts
      <3> QED
        BY <3>1, NextObjects DEF Held
    <2> QED
      BY <2>1
  <1>6. Lying' \subseteq Object
    BY NextObjects, LostNext DEF Lying
  <1>7. scene \subseteq Object /\ IsFiniteSet(scene)
    BY ViewTyped DEF ViewOK
  <1>8. scene' \subseteq Object
    BY <1>4, <1>5, <1>6, <1>7
  <1>9. IsFiniteSet(scene')
    <2> HIDE DEF created
    <2>1. IsFiniteSet(created)
      BY <1>3, <1>5, FS_Subset
    <2> QED
      BY <1>3, <1>4, <1>7, <2>1, FS_Union
  <1> QED
    BY <1>1, <1>2, <1>8, <1>9

(* What TypeOK says of the server, of what is on its way, and of the rest. *)
ServerOK ==
    /\ joined \subseteq Player /\ newcomers \subseteq Player \ joined
    /\ token \in BOOLEAN
    /\ bag \in [Player -> SUBSET Loot] /\ unborn \subseteq Loot /\ lost \subseteq Loot

PollsOK ==
    /\ asking \subseteq {"state", "list"}
    /\ stateReplies \in Seq(Answer) /\ Len(stateReplies) \in 0 .. MaxStates
    /\ listReplies \in Seq(SUBSET Player) /\ Len(listReplies) \in 0 .. MaxLists

RestOK == page \in {"game", "records"} /\ events \in 0 .. MaxEvents /\ mishaps \subseteq Mishap

LEMMA TypingSplit == Typing <=> ServerOK /\ PollsOK /\ ViewOK /\ RestOK
  <1>1. Typing => ServerOK /\ PollsOK /\ ViewOK /\ RestOK
    <2>1. Typing => ServerOK /\ PollsOK /\ RestOK
      BY DEF Typing, TypeOK, ServerOK, PollsOK, RestOK
    <2> QED
      BY <2>1, ViewTyped
  <1>2. ASSUME ServerOK, PollsOK, ViewOK, RestOK
        PROVE  Typing
    <2>1. \A x \in {stateReplies[i] : i \in 1 .. Len(stateReplies)} \cup {desiredState} :
             /\ x.lost \subseteq Loot /\ DOMAIN x.bags \subseteq Player
             /\ \A p \in DOMAIN x.bags : x.bags[p] \subseteq Loot
      <3>1. \A x \in {stateReplies[i] : i \in 1 .. Len(stateReplies)} \cup {desiredState} :
               x \in Answer
        BY <1>2, ElementOfSeq DEF PollsOK, ViewOK
      <3> QED
        BY <3>1, AnswerFacts
    <2>2. TypeOK
      BY <1>2, <2>1 DEF TypeOK, ServerOK, PollsOK, ViewOK, RestOK, Bounded, Object
    <2> QED
      BY <1>2, <2>2 DEF Typing, PollsOK, ViewOK
  <1> QED
    BY <1>1, <1>2

LEMMA UpdatePlayersPlaces ==
  ASSUME Typing, Places, NEW ps \in SUBSET Player, UpdatePlayersList(ps)
  PROVE  /\ Places'
         /\ players' = ps /\ DOMAIN held' = Player /\ Bounded'
         /\ scene' = scene \ UNION {{held[p][l] : l \in DOMAIN held[p]} : p \in players \ ps}
         /\ UNCHANGED <<current, lostObjects, disappearingLoot>>
         /\ \A p \in Player : IF p \in (players \ ps) \ current THEN DOMAIN held'[p] = {}
                                                               ELSE held'[p] = held[p]
  <1>1. /\ players' = ps /\ DOMAIN held' = Player
        /\ scene' = scene \ UNION {{held[p][l] : l \in DOMAIN held[p]} : p \in players \ ps}
        /\ UNCHANGED <<current, lostObjects, disappearingLoot>>
        /\ \A p \in Player : IF p \in (players \ ps) \ current THEN held'[p] = <<>>
                                                              ELSE held'[p] = held[p]
    BY DEF UpdatePlayersList, NoObjects
  <1>2. \A p \in Player : IF p \in (players \ ps) \ current THEN DOMAIN held'[p] = {}
                                                           ELSE held'[p] = held[p]
    BY <1>1
  <1>3. \A p \in Player : \A l \in DOMAIN held'[p] :
           l \in DOMAIN held[p] /\ held'[p][l] = held[p][l]
    BY <1>2
  <1>4. AllFiled /\ OnePlace
    BY OnePlaceFacts DEF Places, AllFiled
  <1>5. AllFiled'
    BY <1>1, <1>3, <1>4 DEF AllFiled, Filed
  <1>6. OnePlace'
    BY <1>1, <1>3, <1>4 DEF OnePlace
  <1>7. HasOnePlace' <=> OnePlace'
    BY <1>5, OnePlaceFacts, PTL
  <1>8. Bounded'
    <2>1. Bounded
      BY ViewTyped DEF ViewOK
    <2> QED
      BY <1>1, <1>3, <2>1 DEF Bounded
  <1> QED
    BY <1>1, <1>2, <1>5, <1>6, <1>7, <1>8 DEF Places, AllFiled

LEMMA ProcessDisappearingPlaces ==
  ASSUME Typing, Places, NEW due, ProcessDisappearingLoot(due), UNCHANGED <<held, lostObjects>>
  PROVE  /\ Places' /\ Bounded'
         /\ due \subseteq DOMAIN disappearingLoot
         /\ DOMAIN disappearingLoot' = DOMAIN disappearingLoot \ due
         /\ \A l \in DOMAIN disappearingLoot' : disappearingLoot'[l] = disappearingLoot[l]
         /\ scene' = scene \ {disappearingLoot[l] : l \in due}
  <1>1. /\ due \subseteq DOMAIN disappearingLoot
        /\ DOMAIN disappearingLoot' = DOMAIN disappearingLoot \ due
        /\ \A l \in DOMAIN disappearingLoot' : disappearingLoot'[l] = disappearingLoot[l]
        /\ scene' = scene \ {disappearingLoot[l] : l \in due}
    BY DEF ProcessDisappearingLoot
  <1>2. AllFiled /\ OnePlace
    BY OnePlaceFacts DEF Places, AllFiled
  <1>3. AllFiled'
    BY <1>1, <1>2 DEF AllFiled, Filed
  <1>4. OnePlace'
    BY <1>1, <1>2 DEF OnePlace
  <1>5. HasOnePlace' <=> OnePlace'
    BY <1>3, OnePlaceFacts, PTL
  <1>6. Bounded'
    <2>1. Bounded
      BY ViewTyped DEF ViewOK
    <2> QED
      BY <1>1, <2>1 DEF Bounded
  <1> QED
    BY <1>1, <1>3, <1>4, <1>5, <1>6 DEF Places, AllFiled

-----------------------------------------------------------------------------
(* Objects are typed and have one place, in every step.                    *)

LEMMA PlacesKept ==
  ASSUME UNCHANGED <<held, lostObjects, disappearingLoot>>, Places
  PROVE  Places'
  BY DEF Places, Filed, HasOnePlace, Held, Lying, Vanishing

LEMMA ViewKept ==
  ASSUME UNCHANGED view, ViewOK, Blank, Places
  PROVE  ViewOK' /\ Blank' /\ Places'
  <1> USE DEF view
  <1>1. ViewOK' /\ Blank'
    BY DEF ViewOK, Blank, Bounded, started
  <1>2. Places'
    BY PlacesKept
  <1> QED
    BY <1>1, <1>2

LEMMA InitInv == Init => Inv
  <1> SUFFICES ASSUME Init PROVE Inv
    OBVIOUS
  <1> USE DEF Init
  <1>1. /\ \A p \in Player : DOMAIN held[p] = {}
        /\ DOMAIN lostObjects = {} /\ DOMAIN disappearingLoot = {}
    BY DEF NoObjects
  <1>2. ServerOK
    BY ConstantsAssumption DEF ServerOK
  <1>3. PollsOK
    BY ConstantsAssumption DEF PollsOK
  <1>4. ViewOK
    BY <1>1, AnswerFacts, FS_EmptySet DEF ViewOK, Bounded
  <1>5. RestOK
    BY ConstantsAssumption DEF RestOK
  <1>6. Places
    BY <1>1 DEF Places, Filed, HasOnePlace, Held, Lying, Vanishing
  <1>7. AskedOnce /\ Blank
    BY <1>1 DEF AskedOnce, Blank
  <1> QED
    BY <1>2, <1>3, <1>4, <1>5, <1>6, <1>7, TypingSplit DEF Inv

LEMMA PlayInv ==
  ASSUME Inv, Play
  PROVE  Inv'
  <1>1. Typing /\ ServerOK /\ PollsOK /\ ViewOK /\ RestOK
    BY TypingSplit DEF Inv
  <1>2. UNCHANGED <<polls, view, page>>
    BY DEF Play
  <1>3. ServerOK' /\ mishaps' \subseteq Mishap
    <2> USE <1>1 DEF ServerOK, RestOK, Mishap
    <2>1. ASSUME NEW p \in Player, Join(p)
          PROVE  ServerOK' /\ mishaps' \subseteq Mishap
      BY <2>1 DEF Join
    <2>2. ASSUME NEW p \in Player, VisitOffice(p)
          PROVE  ServerOK' /\ mishaps' \subseteq Mishap
      BY <2>2 DEF VisitOffice
    <2>3. ASSUME NEW p \in Player, ErasePlayer(p)
          PROVE  ServerOK' /\ mishaps' \subseteq Mishap
      BY <2>3 DEF ErasePlayer
    <2>4. ASSUME NEW l \in Loot, GenerateLoot(l)
          PROVE  ServerOK' /\ mishaps' \subseteq Mishap
      BY <2>4 DEF GenerateLoot
    <2>5. ASSUME NEW l \in Loot, NEW gatherers \in SUBSET Player, Gather(gatherers, l)
          PROVE  ServerOK' /\ mishaps' \subseteq Mishap
      BY <2>5 DEF Gather
    <2>6. ASSUME EraseToken
          PROVE  ServerOK' /\ mishaps' \subseteq Mishap
      BY <2>6 DEF EraseToken
    <2> QED
      BY <2>1, <2>2, <2>3, <2>4, <2>5, <2>6 DEF Play
  <1>4. RestOK'
    BY <1>1, <1>2, <1>3, ConstantsAssumption DEF Play, Happens, RestOK
  <1>5. PollsOK' /\ AskedOnce'
    BY <1>1, <1>2 DEF PollsOK, AskedOnce, polls, view, Inv
  <1>6. ViewOK' /\ Blank' /\ Places'
    BY <1>1, <1>2, ViewKept DEF Inv
  <1>7. Typing' <=> (ServerOK /\ PollsOK /\ ViewOK /\ RestOK)'
    BY TypingSplit, PTL
  <1> QED
    BY <1>3, <1>4, <1>5, <1>6, <1>7 DEF Inv

LEMMA RequestInv ==
  ASSUME Inv, NEW kind \in asking, HandleFirst(kind) \/ FirstFails(kind)
  PROVE  Inv'
  <1>1. Typing /\ ServerOK /\ PollsOK /\ ViewOK /\ RestOK
    BY TypingSplit DEF Inv
  <1>2. UNCHANGED <<server, view, page, mishaps>> /\ asking' = asking \ {kind}
    BY DEF HandleFirst, FirstFails
  <1>3. ServerOK' /\ RestOK'
    <2>1. ServerOK'
      BY <1>1, <1>2 DEF ServerOK, server
    <2>2. events' \in 0 .. MaxEvents
      BY <1>1, ConstantsAssumption DEF HandleFirst, FirstFails, Happens, RestOK
    <2> QED
      BY <1>1, <1>2, <2>1, <2>2 DEF RestOK
  <1>4. PollsOK' /\ AskedOnce'
    <2>1. CASE HandleFirst(kind) /\ kind = "state"
      <3>1. stateReplies = <<>> /\ stateReplies' = Append(stateReplies, State) /\ UNCHANGED listReplies
        BY <2>1 DEF HandleFirst, Inv, AskedOnce
      <3>2. stateReplies' \in Seq(Answer) /\ Len(stateReplies') = 1
        BY <1>1, <3>1, StateIsAnswer, FirstReply DEF Typing
      <3> QED
        BY <1>1, <1>2, <2>1, <3>1, <3>2, ConstantsAssumption DEF PollsOK, AskedOnce, Inv, view
    <2>2. CASE HandleFirst(kind) /\ kind # "state"
      <3>1. /\ kind = "list" /\ listReplies = <<>> /\ listReplies' = Append(listReplies, List)
            /\ UNCHANGED stateReplies
        BY <1>1, <2>2 DEF HandleFirst, Inv, AskedOnce, PollsOK
      <3>2. List \in SUBSET Player
        BY <1>1 DEF List, NoPlayers, ServerOK
      <3>3. listReplies' \in Seq(SUBSET Player) /\ Len(listReplies') = 1
        BY <3>1, <3>2, FirstReply
      <3> QED
        BY <1>1, <1>2, <3>1, <3>3, ConstantsAssumption DEF PollsOK, AskedOnce, Inv, view
    <2>3. CASE FirstFails(kind)
      BY <1>1, <1>2, <2>3 DEF FirstFails, PollsOK, AskedOnce, Inv, view
    <2> QED
      BY <2>1, <2>2, <2>3
  <1>5. ViewOK' /\ Blank' /\ Places'
    BY <1>1, <1>2, ViewKept DEF Inv
  <1>6. Typing' <=> (ServerOK /\ PollsOK /\ ViewOK /\ RestOK)'
    BY TypingSplit, PTL
  <1> QED
    BY <1>3, <1>4, <1>5, <1>6 DEF Inv

LEMMA ArriveStateInv ==
  ASSUME Inv, NEW i \in 1 .. Len(stateReplies), ArriveState(i)
  PROVE  Inv'
  <1> DEFINE x == stateReplies[i]
  <1>1. Typing /\ ServerOK /\ PollsOK /\ ViewOK /\ RestOK
    BY TypingSplit DEF Inv
  <1>2. UNCHANGED <<server, asking, listReplies, page, events>>
        /\ stateReplies' = Without(stateReplies, i) /\ Reorders(i)
    BY DEF ArriveState
  <1>3. ServerOK' /\ RestOK'
    BY <1>1, <1>2 DEF ServerOK, RestOK, server, Reorders, Mishap
  <1>4. x \in Answer
    BY <1>1, ElementOfSeq DEF PollsOK
  <1>5. "state" \notin asking
    <2>1. stateReplies # <<>>
      BY <1>1 DEF PollsOK
    <2> QED
      BY <2>1 DEF Inv, AskedOnce
  <1>6. PollsOK' /\ AskedOnce'
    <2>1. stateReplies' \in Seq(Answer) /\ Len(stateReplies') \in 0 .. MaxStates
      BY <1>1, <1>2, WithoutFacts, ConstantsAssumption DEF PollsOK
    <2>2. playersLoaded' = playersLoaded
      BY DEF ArriveState, view
    <2> QED
      BY <1>1, <1>2, <1>5, <2>1, <2>2 DEF PollsOK, Inv, AskedOnce
  <1>7. ViewOK' /\ Blank' /\ Places'
    <2>1. CASE x = Unauthorized
      <3>1. UNCHANGED view
        BY <2>1 DEF ArriveState
      <3> QED
        BY <1>1, <3>1, ViewKept DEF Inv
    <2>2. CASE x # Unauthorized /\ playersLoaded
      <3>1. /\ stateLoaded' = TRUE /\ UNCHANGED <<players, playersLoaded, desiredState>>
            /\ ApplyState(x)
        BY <2>2 DEF ArriveState
      <3>2. Places'
        BY <1>4, <3>1, ApplyStatePlaces DEF Inv
      <3>3. ViewOK'
        <4>1. /\ current' \subseteq Player /\ DOMAIN held' = Player /\ Bounded'
              /\ scene' \subseteq Object /\ IsFiniteSet(scene')
          BY <1>4, <3>1, ApplyStateTyping DEF Inv
        <4> QED
          BY <1>1, <3>1, <4>1 DEF ViewOK
      <3>4. Blank'
        BY <2>2, <3>1 DEF Blank, started
      <3> QED
        BY <3>2, <3>3, <3>4
    <2>3. CASE x # Unauthorized /\ ~playersLoaded
      <3>1. /\ stateLoaded' = TRUE /\ UNCHANGED <<players, playersLoaded>>
            /\ desiredState' = x
            /\ UNCHANGED <<current, held, lostObjects, disappearingLoot, scene>>
        BY <2>3 DEF ArriveState
      <3>2. ViewOK' /\ Blank'
        BY <1>1, <1>4, <2>3, <3>1 DEF ViewOK, Bounded, Inv, Blank, started
      <3>3. Places'
        <4>1. Places /\ UNCHANGED <<held, lostObjects, disappearingLoot>>
          BY <3>1 DEF Inv
        <4> QED
          BY <4>1, PlacesKept
      <3> QED
        BY <3>2, <3>3
    <2> QED
      BY <2>1, <2>2, <2>3
  <1>8. Typing' <=> (ServerOK /\ PollsOK /\ ViewOK /\ RestOK)'
    BY TypingSplit, PTL
  <1> QED
    BY <1>3, <1>6, <1>7, <1>8 DEF Inv

LEMMA ArriveListInv ==
  ASSUME Inv, NEW i \in 1 .. Len(listReplies), ArriveList(i)
  PROVE  Inv'
  <1> DEFINE ps == listReplies[i]
  <1>1. Typing /\ ServerOK /\ PollsOK /\ ViewOK /\ RestOK
    BY TypingSplit DEF Inv
  <1>2. UNCHANGED <<server, asking, stateReplies, events>>
        /\ listReplies' = Without(listReplies, i) /\ Reorders(i)
    BY DEF ArriveList
  <1>3. ServerOK' /\ RestOK'
    <2>1. page' = page \/ page' = "records"
      BY DEF ArriveList
    <2> QED
      BY <1>1, <1>2, <2>1 DEF ServerOK, RestOK, server, Reorders, Mishap
  <1>4. ps \in SUBSET Player
    BY <1>1, ElementOfSeq DEF PollsOK
  <1>5. "list" \notin asking
    <2>1. listReplies # <<>>
      BY <1>1 DEF PollsOK
    <2> QED
      BY <2>1 DEF Inv, AskedOnce
  <1>6. PollsOK' /\ AskedOnce'
    <2>1. listReplies' \in Seq(SUBSET Player) /\ Len(listReplies') \in 0 .. MaxLists
      BY <1>1, <1>2, WithoutFacts, ConstantsAssumption DEF PollsOK
    <2>2. stateLoaded' = stateLoaded
      BY DEF ArriveList, view
    <2> QED
      BY <1>1, <1>2, <1>5, <2>1, <2>2 DEF PollsOK, Inv, AskedOnce
  <1>7. ViewOK' /\ Blank' /\ Places'
    <2>1. CASE ps = NoPlayers
      <3>1. UNCHANGED view
        BY <2>1 DEF ArriveList
      <3> QED
        BY <1>1, <3>1, ViewKept DEF Inv
    <2>2. CASE ps # NoPlayers /\ stateLoaded /\ ~playersLoaded
      <3>1. /\ playersLoaded' = TRUE /\ stateLoaded' = stateLoaded /\ players' = ps
            /\ ApplyState(desiredState) /\ desiredState' = Unauthorized
        BY <2>2 DEF ArriveList
      <3>2. desiredState \in Answer
        BY <1>1 DEF ViewOK
      <3>3. Places'
        BY <3>1, <3>2, ApplyStatePlaces DEF Inv
      <3>4. ViewOK'
        <4>1. /\ current' \subseteq Player /\ DOMAIN held' = Player /\ Bounded'
              /\ scene' \subseteq Object /\ IsFiniteSet(scene')
          BY <3>1, <3>2, ApplyStateTyping DEF Inv
        <4> QED
          BY <1>1, <1>4, <3>1, <4>1, AnswerFacts DEF ViewOK
      <3>5. Blank'
        BY <2>2, <3>1 DEF Blank, started
      <3> QED
        BY <3>3, <3>4, <3>5
    <2>3. CASE ps # NoPlayers /\ ~(stateLoaded /\ ~playersLoaded)
      <3>1. /\ playersLoaded' = TRUE /\ stateLoaded' = stateLoaded
            /\ UpdatePlayersList(ps) /\ desiredState' = desiredState
        BY <2>3 DEF ArriveList
      <3>2. /\ Places' /\ players' = ps /\ DOMAIN held' = Player /\ Bounded'
            /\ scene' = scene \ UNION {{held[p][l] : l \in DOMAIN held[p]} : p \in players \ ps}
            /\ UNCHANGED <<current, lostObjects, disappearingLoot>>
            /\ \A p \in Player : IF p \in (players \ ps) \ current THEN DOMAIN held'[p] = {}
                                                                   ELSE held'[p] = held[p]
        BY <1>4, <3>1, UpdatePlayersPlaces DEF Inv
      <3>3. scene' \subseteq scene /\ IsFiniteSet(scene')
        BY <1>1, <3>2, FS_Subset DEF ViewOK
      <3>4. ViewOK'
        BY <1>1, <1>4, <3>1, <3>2, <3>3 DEF ViewOK
      <3>5. Blank'
        <4>1. ~started' => ~started
          BY <2>3, <3>1 DEF started
        <4> QED
          BY <3>2, <3>3, <4>1 DEF Inv, Blank
      <3> QED
        BY <3>2, <3>4, <3>5
    <2> QED
      BY <2>1, <2>2, <2>3
  <1>8. Typing' <=> (ServerOK /\ PollsOK /\ ViewOK /\ RestOK)'
    BY TypingSplit, PTL
  <1> QED
    BY <1>3, <1>6, <1>7, <1>8 DEF Inv

LEMMA TickInv ==
  ASSUME Inv, NEW askState \in BOOLEAN, NEW askList \in BOOLEAN, NEW due,
         Tick(askState, askList, due)
  PROVE  Inv'
  <1>1. Typing /\ ServerOK /\ PollsOK /\ ViewOK /\ RestOK
    BY TypingSplit DEF Inv
  <1>2. /\ started /\ ProcessDisappearingLoot(due)
        /\ UNCHANGED <<server, asking, stateLoaded, playersLoaded, desiredState, players,
                       current, held, lostObjects, page, events, mishaps>>
    BY DEF Tick
  <1>3. ServerOK' /\ RestOK'
    BY <1>1, <1>2 DEF ServerOK, RestOK, server
  <1>4. PollsOK' /\ AskedOnce'
    <2>1. stateReplies' \in Seq(Answer) /\ Len(stateReplies') \in 0 .. MaxStates
      <3>1. CASE askState
        <4>1. stateReplies' = Append(stateReplies, State) /\ Len(stateReplies) < MaxStates
          BY <3>1 DEF Tick
        <4>2. State \in Answer
          BY <1>1, StateIsAnswer DEF Typing
        <4> QED
          BY <1>1, <4>1, <4>2, AppendFacts, ConstantsAssumption DEF PollsOK
      <3>2. CASE ~askState
        BY <1>1, <3>2 DEF Tick, PollsOK
      <3> QED
        BY <3>1, <3>2
    <2>2. listReplies' \in Seq(SUBSET Player) /\ Len(listReplies') \in 0 .. MaxLists
      <3>1. CASE askList
        <4>1. listReplies' = Append(listReplies, List) /\ Len(listReplies) < MaxLists
          BY <3>1 DEF Tick
        <4>2. List \in SUBSET Player
          BY <1>1 DEF List, NoPlayers, ServerOK
        <4> QED
          BY <1>1, <4>1, <4>2, AppendFacts, ConstantsAssumption DEF PollsOK
      <3>2. CASE ~askList
        BY <1>1, <3>2 DEF Tick, PollsOK
      <3> QED
        BY <3>1, <3>2
    <2>3. asking = {} /\ asking' = {}
      BY <1>1, <1>2 DEF Inv, AskedOnce, started, PollsOK
    <2> QED
      BY <2>1, <2>2, <2>3 DEF PollsOK, AskedOnce
  <1>5. ViewOK' /\ Blank' /\ Places'
    <2>1. /\ Places' /\ Bounded'
          /\ scene' = scene \ {disappearingLoot[l] : l \in due}
      BY <1>2, ProcessDisappearingPlaces DEF Inv
    <2>2. scene' \subseteq scene /\ IsFiniteSet(scene')
      BY <1>1, <2>1, FS_Subset DEF ViewOK
    <2>3. ViewOK'
      BY <1>1, <1>2, <2>1, <2>2 DEF ViewOK
    <2>4. Blank'
      BY <1>2 DEF Blank, started
    <2> QED
      BY <2>1, <2>3, <2>4
  <1>6. Typing' <=> (ServerOK /\ PollsOK /\ ViewOK /\ RestOK)'
    BY TypingSplit, PTL
  <1> QED
    BY <1>3, <1>4, <1>5, <1>6 DEF Inv

LEMMA NextInv == Inv /\ [Next]_vars => Inv'
  <1> SUFFICES ASSUME Inv, [Next]_vars PROVE Inv'
    OBVIOUS
  <1>1. CASE UNCHANGED vars
    <2>1. UNCHANGED <<server, polls, view, page, events, mishaps>>
      BY <1>1 DEF vars
    <2>2. ServerOK /\ PollsOK /\ ViewOK /\ RestOK
      BY TypingSplit DEF Inv
    <2>3. ServerOK' /\ PollsOK' /\ RestOK'
      BY <2>1, <2>2 DEF ServerOK, PollsOK, RestOK, server, polls
    <2>4. ViewOK' /\ Blank' /\ Places'
      BY <2>1, <2>2, ViewKept DEF Inv
    <2>5. AskedOnce'
      BY <2>1 DEF Inv, AskedOnce, polls, view
    <2>6. Typing' <=> (ServerOK /\ PollsOK /\ ViewOK /\ RestOK)'
      BY TypingSplit, PTL
    <2> QED
      BY <2>3, <2>4, <2>5, <2>6 DEF Inv
  <1>2. CASE Next
    BY <1>2, PlayInv, RequestInv, ArriveStateInv, ArriveListInv, TickInv DEF Next
  <1> QED
    BY <1>1, <1>2

(* The page keeps its books in order: players, bags, objects and replies   *)
(* are what the code takes them for, and no more replies are on their way  *)
(* than are made room for.                                                 *)
THEOREM PageWellFormed == Spec => []Inv
  <1>1. Init => Inv
    BY InitInv
  <1>2. Inv /\ [Next]_vars => Inv'
    BY NextInv
  <1> QED
    BY <1>1, <1>2, PTL DEF Spec

(* An object lies on the map, is in one bag, or vanishes, and never two of *)
(* these at once (_processLostObjects, _attachLootToPlayers, _dropLoot),   *)
(* whatever states arrive, in whatever order.                              *)
THEOREM ObjectsHaveOnePlace == Spec => []HasOnePlace
  <1>1. Inv => HasOnePlace
    BY DEF Inv, Places
  <1> QED
    BY <1>1, PageWellFormed, PTL

-----------------------------------------------------------------------------
(* A chronicle goes from 0 to n.  Another one may be some of it, in the    *)
(* same order, by way of f; or all of it, and one more.                    *)
Picks(picked, m, all, n, f) ==
    /\ m \in Nat /\ n \in Nat
    /\ f \in [0 .. m -> 0 .. n] /\ \A i, k \in 0 .. m : i < k => f[i] < f[k]
    /\ \A i \in 0 .. m : picked[i] = all[f[i]]

Continues(longer, all, n) == n \in Nat /\ \A i \in 0 .. n : longer[i] = all[i]

(* What is listed one after the other.  A player who was listed and is     *)
(* missed in a later list has left for good and is in no list after it,    *)
(* and nobody is listed who is still to come.  An empty list says nothing. *)
PlayersFade(listed, n, here, coming) ==
    /\ \A i \in 0 .. n : listed[i] \cap coming = {}
    /\ \A i, k \in 0 .. n : i < k /\ listed[k] # {} =>
          \A p \in listed[i] \ listed[k] :
             /\ p \notin here \cup coming
             /\ \A m \in 0 .. n : k < m => p \notin listed[m]

LEMMA FadeOnServer ==
  ASSUME NEW listed, NEW n \in Nat, NEW here, NEW coming, NEW here_next, NEW coming_next,
         PlayersFade(listed, n, here, coming),
         coming_next \subseteq coming, here_next \cup coming_next \subseteq here \cup coming
  PROVE  PlayersFade(listed, n, here_next, coming_next)
  BY DEF PlayersFade

LEMMA FadeAppended ==
  ASSUME NEW listed, NEW n \in Nat, NEW here, NEW coming, NEW listed_next,
         PlayersFade(listed, n, here, coming), here \cap coming = {},
         Continues(listed_next, listed, n), listed_next[n + 1] \in {here, {}}
  PROVE  PlayersFade(listed_next, n + 1, here, coming)
  <1> USE DEF Continues
  <1>1. \A i \in 0 .. n + 1 : listed_next[i] \cap coming = {}
    <2>1. \A i \in 0 .. n + 1 : i \in 0 .. n \/ i = n + 1
      OBVIOUS
    <2> QED
      BY <2>1 DEF PlayersFade
  <1>2. ASSUME NEW i \in 0 .. n + 1, NEW k \in 0 .. n + 1, i < k, listed_next[k] # {},
               NEW p \in listed_next[i] \ listed_next[k]
        PROVE  /\ p \notin here \cup coming
               /\ \A m \in 0 .. n + 1 : k < m => p \notin listed_next[m]
    <2>1. i \in 0 .. n
      BY <1>2
    <2>2. CASE k \in 0 .. n
      <3>1. /\ p \notin here \cup coming
            /\ \A m \in 0 .. n : k < m => p \notin listed[m]
        BY <1>2, <2>1, <2>2 DEF PlayersFade
      <3>2. \A m \in 0 .. n + 1 : m \in 0 .. n \/ m = n + 1
        OBVIOUS
      <3> QED
        BY <3>1, <3>2
    <2>3. CASE k = n + 1
      BY <1>1, <1>2, <2>3
    <2> QED
      BY <2>2, <2>3
  <1> QED
    BY <1>1, <1>2 DEF PlayersFade

(* Some of the lists, in the same order, fade as all of them.              *)
LEMMA FadePicked ==
  ASSUME NEW listed, NEW n \in Nat, NEW here, NEW coming, NEW m \in Nat, NEW picked,
         NEW f, Picks(picked, m, listed, n, f), PlayersFade(listed, n, here, coming)
  PROVE  PlayersFade(picked, m, here, coming)
  <1> USE DEF Picks
  <1>1. \A i \in 0 .. m : picked[i] \cap coming = {}
    BY DEF PlayersFade
  <1>2. ASSUME NEW i \in 0 .. m, NEW k \in 0 .. m, i < k, picked[k] # {},
               NEW p \in picked[i] \ picked[k]
        PROVE  /\ p \notin here \cup coming
               /\ \A j \in 0 .. m : k < j => p \notin picked[j]
    <2>1. f[i] \in 0 .. n /\ f[k] \in 0 .. n /\ f[i] < f[k] /\ listed[f[k]] # {}
          /\ p \in listed[f[i]] \ listed[f[k]]
      BY <1>2
    <2>2. /\ p \notin here \cup coming
          /\ \A j \in 0 .. n : f[k] < j => p \notin listed[j]
      BY <2>1 DEF PlayersFade
    <2> QED
      BY <2>2
  <1> QED
    BY <1>1, <1>2 DEF PlayersFade

-----------------------------------------------------------------------------
(* What is carried is drawn.                                               *)

(* The players the page knows, and those of the lists on their way.        *)
Lists == [i \in 0 .. Len(listReplies) |-> IF i = 0 THEN players ELSE listReplies[i]]

(* A player who has left and has no actor any more, nor will have one.     *)
Hidden(p) ==
    /\ p \notin players /\ p \notin joined \cup newcomers
    /\ \A i \in 1 .. Len(listReplies) : p \notin listReplies[i]

Drawn(p) == \A l \in DOMAIN held[p] : held[p][l] \in scene

Visible ==
    /\ Lying \subseteq scene
    /\ "late" \notin mishaps =>
          /\ PlayersFade(Lists, Len(listReplies), joined, newcomers)
          /\ \A p \in current : Hidden(p) \/ Drawn(p)

LEMMA ApplyStateDraws ==
  ASSUME Typing, Places, NEW x \in Answer, ApplyState(x), Lying \subseteq scene
  PROVE  /\ Lying' \subseteq scene' /\ scene \subseteq scene' /\ current' = DOMAIN x.bags
         /\ \A p \in current' : (p \in current => Drawn(p)) => Drawn(p)'
  <1>1. /\ scene \subseteq scene' /\ current' = DOMAIN x.bags
        /\ \A l \in x.lost : lostObjects'[l] \in scene'
        /\ \A p \in DOMAIN x.bags : \A l \in x.bags[p] : Creates(x, p, l) => held'[p][l] \in scene'
    <2> DEFINE created == UNION {{held'[p][l] : l \in {m \in x.bags[p] : Creates(x, p, m)}} :
                                    p \in DOMAIN x.bags}
    <2>1. scene' = scene \cup {lostObjects'[l] : l \in x.lost} \cup created
      BY DEF ApplyState
    <2>2. \A p \in DOMAIN x.bags : \A l \in x.bags[p] : Creates(x, p, l) => held'[p][l] \in created
      OBVIOUS
    <2>3. current' = DOMAIN x.bags
      BY DEF ApplyState
    <2> HIDE DEF created
    <2> QED
      BY <2>1, <2>2, <2>3
  <1>2. Lying' \subseteq scene'
    BY <1>1, LostNext DEF Lying
  <1>3. ASSUME NEW p \in current', p \in current => Drawn(p), NEW l \in DOMAIN held'[p]
        PROVE  held'[p][l] \in scene'
    <2>1. p \in DOMAIN x.bags /\ p \in Player /\ l \in x.bags[p]
      BY <1>1, <1>3, HeldNext, AnswerFacts
    <2>2. CASE Kept(x, p, l)
      BY <1>1, <1>3, <2>1, <2>2 DEF Kept, Drawn
    <2>3. CASE Taken(x, p, l)
      <3>1. l \in DOMAIN lostObjects /\ held'[p][l] = lostObjects[l]
        BY <2>1, <2>3, TakesFacts DEF Taken
      <3> QED
        BY <1>1, <3>1 DEF Lying
    <2>4. CASE Made(x, p, l)
      BY <1>1, <2>1, <2>4 DEF Made
    <2> QED
      BY <1>3, <2>1, <2>2, <2>3, <2>4, HeldNext
  <1> QED
    BY <1>1, <1>2, <1>3 DEF Drawn

(* The lists that are left when the first one has arrived.                 *)
LEMMA FirstListGone ==
  ASSUME listReplies \in Seq(SUBSET Player), Len(listReplies) >= 1,
         NEW here, NEW coming, PlayersFade(Lists, Len(listReplies), here, coming),
         listReplies' = Without(listReplies, 1),
         \/ players' = listReplies[1]
         \/ players' = players
  PROVE  PlayersFade(Lists', Len(listReplies'), here, coming)
  <1> DEFINE n == Len(listReplies)
             m == Len(listReplies')
             first == [i \in 0 .. m |-> i + 1]
             skip == [i \in 0 .. m |-> IF i = 0 THEN 0 ELSE i + 1]
  <1>1. n \in Nat /\ m \in Nat /\ m = n - 1
        /\ \A k \in 1 .. m : listReplies'[k] = listReplies[k + 1]
    <2>1. n \in Nat /\ 1 \in 1 .. n
      BY LenProperties
    <2>2. /\ m = n - 1
          /\ \A k \in 1 .. n - 1 : listReplies'[k] = IF k < 1 THEN listReplies[k]
                                                              ELSE listReplies[k + 1]
      BY <2>1, WithoutFacts
    <2> QED
      BY <2>1, <2>2
  <1>2. CASE players' = listReplies[1]
    <2>1. \A i \in 0 .. m : Lists'[i] = Lists[first[i]]
      BY <1>1, <1>2 DEF Lists
    <2>2. first \in [0 .. m -> 0 .. n] /\ \A i, k \in 0 .. m : i < k => first[i] < first[k]
      BY <1>1
    <2>3. Picks(Lists', m, Lists, n, first)
      BY <1>1, <2>1, <2>2 DEF Picks
    <2> HIDE DEF n, m, first
    <2>4. PlayersFade(Lists, n, here, coming)
      BY DEF n
    <2>5. PlayersFade(Lists', m, here, coming)
      BY <1>1, <2>3, <2>4, FadePicked
    <2> QED
      BY <2>5 DEF m
  <1>3. CASE players' = players
    <2>1. \A i \in 0 .. m : Lists'[i] = Lists[skip[i]]
      BY <1>1, <1>3 DEF Lists
    <2>2. skip \in [0 .. m -> 0 .. n] /\ \A i, k \in 0 .. m : i < k => skip[i] < skip[k]
      BY <1>1
    <2>3. Picks(Lists', m, Lists, n, skip)
      BY <1>1, <2>1, <2>2 DEF Picks
    <2> HIDE DEF n, m, skip
    <2>4. PlayersFade(Lists, n, here, coming)
      BY DEF n
    <2>5. PlayersFade(Lists', m, here, coming)
      BY <1>1, <2>3, <2>4, FadePicked
    <2> QED
      BY <2>5 DEF m
  <1> QED
    BY <1>2, <1>3

LEMMA ListAppended ==
  ASSUME listReplies \in Seq(SUBSET Player), joined \cap newcomers = {}, List \in SUBSET Player,
         PlayersFade(Lists, Len(listReplies), joined, newcomers),
         listReplies' = Append(listReplies, List), players' = players
  PROVE  PlayersFade(Lists', Len(listReplies'), joined, newcomers)
  <1>1. /\ Len(listReplies) \in Nat /\ Len(listReplies') = Len(listReplies) + 1
        /\ \A i \in 1 .. Len(listReplies) : listReplies'[i] = listReplies[i]
        /\ listReplies'[Len(listReplies) + 1] = List
    BY AppendFacts
  <1>2. Continues(Lists', Lists, Len(listReplies))
    BY <1>1 DEF Lists, Continues
  <1>3. Lists'[Len(listReplies) + 1] \in {joined, {}}
    BY <1>1 DEF Lists, List, NoPlayers
  <1> QED
    BY <1>1, <1>2, <1>3, FadeAppended

LEMMA InitVisible == Init => Visible
  <1> SUFFICES ASSUME Init PROVE Visible
    OBVIOUS
  <1>1. listReplies = <<>> /\ Len(listReplies) = 0 /\ players = {} /\ current = {}
        /\ DOMAIN lostObjects = {}
    BY DEF Init, NoObjects
  <1>2. PlayersFade(Lists, Len(listReplies), joined, newcomers)
    BY <1>1 DEF PlayersFade, Lists
  <1> QED
    BY <1>1, <1>2 DEF Visible, Lying

(* Nothing happens on the server that makes a list untrue again.           *)
LEMMA PlayFacts ==
  ASSUME Inv, Play
  PROVE  /\ UNCHANGED <<polls, view, page>>
         /\ newcomers' \subseteq newcomers
         /\ joined' \cup newcomers' \subseteq joined \cup newcomers
         /\ mishaps \subseteq mishaps'
  <1>1. UNCHANGED <<polls, view, page>>
    BY DEF Play
  <1>2. ASSUME NEW p \in Player, Join(p) \/ VisitOffice(p) \/ ErasePlayer(p)
        PROVE  /\ newcomers' \subseteq newcomers
               /\ joined' \cup newcomers' \subseteq joined \cup newcomers
               /\ mishaps \subseteq mishaps'
    BY <1>2 DEF Join, VisitOffice, ErasePlayer
  <1>3. ASSUME NEW l \in Loot, GenerateLoot(l) \/ \E gatherers \in SUBSET Player : Gather(gatherers, l)
        PROVE  /\ newcomers' \subseteq newcomers
               /\ joined' \cup newcomers' \subseteq joined \cup newcomers
               /\ mishaps \subseteq mishaps'
    BY <1>3 DEF GenerateLoot, Gather
  <1>4. ASSUME EraseToken
        PROVE  /\ newcomers' \subseteq newcomers
               /\ joined' \cup newcomers' \subseteq joined \cup newcomers
               /\ mishaps \subseteq mishaps'
    BY <1>4 DEF EraseToken
  <1>5. \/ \E p \in Player : Join(p) \/ VisitOffice(p) \/ ErasePlayer(p)
        \/ \E l \in Loot : GenerateLoot(l)
        \/ \E l \in Loot : \E gatherers \in SUBSET Player : Gather(gatherers, l)
        \/ EraseToken
    BY DEF Play
  <1>6. /\ newcomers' \subseteq newcomers
        /\ joined' \cup newcomers' \subseteq joined \cup newcomers
        /\ mishaps \subseteq mishaps'
    BY <1>2, <1>3, <1>4, <1>5
  <1> QED
    BY <1>1, <1>6

LEMMA PlayVisible ==
  ASSUME Inv, Visible, Play
  PROVE  Visible'
  <1>1. /\ UNCHANGED <<polls, view>>
        /\ newcomers' \subseteq newcomers
        /\ joined' \cup newcomers' \subseteq joined \cup newcomers
        /\ mishaps \subseteq mishaps'
    BY PlayFacts
  <1>2. Lying' \subseteq scene'
    BY <1>1 DEF Lying, Visible, view
  <1>3. ASSUME "late" \notin mishaps'
        PROVE  /\ PlayersFade(Lists', Len(listReplies'), joined', newcomers')
               /\ \A p \in current' : Hidden(p)' \/ Drawn(p)'
    <2>1. PlayersFade(Lists, Len(listReplies), joined, newcomers)
      BY <1>1, <1>3 DEF Visible
    <2>2. Lists' = Lists /\ listReplies' = listReplies /\ Len(listReplies) \in Nat
      BY <1>1 DEF Lists, polls, view, Inv, Typing, TypeOK
    <2>3. PlayersFade(Lists, Len(listReplies), joined', newcomers')
      BY <1>1, <2>1, <2>2, FadeOnServer
    <2>4. \A p \in current' : Hidden(p)' \/ Drawn(p)'
      BY <1>1, <1>3 DEF Visible, Hidden, Drawn, polls, view
    <2> QED
      BY <2>2, <2>3, <2>4
  <1> QED
    BY <1>2, <1>3 DEF Visible

(* A list that is answered, or none, while the view is drawn on.           *)
LEMMA ListedVisible ==
  ASSUME Inv, Visible, UNCHANGED <<joined, newcomers, mishaps, players>>,
         \/ listReplies' = Append(listReplies, List)
         \/ listReplies' = listReplies
  PROVE  "late" \notin mishaps' =>
            /\ PlayersFade(Lists', Len(listReplies'), joined', newcomers')
            /\ \A p \in Player : Hidden(p) => Hidden(p)'
  <1> SUFFICES ASSUME "late" \notin mishaps'
               PROVE  /\ PlayersFade(Lists', Len(listReplies'), joined', newcomers')
                      /\ \A p \in Player : Hidden(p) => Hidden(p)'
    OBVIOUS
  <1>1. ServerOK /\ PollsOK
    BY TypingSplit DEF Inv
  <1>2. List \in SUBSET Player /\ joined \cap newcomers = {} /\ List \subseteq joined
    BY <1>1 DEF List, NoPlayers, ServerOK
  <1>3. PlayersFade(Lists, Len(listReplies), joined, newcomers)
    BY DEF Visible
  <1>4. PlayersFade(Lists', Len(listReplies'), joined', newcomers')
    <2>1. CASE listReplies' = Append(listReplies, List)
      <3>1. PlayersFade(Lists', Len(listReplies'), joined, newcomers)
        BY <1>1, <1>2, <1>3, <2>1, ListAppended DEF PollsOK
      <3> QED
        BY <3>1
    <2>2. CASE listReplies' = listReplies
      <3>1. Lists' = Lists
        BY <2>2 DEF Lists
      <3> QED
        BY <1>3, <2>2, <3>1
    <2> QED
      BY <2>1, <2>2
  <1>5. ASSUME NEW p \in Player, Hidden(p)
        PROVE  Hidden(p)'
    <2>1. \A i \in 1 .. Len(listReplies') : listReplies'[i] = List \/
             (i \in 1 .. Len(listReplies) /\ listReplies'[i] = listReplies[i])
      <3>1. CASE listReplies' = Append(listReplies, List)
        BY <1>1, <1>2, <3>1, AppendFacts DEF PollsOK
      <3>2. CASE listReplies' = listReplies
        BY <3>2
      <3> QED
        BY <3>1, <3>2
    <2> QED
      BY <1>2, <1>5, <2>1 DEF Hidden
  <1> QED
    BY <1>4, <1>5

LEMMA RequestVisible ==
  ASSUME Inv, Visible, NEW kind \in asking, HandleFirst(kind) \/ FirstFails(kind)
  PROVE  Visible'
  <1>1. /\ UNCHANGED <<server, view, mishaps>>
        /\ listReplies' = Append(listReplies, List) \/ listReplies' = listReplies
    BY DEF HandleFirst, FirstFails
  <1>2. UNCHANGED <<joined, newcomers, mishaps, players, current, held, scene, lostObjects>>
    BY <1>1 DEF server, view
  <1>3. current \subseteq Player
    BY DEF Inv, Typing, TypeOK
  <1> QED
    BY <1>1, <1>2, <1>3, ListedVisible DEF Visible, Drawn, Lying

LEMMA ArriveStateVisible ==
  ASSUME Inv, Visible, NEW i \in 1 .. Len(stateReplies), ArriveState(i)
  PROVE  Visible'
  <1> DEFINE x == stateReplies[i]
  <1>1. UNCHANGED <<joined, newcomers, listReplies, players>> /\ mishaps \subseteq mishaps'
    BY DEF ArriveState, server, Reorders, view
  <1>2. /\ PlayersFade(Lists, Len(listReplies), joined, newcomers)
           => PlayersFade(Lists', Len(listReplies'), joined', newcomers')
        /\ \A p \in Player : Hidden(p) => Hidden(p)'
    <2>1. Lists' = Lists
      BY <1>1 DEF Lists
    <2> QED
      BY <1>1, <2>1 DEF Hidden
  <1>3. CASE x # Unauthorized /\ playersLoaded
    <2>1. ApplyState(x) /\ x \in Answer /\ current \subseteq Player
      BY <1>3, ElementOfSeq DEF ArriveState, Inv, Typing, TypeOK
    <2>2. /\ Lying' \subseteq scene' /\ scene \subseteq scene' /\ current' = DOMAIN x.bags
          /\ \A p \in current' : (p \in current => Drawn(p)) => Drawn(p)'
      BY <2>1, ApplyStateDraws DEF Inv, Visible
    <2> QED
      BY <1>1, <1>2, <2>1, <2>2 DEF Visible
  <1>4. CASE ~(x # Unauthorized /\ playersLoaded)
    <2>1. UNCHANGED <<current, held, lostObjects, scene>> /\ current \subseteq Player
      BY <1>4 DEF ArriveState, view, Inv, Typing, TypeOK
    <2> QED
      BY <1>1, <1>2, <2>1 DEF Visible, Lying, Drawn
  <1> QED
    BY <1>3, <1>4

LEMMA ArriveListVisible ==
  ASSUME Inv, Visible, NEW i \in 1 .. Len(listReplies), ArriveList(i)
  PROVE  Visible'
  <1> DEFINE ps == listReplies[i]
  <1>1. /\ UNCHANGED <<joined, newcomers>> /\ mishaps \subseteq mishaps'
        /\ listReplies' = Without(listReplies, i)
        /\ "late" \notin mishaps' => i = 1
    BY DEF ArriveList, server, Reorders
  <1>2. /\ listReplies \in Seq(SUBSET Player) /\ ps \in SUBSET Player
        /\ current \subseteq Player /\ players \subseteq Player
    BY ElementOfSeq DEF Inv, Typing, TypeOK
  <1>3. \A k \in 1 .. Len(listReplies') : \E j \in 1 .. Len(listReplies) :
           j # i /\ listReplies'[k] = listReplies[j]
    <2>1. /\ Len(listReplies) \in Nat /\ Len(listReplies') = Len(listReplies) - 1
          /\ \A k \in 1 .. Len(listReplies) - 1 :
                listReplies'[k] = IF k < i THEN listReplies[k] ELSE listReplies[k + 1]
      BY <1>1, <1>2, WithoutFacts, LenProperties
    <2> SUFFICES ASSUME NEW k \in 1 .. Len(listReplies')
                 PROVE  \E j \in 1 .. Len(listReplies) :
                           j # i /\ listReplies'[k] = listReplies[j]
      OBVIOUS
    <2>2. CASE k < i
      <3>1. k \in 1 .. Len(listReplies) /\ k # i /\ listReplies'[k] = listReplies[k]
        BY <2>1, <2>2
      <3> QED
        BY <3>1
    <2>3. CASE ~(k < i)
      <3>1. k + 1 \in 1 .. Len(listReplies) /\ k + 1 # i /\ listReplies'[k] = listReplies[k + 1]
        BY <2>1, <2>3
      <3> QED
        BY <3>1
    <2> QED
      BY <2>2, <2>3
  <1>4. players' = ps \/ players' = players
    BY DEF ArriveList, view, UpdatePlayersList
  <1>5. ASSUME NEW p, Hidden(p)
        PROVE  Hidden(p)'
    BY <1>1, <1>3, <1>4, <1>5 DEF Hidden
  <1>6. ASSUME "late" \notin mishaps'
        PROVE  PlayersFade(Lists', Len(listReplies'), joined', newcomers')
    <2>1. i = 1 /\ PlayersFade(Lists, Len(listReplies), joined, newcomers)
      BY <1>1, <1>6 DEF Visible
    <2>2. Len(listReplies) >= 1
      BY <1>2
    <2>3. PlayersFade(Lists', Len(listReplies'), joined, newcomers)
      BY <1>1, <1>2, <1>4, <2>1, <2>2, FirstListGone
    <2> QED
      BY <1>1, <2>3
  <1>7. CASE ps = NoPlayers
    <2>1. UNCHANGED <<current, held, lostObjects, scene>>
      BY <1>7 DEF ArriveList, view
    <2> QED
      BY <1>1, <1>5, <1>6, <2>1 DEF Visible, Lying, Drawn
  <1>8. CASE ps # NoPlayers /\ stateLoaded /\ ~playersLoaded
    <2>1. ApplyState(desiredState) /\ desiredState \in Answer /\ current = {}
      BY <1>8 DEF ArriveList, Inv, Typing, Blank, started
    <2>2. /\ Lying' \subseteq scene'
          /\ \A p \in current' : (p \in current => Drawn(p)) => Drawn(p)'
      BY <2>1, ApplyStateDraws DEF Inv, Visible
    <2> QED
      BY <1>6, <2>1, <2>2 DEF Visible
  <1>9. CASE ps # NoPlayers /\ ~(stateLoaded /\ ~playersLoaded)
    <2>1. UpdatePlayersList(ps)
      BY <1>9 DEF ArriveList
    <2>2. /\ players' = ps
          /\ scene' = scene \ UNION {{held[p][l] : l \in DOMAIN held[p]} : p \in players \ ps}
          /\ UNCHANGED <<current, lostObjects, disappearingLoot>>
          /\ \A p \in Player : IF p \in (players \ ps) \ current THEN DOMAIN held'[p] = {}
                                                                 ELSE held'[p] = held[p]
      BY <1>2, <2>1, UpdatePlayersPlaces DEF Inv
    <2>3. \A o \in scene : o \notin scene' =>
             \E q \in players \ ps : \E l \in DOMAIN held[q] : o = held[q][l]
      BY <2>2
    <2>4. HasOnePlace
      BY DEF Inv, Places
    <2>5. Lying' \subseteq scene'
      <3>1. Lying' = Lying
        BY <2>2 DEF Lying
      <3>2. \A q \in players \ ps : \A l \in DOMAIN held[q] : held[q][l] \in Held
        BY <1>2 DEF Held
      <3> QED
        BY <2>3, <2>4, <3>1, <3>2 DEF HasOnePlace, Visible
    <2>6. ASSUME "late" \notin mishaps', NEW p \in current
          PROVE  Hidden(p)' \/ Drawn(p)'
      <3>1. CASE Hidden(p)
        BY <1>5, <3>1
      <3>2. CASE ~Hidden(p) /\ p \in players \ ps
        <4>1. /\ i = 1 /\ PlayersFade(Lists, Len(listReplies), joined, newcomers)
              /\ Len(listReplies) \in Nat
          BY <1>1, <1>2, <2>6, LenProperties DEF Visible
        <4>2. Lists[0] = players /\ Lists[1] = ps
              /\ \A k \in 1 .. Len(listReplies) : Lists[k] = listReplies[k]
          BY <4>1 DEF Lists
        <4>3. /\ p \notin joined \cup newcomers
              /\ \A k \in 0 .. Len(listReplies) : 1 < k => p \notin Lists[k]
          BY <1>9, <3>2, <4>1, <4>2 DEF PlayersFade, NoPlayers
        <4>4. \A j \in 1 .. Len(listReplies) : p \notin listReplies[j]
          <5>1. ASSUME NEW j \in 1 .. Len(listReplies)
                PROVE  p \notin listReplies[j]
            <6>1. CASE j = 1
              BY <3>2, <4>1, <6>1
            <6>2. CASE j # 1
              BY <4>1, <4>2, <4>3, <6>2
            <6> QED
              BY <6>1, <6>2
          <5> QED
            BY <5>1
        <4> QED
          BY <1>1, <1>3, <2>2, <3>2, <4>3, <4>4 DEF Hidden
      <3>3. CASE ~Hidden(p) /\ p \notin players \ ps
        <4>1. Drawn(p) /\ held'[p] = held[p] /\ p \in Player
          BY <1>1, <1>2, <2>2, <2>6, <3>3 DEF Visible
        <4>2. ASSUME NEW l \in DOMAIN held[p]
              PROVE  held[p][l] \in scene'
          <5>1. \A q \in players \ ps : \A m \in DOMAIN held[q] : held[p][l] # held[q][m]
            BY <1>2, <2>4, <3>3, <4>1, <4>2 DEF HasOnePlace
          <5> QED
            BY <2>3, <4>1, <4>2, <5>1 DEF Drawn
        <4> QED
          BY <4>1, <4>2 DEF Drawn
      <3> QED
        BY <3>1, <3>2, <3>3
    <2> QED
      BY <1>6, <2>2, <2>5, <2>6 DEF Visible
  <1> QED
    BY <1>7, <1>8, <1>9

LEMMA TickVisible ==
  ASSUME Inv, Visible, NEW askState \in BOOLEAN, NEW askList \in BOOLEAN, NEW due,
         Tick(askState, askList, due)
  PROVE  Visible'
  <1>1. /\ ProcessDisappearingLoot(due)
        /\ UNCHANGED <<server, players, current, held, lostObjects, mishaps>>
        /\ listReplies' = Append(listReplies, List) \/ listReplies' = listReplies
    BY DEF Tick
  <1>2. UNCHANGED <<joined, newcomers, mishaps, players>> /\ current \subseteq Player
    BY <1>1 DEF server, Inv, Typing, TypeOK
  <1>3. \A o \in scene : o \notin scene' => o \in Vanishing
    <2>1. /\ due \subseteq DOMAIN disappearingLoot
          /\ scene' = scene \ {disappearingLoot[l] : l \in due}
      BY <1>1, ProcessDisappearingPlaces DEF Inv
    <2> QED
      BY <2>1 DEF Vanishing
  <1>4. Lying' \subseteq scene'
    BY <1>1, <1>3 DEF Lying, Visible, Inv, Places, HasOnePlace
  <1>5. ASSUME NEW p \in current, Drawn(p)
        PROVE  Drawn(p)'
    <2>1. \A l \in DOMAIN held[p] : held[p][l] \in Held
      BY <1>2 DEF Held
    <2> QED
      BY <1>1, <1>3, <1>5, <2>1 DEF Drawn, Inv, Places, HasOnePlace
  <1> QED
    BY <1>1, <1>2, <1>4, <1>5, ListedVisible DEF Visible

LEMMA NextVisible == Inv /\ Visible /\ [Next]_vars => Visible'
  <1> SUFFICES ASSUME Inv, Visible, [Next]_vars PROVE Visible'
    OBVIOUS
  <1>1. CASE UNCHANGED vars
    BY <1>1 DEF vars, server, polls, view, Visible, Lying, Drawn, Hidden, Lists
  <1>2. CASE Next
    BY <1>2, PlayVisible, RequestVisible, ArriveStateVisible, ArriveListVisible, TickVisible
       DEF Next
  <1> QED
    BY <1>1, <1>2

(* Unless a reply was overtaken, or a player left too early, the objects   *)
(* in the bag of every player on the page are drawn: _updatePlayersList,   *)
(* which takes the bag of a player off the scene, never hits another bag,  *)
(* nor a player who is, or will be, on the page.                           *)
THEOREM CarriedLootIsDrawn == Spec => []CarriedLootIsVisible
  <1>1. Init => Inv /\ Visible
    BY InitInv, InitVisible
  <1>2. Inv /\ Visible /\ [Next]_vars => (Inv /\ Visible)'
    BY NextInv, NextVisible
  <1>3. Inv /\ Visible => CarriedLootIsVisible
    BY DEF Visible, Hidden, Drawn, CarriedLootIsVisible
  <1> QED
    BY <1>1, <1>2, <1>3, PTL DEF Spec

-----------------------------------------------------------------------------
(* What states show of the loot, one after the other.                      *)

Shown(x, l) == l \in x.lost \/ \E p \in DOMAIN x.bags : l \in x.bags[p]

(* What is in a bag in one state is in a later one in this bag or nowhere. *)
Follows(x, y) ==
    \A p \in DOMAIN x.bags : \A l \in x.bags[p] :
       l \notin y.lost /\ \A q \in DOMAIN y.bags : l \in y.bags[q] => q = p

(* States, up to n, and the game they were drawn from.  In each of them an *)
(* object has one place; what was shown and is missed in a later state is  *)
(* gone from the game and from all states after it; what is to come is not *)
(* shown.  A state without players says nothing.                           *)
LootFades(states, n, game, coming) ==
    /\ \A i \in 0 .. n : Follows(states[i], game) /\ \A l \in coming : ~Shown(states[i], l)
    /\ \A i, k \in 0 .. n : i <= k => Follows(states[i], states[k])
    /\ \A i, k \in 0 .. n : i < k /\ DOMAIN states[k].bags # {} =>
          \A l : Shown(states[i], l) /\ ~Shown(states[k], l) =>
             /\ ~Shown(game, l)
             /\ \A m \in 0 .. n : k < m => ~Shown(states[m], l)

(* The game goes on: what lies or is carried lay before, was carried by    *)
(* the same player, or is new.                                             *)
GoesOn(game, coming, game_next, coming_next) ==
    /\ coming_next \subseteq coming
    /\ \A l \in game_next.lost : l \in game.lost \cup coming
    /\ DOMAIN game_next.bags \subseteq DOMAIN game.bags
    /\ \A p \in DOMAIN game_next.bags : \A l \in game_next.bags[p] :
          l \in game.bags[p] \cup game.lost

LEMMA LootOnServer ==
  ASSUME NEW states, NEW n \in Nat, NEW game, NEW coming, NEW game_next, NEW coming_next,
         LootFades(states, n, game, coming), GoesOn(game, coming, game_next, coming_next)
  PROVE  LootFades(states, n, game_next, coming_next)
  <1>1. ASSUME NEW i \in 0 .. n
        PROVE  Follows(states[i], game_next) /\ \A l \in coming_next : ~Shown(states[i], l)
    <2>1. Follows(states[i], game) /\ \A l \in coming : ~Shown(states[i], l)
      BY DEF LootFades
    <2>2. \A p \in DOMAIN states[i].bags : \A l \in states[i].bags[p] : l \notin coming
      BY <2>1 DEF Shown
    <2> QED
      BY <2>1, <2>2 DEF Follows, GoesOn
  <1>2. ASSUME NEW i \in 0 .. n, NEW k \in 0 .. n, i < k, DOMAIN states[k].bags # {},
               NEW l, Shown(states[i], l), ~Shown(states[k], l)
        PROVE  /\ ~Shown(game_next, l)
               /\ \A m \in 0 .. n : k < m => ~Shown(states[m], l)
    <2>1. /\ ~Shown(game, l) /\ l \notin coming
          /\ \A m \in 0 .. n : k < m => ~Shown(states[m], l)
      BY <1>2 DEF LootFades
    <2>2. ~Shown(game_next, l)
      BY <2>1 DEF Shown, GoesOn
    <2> QED
      BY <2>1, <2>2
  <1>3. \A i, k \in 0 .. n : i <= k => Follows(states[i], states[k])
    BY DEF LootFades
  <1> QED
    BY <1>1, <1>2, <1>3 DEF LootFades

LEMMA LootPicked ==
  ASSUME NEW states, NEW n \in Nat, NEW game, NEW coming, NEW m \in Nat, NEW picked,
         NEW f, Picks(picked, m, states, n, f), LootFades(states, n, game, coming)
  PROVE  LootFades(picked, m, game, coming)
  <1> USE DEF Picks
  <1>1. \A i \in 0 .. m : Follows(picked[i], game) /\ \A l \in coming : ~Shown(picked[i], l)
    BY DEF LootFades
  <1>2. ASSUME NEW i \in 0 .. m, NEW k \in 0 .. m, i <= k
        PROVE  Follows(picked[i], picked[k])
    <2>1. f[i] \in 0 .. n /\ f[k] \in 0 .. n /\ f[i] <= f[k]
      <3>1. i < k \/ i = k
        BY <1>2
      <3> QED
        BY <3>1
    <2> QED
      BY <2>1 DEF LootFades
  <1>3. ASSUME NEW i \in 0 .. m, NEW k \in 0 .. m, i < k, DOMAIN picked[k].bags # {},
               NEW l, Shown(picked[i], l), ~Shown(picked[k], l)
        PROVE  /\ ~Shown(game, l)
               /\ \A j \in 0 .. m : k < j => ~Shown(picked[j], l)
    <2>1. /\ f[i] \in 0 .. n /\ f[k] \in 0 .. n /\ f[i] < f[k] /\ DOMAIN states[f[k]].bags # {}
          /\ Shown(states[f[i]], l) /\ ~Shown(states[f[k]], l)
      BY <1>3
    <2>2. /\ ~Shown(game, l)
          /\ \A j \in 0 .. n : f[k] < j => ~Shown(states[j], l)
      BY <2>1 DEF LootFades
    <2> QED
      BY <2>2
  <1> QED
    BY <1>1, <1>2, <1>3 DEF LootFades

(* One more state: the game itself, of those who play, or nothing.         *)
Portrays(x, game) ==
    /\ x.lost \subseteq game.lost
    /\ DOMAIN x.bags \subseteq DOMAIN game.bags
    /\ \A p \in DOMAIN x.bags : x.bags[p] \subseteq game.bags[p]
    /\ DOMAIN x.bags # {} => \A l : Shown(game, l) => Shown(x, l)

LEMMA LootAppended ==
  ASSUME NEW states, NEW n \in Nat, NEW game, NEW coming, NEW longer,
         LootFades(states, n, game, coming), Continues(longer, states, n),
         Portrays(longer[n + 1], game), Follows(game, game), \A l \in coming : ~Shown(game, l)
  PROVE  LootFades(longer, n + 1, game, coming)
  <1> USE DEF Continues
  <1> DEFINE x == longer[n + 1]
  <1>1. \A i \in 0 .. n + 1 : i \in 0 .. n \/ i = n + 1
    OBVIOUS
  <1>2. \A l : Shown(x, l) => Shown(game, l)
    BY DEF Portrays, Shown
  <1>3. \A y : Follows(y, game) => Follows(y, x)
    BY DEF Follows, Portrays
  <1>4. Follows(x, game)
    BY DEF Follows, Portrays
  <1>5. \A i \in 0 .. n + 1 : Follows(longer[i], game) /\ \A l \in coming : ~Shown(longer[i], l)
    BY <1>1, <1>2, <1>4 DEF LootFades
  <1>6. ASSUME NEW i \in 0 .. n + 1, NEW k \in 0 .. n + 1, i <= k
        PROVE  Follows(longer[i], longer[k])
    <2>1. CASE k = n + 1
      BY <1>3, <1>5, <2>1
    <2>2. CASE k \in 0 .. n
      <3>1. i \in 0 .. n
        BY <1>6, <2>2
      <3> QED
        BY <1>6, <2>2, <3>1 DEF LootFades
    <2> QED
      BY <1>1, <2>1, <2>2
  <1>7. ASSUME NEW i \in 0 .. n + 1, NEW k \in 0 .. n + 1, i < k, DOMAIN longer[k].bags # {},
               NEW l, Shown(longer[i], l), ~Shown(longer[k], l)
        PROVE  /\ ~Shown(game, l)
               /\ \A m \in 0 .. n + 1 : k < m => ~Shown(longer[m], l)
    <2>1. CASE k = n + 1
      BY <1>7, <2>1 DEF Portrays
    <2>2. CASE k \in 0 .. n
      <3>1. i \in 0 .. n
        BY <1>7, <2>2
      <3>2. /\ ~Shown(game, l)
            /\ \A m \in 0 .. n : k < m => ~Shown(longer[m], l)
        BY <1>7, <2>2, <3>1 DEF LootFades
      <3> QED
        BY <1>1, <1>2, <3>2
    <2> QED
      BY <1>1, <2>1, <2>2
  <1> QED
    BY <1>5, <1>6, <1>7 DEF LootFades

-----------------------------------------------------------------------------
(* Nothing stays in the scene.  The invariant, in parts: they hold while   *)
(* nothing has gone out of the way.                                        *)

Undisturbed == mishaps \cap {"late", "shared"} = {}

(* The game as the server knows it: an object has one place in it.         *)
Game == [bags |-> bag, lost |-> lost]

Tidy ==
    /\ Follows(Game, Game)
    /\ \A l \in unborn : ~Shown(Game, l)
    /\ \A p \in Player \ joined : bag[p] = {}

Spent(l) == ~Shown(Game, l) /\ l \notin unborn
HasLeft(p) == p \notin joined \cup newcomers

(* The state the page shows, or is about to show, and those on their way.  *)
PageView == [bags |-> [p \in current |-> DOMAIN held[p]], lost |-> DOMAIN lostObjects]

States == [i \in 0 .. Len(stateReplies) |->
              IF i > 0 THEN stateReplies[i] ELSE IF started THEN PageView ELSE desiredState]

StatePlayers == [i \in 0 .. Len(stateReplies) |-> DOMAIN States[i].bags]

StatesFade ==
    /\ PlayersFade(StatePlayers, Len(stateReplies), joined, newcomers)
    /\ LootFades(States, Len(stateReplies), Game, unborn)

(* What vanishes is gone from the game, and will not be shown again.       *)
VanishingIsSpent ==
    \A l \in DOMAIN disappearingLoot :
       Spent(l) /\ \A i \in 0 .. Len(stateReplies) : ~Shown(States[i], l)

(* Players leave when the page shows them as they are, and the page drops  *)
(* them piece by piece: the list takes their objects off the scene, the    *)
(* state makes it forget their bags.                                       *)
Leaves(p) ==
    /\ \A i \in 1 .. Len(stateReplies) : p \in DOMAIN stateReplies[i].bags =>
          p \in current /\ stateReplies[i].bags[p] = DOMAIN held[p]
    /\ p \notin players => \A l \in DOMAIN held[p] : held[p][l] \notin scene

Leavers ==
    /\ ~started => \A p \in Player : ~HasLeft(p)
    /\ \A p \in Player : HasLeft(p) => Leaves(p)
    /\ \A p \in Player \ current : DOMAIN held[p] # {} =>
          /\ HasLeft(p) /\ p \in players
          /\ \A i \in 1 .. Len(stateReplies) : p \notin DOMAIN stateReplies[i].bags

Known == scene \subseteq Held \cup Lying \cup Vanishing

(* A state without players is a refusal.                                   *)
IsAnswered(x) == DOMAIN x.bags = {} => x = Unauthorized

Ghostless ==
    Undisturbed =>
       /\ \A i \in 1 .. Len(stateReplies) : IsAnswered(stateReplies[i])
       /\ Tidy /\ StatesFade /\ VanishingIsSpent /\ Leavers /\ Known

LEMMA GameFacts ==
  ASSUME ServerOK
  PROVE  /\ DOMAIN Game.bags = Player /\ Game.bags = bag /\ Game.lost = lost
         /\ \A l : Shown(Game, l) <=> l \in lost \/ \E p \in Player : l \in bag[p]
         /\ Follows(Game, Game) <=>
               \A p \in Player : \A l \in bag[p] :
                  l \notin lost /\ \A q \in Player : l \in bag[q] => q = p
  <1>1. DOMAIN Game.bags = Player /\ Game.bags = bag /\ Game.lost = lost
    BY DEF ServerOK, Game
  <1> QED
    BY <1>1 DEF Shown, Follows

LEMMA Alone ==
  ASSUME NEW S \in SUBSET Player, S # {}, ~(Cardinality(S) > 1)
  PROVE  \E p \in Player : S = {p}
  <1>1. IsFiniteSet(S)
    BY ConstantsAssumption, FS_Subset
  <1>2. Cardinality(S) \in Nat /\ Cardinality(S) # 0
    BY <1>1, FS_CardinalityType, FS_EmptySet
  <1>3. Cardinality(S) = 1
    BY <1>2
  <1> QED
    BY <1>1, <1>3, FS_Singleton

(* A step of the game while nothing goes out of the way.                   *)
LEMMA PlayGoesOn ==
  ASSUME Inv, Tidy, Play, Undisturbed'
  PROVE  /\ GoesOn(Game, unborn, Game', unborn')
         /\ Tidy'
         /\ \A p \in Player : HasLeft(p)' => HasLeft(p) \/ Settled(p)
  <1>1. ServerOK /\ ServerOK'
    <2>1. Inv'
      BY PlayInv
    <2>2. Typing' <=> (ServerOK /\ PollsOK /\ ViewOK /\ RestOK)'
      BY TypingSplit, PTL
    <2> QED
      BY <2>1, <2>2, TypingSplit DEF Inv
  <1>2. /\ \A l : Shown(Game, l) <=> l \in lost \/ \E p \in Player : l \in bag[p]
        /\ \A p \in Player : \A l \in bag[p] :
              l \notin lost /\ \A q \in Player : l \in bag[q] => q = p
        /\ \A l \in unborn : l \notin lost /\ \A p \in Player : l \notin bag[p]
        /\ \A p \in Player \ joined : bag[p] = {}
    BY <1>1, GameFacts DEF Tidy
  <1> DEFINE Continued == /\ unborn' \subseteq unborn
                          /\ \A l \in lost' : l \in lost \cup unborn
                          /\ \A p \in Player : \A l \in bag'[p] : l \in bag[p] \cup lost
             OnePlaced == /\ \A p \in Player : \A l \in bag'[p] :
                                l \notin lost' /\ \A q \in Player : l \in bag'[q] => q = p
                          /\ \A l \in unborn' : l \notin lost' /\ \A p \in Player : l \notin bag'[p]
                          /\ \A p \in Player \ joined' : bag'[p] = {}
             Left == \A p \in Player : HasLeft(p)' => HasLeft(p) \/ Settled(p)
  <1>3. Continued /\ OnePlaced /\ Left
    <2> USE <1>1, <1>2 DEF ServerOK, HasLeft
    <2>1. ASSUME NEW p \in Player, Join(p)
          PROVE  Continued /\ OnePlaced /\ Left
      BY <2>1 DEF Join
    <2>2. ASSUME NEW p \in Player, VisitOffice(p)
          PROVE  Continued /\ OnePlaced /\ Left
      BY <2>2 DEF VisitOffice
    <2>3. ASSUME NEW p \in Player, ErasePlayer(p)
          PROVE  Continued /\ OnePlaced /\ Left
      <3>1. Settled(p)
        BY <2>3 DEF ErasePlayer, Undisturbed
      <3> QED
        BY <2>3, <3>1 DEF ErasePlayer
    <2>4. ASSUME NEW l \in Loot, GenerateLoot(l)
          PROVE  Continued /\ OnePlaced /\ Left
      BY <2>4 DEF GenerateLoot
    <2>5. ASSUME NEW l \in Loot, NEW gatherers \in SUBSET Player, Gather(gatherers, l)
          PROVE  Continued /\ OnePlaced /\ Left
      <3>1. PICK p \in Player : gatherers = {p}
        <4>1. gatherers # {} /\ ~(Cardinality(gatherers) > 1)
          BY <2>5 DEF Gather, Undisturbed
        <4> QED
          BY <4>1, Alone
      <3>2. /\ l \in lost /\ lost' = lost \ {l} /\ p \in joined
            /\ \A q \in Player : bag'[q] = IF q = p THEN bag[q] \cup {l} ELSE bag[q]
            /\ UNCHANGED <<unborn, joined, newcomers>>
        BY <2>5, <3>1 DEF Gather
      <3> QED
        BY <3>2
    <2>6. ASSUME EraseToken
          PROVE  Continued /\ OnePlaced /\ Left
      BY <2>6 DEF EraseToken
    <2> HIDE DEF Continued, OnePlaced, Left
    <2> QED
      BY <2>1, <2>2, <2>3, <2>4, <2>5, <2>6 DEF Play
  <1>4. /\ DOMAIN Game.bags = Player /\ Game.bags = bag /\ Game.lost = lost
        /\ DOMAIN Game'.bags = Player /\ Game'.bags = bag' /\ Game'.lost = lost'
    BY <1>1 DEF ServerOK, Game
  <1>5. GoesOn(Game, unborn, Game', unborn')
    BY <1>3, <1>4 DEF GoesOn
  <1>6. Tidy'
    BY <1>3, <1>4 DEF Tidy, Follows, Shown
  <1> QED
    BY <1>3, <1>5, <1>6

LEMMA InitGhostless == Init => Ghostless
  <1> SUFFICES ASSUME Init PROVE Ghostless
    OBVIOUS
  <1>1. /\ stateReplies = <<>> /\ Len(stateReplies) = 0 /\ ~started /\ desiredState = Unauthorized
        /\ current = {} /\ scene = {} /\ DOMAIN disappearingLoot = {}
        /\ bag = [p \in Player |-> {}] /\ lost = {} /\ newcomers = Player \ joined
        /\ \A p \in Player : DOMAIN held[p] = {}
    BY DEF Init, NoObjects, started
  <1>2. \A l : ~Shown(Game, l)
    BY <1>1 DEF Shown, Game
  <1>3. Tidy
    BY <1>1, <1>2 DEF Tidy, Follows, Game
  <1>4. States[0] = Unauthorized /\ \A l : ~Shown(States[0], l)
    BY <1>1, AnswerFacts DEF States, Shown
  <1>5. StatesFade
    <2>1. StatePlayers[0] = {}
      BY <1>1, <1>4, AnswerFacts DEF StatePlayers
    <2>2. PlayersFade(StatePlayers, 0, joined, newcomers)
      BY <2>1 DEF PlayersFade
    <2>3. \A x : Follows(States[0], x)
      BY <1>4, AnswerFacts DEF Follows
    <2>4. LootFades(States, 0, Game, unborn)
      BY <1>4, <2>3 DEF LootFades
    <2> QED
      BY <1>1, <2>2, <2>4 DEF StatesFade
  <1>6. Leavers /\ VanishingIsSpent /\ Known
    BY <1>1 DEF Leavers, VanishingIsSpent, Known, HasLeft
  <1> QED
    BY <1>1, <1>3, <1>5, <1>6 DEF Ghostless

LEMMA PlayGhostless ==
  ASSUME Inv, Ghostless, Play
  PROVE  Ghostless'
  <1>1. /\ UNCHANGED <<polls, view, page>>
        /\ newcomers' \subseteq newcomers
        /\ joined' \cup newcomers' \subseteq joined \cup newcomers
        /\ mishaps \subseteq mishaps'
    BY PlayFacts
  <1>2. Undisturbed => \A i \in 1 .. Len(stateReplies') : IsAnswered(stateReplies'[i])
    BY <1>1 DEF Ghostless, polls
  <1>3. ASSUME Undisturbed'
        PROVE  Undisturbed /\ Tidy' /\ StatesFade' /\ VanishingIsSpent' /\ Leavers' /\ Known'
    <2>1. Undisturbed
      BY <1>1, <1>3 DEF Undisturbed
    <2>2. Tidy /\ StatesFade /\ VanishingIsSpent /\ Leavers /\ Known
      BY <2>1 DEF Ghostless
    <2>3. /\ GoesOn(Game, unborn, Game', unborn')
          /\ Tidy'
          /\ \A p \in Player : HasLeft(p)' => HasLeft(p) \/ Settled(p)
      BY <1>3, <2>2, PlayGoesOn
    <2>4. /\ States' = States /\ StatePlayers' = StatePlayers
          /\ stateReplies' = stateReplies /\ Len(stateReplies) \in Nat
      BY <1>1 DEF States, StatePlayers, PageView, started, polls, view, Inv, Typing, TypeOK
    <2>5. StatesFade'
      <3>1. PlayersFade(StatePlayers, Len(stateReplies), joined', newcomers')
        BY <1>1, <2>2, <2>4, FadeOnServer DEF StatesFade
      <3>2. LootFades(States, Len(stateReplies), Game', unborn')
        BY <2>2, <2>3, <2>4, LootOnServer DEF StatesFade
      <3> QED
        BY <2>4, <3>1, <3>2 DEF StatesFade
    <2>6. VanishingIsSpent'
      <3>1. \A l : Spent(l) => Spent(l)'
        BY <2>3 DEF Spent, GoesOn, Shown
      <3>2. disappearingLoot' = disappearingLoot
        BY <1>1 DEF view
      <3> QED
        BY <2>2, <2>4, <3>1, <3>2 DEF VanishingIsSpent
    <2>7. Leavers'
      <3>1. UNCHANGED <<players, current, held, scene, started>> /\ stateReplies' = stateReplies
        BY <1>1 DEF view, polls, started
      <3>2. \A p \in Player : HasLeft(p) => HasLeft(p)'
        BY <1>1 DEF HasLeft
      <3>3. \A p \in Player : Settled(p) => Leaves(p) /\ started
        <4>1. DOMAIN held = Player /\ Len(stateReplies) \in Nat
          BY DEF Inv, Typing, TypeOK
        <4> QED
          BY <4>1 DEF Settled, Leaves
      <3>4. \A p \in Player : Leaves(p)' <=> Leaves(p)
        BY <3>1 DEF Leaves
      <3> QED
        BY <2>2, <2>3, <3>1, <3>2, <3>3, <3>4 DEF Leavers
    <2>8. Known'
      BY <1>1, <2>2 DEF Known, Held, Lying, Vanishing, view
    <2> QED
      BY <2>1, <2>3, <2>5, <2>6, <2>7, <2>8
  <1> QED
    BY <1>2, <1>3 DEF Ghostless

(* A state that is answered.                                               *)
LEMMA StateAppended ==
  ASSUME Inv, Tidy, StatesFade, stateReplies' = Append(stateReplies, State),
         UNCHANGED <<server, stateLoaded, playersLoaded, desiredState, current, held, lostObjects>>
  PROVE  /\ Len(stateReplies') = Len(stateReplies) + 1
         /\ \A i \in 1 .. Len(stateReplies) : stateReplies'[i] = stateReplies[i]
         /\ stateReplies'[Len(stateReplies) + 1] = State
         /\ \A i \in 0 .. Len(stateReplies) : States'[i] = States[i]
         /\ States'[Len(stateReplies) + 1] = State
         /\ IsAnswered(State) /\ DOMAIN State.bags \subseteq joined
         /\ \A l : Shown(State, l) => Shown(Game, l)
         /\ StatesFade'
  <1>1. ServerOK /\ PollsOK
    BY TypingSplit DEF Inv
  <1>2. State \in Answer
    BY StateIsAnswer DEF Inv, Typing
  <1>3. /\ Len(stateReplies) \in Nat
        /\ Len(stateReplies') = Len(stateReplies) + 1
        /\ \A i \in 1 .. Len(stateReplies) : stateReplies'[i] = stateReplies[i]
        /\ stateReplies'[Len(stateReplies) + 1] = State
    BY <1>1, <1>2, AppendFacts, LenProperties DEF PollsOK
  <1>4. PageView' = PageView /\ started' = started
    BY DEF PageView, started
  <1>5. /\ \A i \in 0 .. Len(stateReplies) : States'[i] = States[i]
        /\ States'[Len(stateReplies) + 1] = State
    BY <1>3, <1>4 DEF States
  <1>6. \/ State = Unauthorized
        \/ State = [bags |-> [p \in joined |-> bag[p]], lost |-> lost]
    BY DEF State
  <1>7. DOMAIN State.bags \in {joined, {}}
    <2>1. CASE State = Unauthorized
      BY <2>1, AnswerFacts
    <2>2. CASE State = [bags |-> [p \in joined |-> bag[p]], lost |-> lost]
      <3>1. State.bags = [p \in joined |-> bag[p]]
        BY <2>2
      <3> QED
        BY <3>1
    <2> QED
      BY <1>6, <2>1, <2>2
  <1>8. Portrays(State, Game)
    <2>1. joined \subseteq Player /\ \A p \in Player \ joined : bag[p] = {}
      BY <1>1 DEF ServerOK, Tidy
    <2>2. CASE State = Unauthorized
      BY <2>2, AnswerFacts DEF Portrays
    <2>3. CASE State = [bags |-> [p \in joined |-> bag[p]], lost |-> lost]
      <3>1. /\ DOMAIN State.bags = joined /\ State.lost = lost
            /\ \A p \in joined : State.bags[p] = bag[p]
        BY <2>3
      <3>2. \A l : Shown(Game, l) => Shown(State, l)
        BY <1>1, <2>1, <3>1, GameFacts DEF Shown
      <3> QED
        BY <1>1, <2>1, <3>1, <3>2, GameFacts DEF Portrays
    <2> QED
      BY <1>6, <2>2, <2>3
  <1>9. PlayersFade(StatePlayers', Len(stateReplies'), joined, newcomers)
    <2>1. Continues(StatePlayers', StatePlayers, Len(stateReplies))
      BY <1>3, <1>5 DEF Continues, StatePlayers
    <2>2. StatePlayers'[Len(stateReplies) + 1] \in {joined, {}}
      BY <1>3, <1>5, <1>7 DEF StatePlayers
    <2>3. joined \cap newcomers = {}
      BY <1>1 DEF ServerOK
    <2> QED
      BY <1>3, <2>1, <2>2, <2>3, FadeAppended DEF StatesFade
  <1>10. LootFades(States', Len(stateReplies'), Game, unborn)
    <2>1. Continues(States', States, Len(stateReplies))
      BY <1>3, <1>5 DEF Continues
    <2>2. Portrays(States'[Len(stateReplies) + 1], Game)
      BY <1>5, <1>8
    <2>3. LootFades(States', Len(stateReplies) + 1, Game, unborn)
      BY <1>3, <2>1, <2>2, LootAppended DEF StatesFade, Tidy
    <2> QED
      BY <1>3, <2>3
  <1>11. UNCHANGED <<joined, newcomers, unborn, Game>>
    BY DEF server, Game
  <1>12. IsAnswered(State)
    <2> SUFFICES ASSUME State # Unauthorized PROVE DOMAIN State.bags # {}
      BY DEF IsAnswered
    <2>1. joined # {} /\ State = [bags |-> [p \in joined |-> bag[p]], lost |-> lost]
      BY DEF State
    <2>2. State.bags = [p \in joined |-> bag[p]]
      BY <2>1
    <2> QED
      BY <2>1, <2>2
  <1>13. \A l : Shown(State, l) => Shown(Game, l)
    BY <1>8 DEF Portrays, Shown
  <1>14. StatesFade'
    BY <1>9, <1>10, <1>11 DEF StatesFade
  <1> QED
    BY <1>3, <1>5, <1>7, <1>12, <1>13, <1>14

(* What a request, a poll and the passing of time leave as it is.          *)
LEMMA PolledGhostless ==
  ASSUME Inv, Ghostless,
         UNCHANGED <<server, stateLoaded, playersLoaded, desiredState, players, current, held,
                     lostObjects, mishaps>>,
         \/ stateReplies' = Append(stateReplies, State)
         \/ stateReplies' = stateReplies,
         DOMAIN disappearingLoot' \subseteq DOMAIN disappearingLoot, scene' \subseteq scene
  PROVE  Undisturbed' =>
            /\ \A i \in 1 .. Len(stateReplies') : IsAnswered(stateReplies'[i])
            /\ Tidy' /\ StatesFade' /\ VanishingIsSpent' /\ Leavers'
  <1> SUFFICES ASSUME Undisturbed'
               PROVE  /\ \A i \in 1 .. Len(stateReplies') : IsAnswered(stateReplies'[i])
                      /\ Tidy' /\ StatesFade' /\ VanishingIsSpent' /\ Leavers'
    OBVIOUS
  <1>1. /\ \A i \in 1 .. Len(stateReplies) : IsAnswered(stateReplies[i])
        /\ Tidy /\ StatesFade /\ VanishingIsSpent /\ Leavers
    BY DEF Ghostless, Undisturbed
  <1>2. /\ UNCHANGED <<joined, newcomers, bag, lost, unborn, Game, started, PageView>>
        /\ Len(stateReplies) \in Nat
    BY DEF server, Game, started, PageView, Inv, Typing, TypeOK
  <1>3. Tidy'
    BY <1>1, <1>2 DEF Tidy
  <1>4. /\ Len(stateReplies') \in Nat
        /\ \A i \in 1 .. Len(stateReplies') :
              \/ i \in 1 .. Len(stateReplies) /\ stateReplies'[i] = stateReplies[i]
              \/ IsAnswered(stateReplies'[i]) /\ DOMAIN stateReplies'[i].bags \subseteq joined
        /\ \A i \in 0 .. Len(stateReplies') :
              \/ i \in 0 .. Len(stateReplies) /\ States'[i] = States[i]
              \/ \A l : Shown(States'[i], l) => Shown(Game, l)
        /\ StatesFade'
    <2>1. CASE stateReplies' = Append(stateReplies, State)
      <3>1. /\ Len(stateReplies') = Len(stateReplies) + 1
            /\ \A i \in 1 .. Len(stateReplies) : stateReplies'[i] = stateReplies[i]
            /\ stateReplies'[Len(stateReplies) + 1] = State
            /\ \A i \in 0 .. Len(stateReplies) : States'[i] = States[i]
            /\ States'[Len(stateReplies) + 1] = State
            /\ IsAnswered(State) /\ DOMAIN State.bags \subseteq joined
            /\ \A l : Shown(State, l) => Shown(Game, l)
            /\ StatesFade'
        BY <1>1, <2>1, StateAppended
      <3>2. \A i \in 0 .. Len(stateReplies) + 1 :
               i \in 0 .. Len(stateReplies) \/ i = Len(stateReplies) + 1
        BY <1>2
      <3> QED
        BY <1>2, <3>1, <3>2
    <2>2. CASE stateReplies' = stateReplies
      <3>1. States' = States /\ StatePlayers' = StatePlayers
        BY <1>2, <2>2 DEF States, StatePlayers
      <3> QED
        BY <1>1, <1>2, <2>2, <3>1 DEF StatesFade
    <2> QED
      BY <2>1, <2>2
  <1>5. \A i \in 1 .. Len(stateReplies') : IsAnswered(stateReplies'[i])
    BY <1>1, <1>4
  <1>6. VanishingIsSpent'
    <2>1. \A l : Spent(l) => Spent(l)' /\ ~Shown(Game, l)
      BY <1>2 DEF Spent
    <2> QED
      BY <1>1, <1>4, <2>1 DEF VanishingIsSpent
  <1>7. Leavers'
    <2>1. \A p \in Player : HasLeft(p)' <=> HasLeft(p)
      BY <1>2 DEF HasLeft
    <2>2. \A p \in Player : HasLeft(p) =>
             \A i \in 1 .. Len(stateReplies') : p \in DOMAIN stateReplies'[i].bags =>
                i \in 1 .. Len(stateReplies) /\ stateReplies'[i] = stateReplies[i]
      BY <1>4 DEF HasLeft
    <2>3. \A p \in Player : HasLeft(p) /\ Leaves(p) => Leaves(p)'
      BY <2>2 DEF Leaves
    <2> QED
      BY <1>1, <1>2, <2>1, <2>2, <2>3 DEF Leavers
  <1> QED
    BY <1>3, <1>4, <1>5, <1>6, <1>7

LEMMA RequestGhostless ==
  ASSUME Inv, Ghostless, NEW kind \in asking, HandleFirst(kind) \/ FirstFails(kind)
  PROVE  Ghostless'
  <1>1. /\ UNCHANGED <<server, view, mishaps>>
        /\ stateReplies' = Append(stateReplies, State) \/ stateReplies' = stateReplies
    BY DEF HandleFirst, FirstFails
  <1>2. Undisturbed' =>
            /\ \A i \in 1 .. Len(stateReplies') : IsAnswered(stateReplies'[i])
            /\ Tidy' /\ StatesFade' /\ VanishingIsSpent' /\ Leavers'
    <2>1. /\ UNCHANGED <<server, stateLoaded, playersLoaded, desiredState, players, current, held,
                         lostObjects, mishaps>>
          /\ DOMAIN disappearingLoot' \subseteq DOMAIN disappearingLoot /\ scene' \subseteq scene
      BY <1>1 DEF view
    <2> QED
      BY <1>1, <2>1, PolledGhostless
  <1>3. Known => Known'
    BY <1>1 DEF Known, Held, Lying, Vanishing, view
  <1> QED
    BY <1>1, <1>2, <1>3 DEF Ghostless, Undisturbed

LEMMA TickGhostless ==
  ASSUME Inv, Ghostless, NEW askState \in BOOLEAN, NEW askList \in BOOLEAN, NEW due,
         Tick(askState, askList, due)
  PROVE  Ghostless'
  <1>1. /\ ProcessDisappearingLoot(due)
        /\ UNCHANGED <<server, stateLoaded, playersLoaded, desiredState, players, current, held,
                       lostObjects, mishaps>>
        /\ stateReplies' = Append(stateReplies, State) \/ stateReplies' = stateReplies
    BY DEF Tick
  <1>2. /\ due \subseteq DOMAIN disappearingLoot
        /\ DOMAIN disappearingLoot' = DOMAIN disappearingLoot \ due
        /\ \A l \in DOMAIN disappearingLoot' : disappearingLoot'[l] = disappearingLoot[l]
        /\ scene' = scene \ {disappearingLoot[l] : l \in due}
    BY <1>1, ProcessDisappearingPlaces DEF Inv
  <1>3. Undisturbed' =>
            /\ \A i \in 1 .. Len(stateReplies') : IsAnswered(stateReplies'[i])
            /\ Tidy' /\ StatesFade' /\ VanishingIsSpent' /\ Leavers'
    <2>1. DOMAIN disappearingLoot' \subseteq DOMAIN disappearingLoot /\ scene' \subseteq scene
      BY <1>2
    <2> QED
      BY <1>1, <2>1, PolledGhostless
  <1>4. Known => Known'
    <2>1. Held' = Held /\ Lying' = Lying
      BY <1>1 DEF Held, Lying
    <2>2. Vanishing \ {disappearingLoot[l] : l \in due} \subseteq Vanishing'
      BY <1>2 DEF Vanishing
    <2> QED
      BY <1>2, <2>1, <2>2 DEF Known
  <1> QED
    BY <1>1, <1>3, <1>4 DEF Ghostless, Undisturbed

(* The first state has arrived: it is what the page shows from now on, or  *)
(* it was a refusal, and the page shows what it did.                       *)
LEMMA FirstStateGone ==
  ASSUME Inv, StatesFade, Len(stateReplies) >= 1, stateReplies' = Without(stateReplies, 1),
         UNCHANGED server, States'[0] \in {States[0], States[1]}
  PROVE  /\ Len(stateReplies') \in Nat /\ Len(stateReplies) = Len(stateReplies') + 1
         /\ \A i \in 1 .. Len(stateReplies') : stateReplies'[i] = stateReplies[i + 1]
         /\ \A i \in 1 .. Len(stateReplies') : States'[i] = States[i + 1]
         /\ StatesFade'
  <1> DEFINE n == Len(stateReplies)
             m == Len(stateReplies')
             first == [i \in 0 .. m |-> i + 1]
             skip == [i \in 0 .. m |-> IF i = 0 THEN 0 ELSE i + 1]
  <1>1. stateReplies \in Seq(Answer)
    BY DEF Inv, Typing
  <1>2. n \in Nat /\ m \in Nat /\ m = n - 1
        /\ \A k \in 1 .. m : stateReplies'[k] = stateReplies[k + 1]
    <2>1. n \in Nat /\ 1 \in 1 .. n
      BY <1>1, LenProperties
    <2>2. /\ m = n - 1
          /\ \A k \in 1 .. n - 1 : stateReplies'[k] = IF k < 1 THEN stateReplies[k]
                                                               ELSE stateReplies[k + 1]
      BY <1>1, <2>1, WithoutFacts
    <2> QED
      BY <2>1, <2>2
  <1>3. /\ \A i \in 1 .. m : States'[i] = States[i + 1]
        /\ \A i \in 0 .. m : StatePlayers'[i] = DOMAIN States'[i].bags
        /\ \A i \in 0 .. n : StatePlayers[i] = DOMAIN States[i].bags
    BY <1>2 DEF States, StatePlayers
  <1>4. \E f : Picks(States', m, States, n, f) /\ Picks(StatePlayers', m, StatePlayers, n, f)
    <2>1. CASE States'[0] = States[1]
      <3>1. \A i \in 0 .. m : States'[i] = States[first[i]]
        BY <1>2, <1>3, <2>1
      <3>2. first \in [0 .. m -> 0 .. n] /\ \A i, k \in 0 .. m : i < k => first[i] < first[k]
        BY <1>2
      <3> HIDE DEF m, n, first
      <3>3. \A i \in 0 .. m : StatePlayers'[i] = StatePlayers[first[i]]
        BY <1>3, <3>1, <3>2
      <3> QED
        BY <1>2, <3>1, <3>2, <3>3 DEF Picks
    <2>2. CASE States'[0] = States[0]
      <3>1. \A i \in 0 .. m : States'[i] = States[skip[i]]
        BY <1>2, <1>3, <2>2
      <3>2. skip \in [0 .. m -> 0 .. n] /\ \A i, k \in 0 .. m : i < k => skip[i] < skip[k]
        BY <1>2
      <3> HIDE DEF m, n, skip
      <3>3. \A i \in 0 .. m : StatePlayers'[i] = StatePlayers[skip[i]]
        BY <1>3, <3>1, <3>2
      <3> QED
        BY <1>2, <3>1, <3>2, <3>3 DEF Picks
    <2> QED
      BY <2>1, <2>2
  <1>5. PICK f : Picks(States', m, States, n, f) /\ Picks(StatePlayers', m, StatePlayers, n, f)
    BY <1>4
  <1>6. /\ PlayersFade(StatePlayers, n, joined, newcomers)
        /\ LootFades(States, n, Game, unborn)
    BY DEF StatesFade
  <1>7. PlayersFade(StatePlayers', m, joined, newcomers) /\ LootFades(States', m, Game, unborn)
    <2> HIDE DEF m, n
    <2> QED
      BY <1>2, <1>5, <1>6, FadePicked, LootPicked
  <1>8. UNCHANGED <<joined, newcomers, unborn, Game>>
    BY DEF server, Game
  <1> QED
    BY <1>2, <1>3, <1>7, <1>8 DEF StatesFade

(* What the page shows, and the state that comes next.                     *)
LEMMA PageFacts ==
  ASSUME Inv, StatesFade, VanishingIsSpent
  PROVE  /\ \A p, l : Carries(p, l) =>
               l \notin DOMAIN lostObjects /\ \A q : Carries(q, l) => q = p
         /\ \A l \in DOMAIN disappearingLoot :
               l \notin DOMAIN lostObjects /\ \A p : ~Carries(p, l)
  <1>1. CASE ~started
    BY <1>1 DEF Inv, Blank, Carries
  <1>2. CASE started
    <2>1. States[0] = PageView /\ 0 \in 0 .. Len(stateReplies)
      BY <1>2 DEF States, Inv, Typing, TypeOK
    <2>2. /\ DOMAIN PageView.bags = current /\ PageView.lost = DOMAIN lostObjects
          /\ \A p \in current : PageView.bags[p] = DOMAIN held[p]
      BY DEF PageView
    <2>3. Follows(PageView, PageView)
      BY <2>1 DEF StatesFade, LootFades
    <2>4. \A l \in DOMAIN disappearingLoot : ~Shown(PageView, l)
      BY <2>1 DEF VanishingIsSpent
    <2> QED
      BY <2>2, <2>3, <2>4 DEF Carries, Follows, Shown
  <1> QED
    BY <1>1, <1>2

LEMMA NextStateFacts ==
  ASSUME Inv, StatesFade, Len(stateReplies) >= 1, NEW x, x = stateReplies[1]
  PROVE  /\ \A p, l : Carries(p, l) =>
               l \notin x.lost /\ \A q \in DOMAIN x.bags : l \in x.bags[q] => q = p
         /\ DOMAIN x.bags # {} =>
               /\ \A l : /\ l \in DOMAIN lostObjects \/ \E p : Carries(p, l)
                         /\ ~Shown(x, l)
                         => /\ Spent(l)
                            /\ \A m \in 2 .. Len(stateReplies) : ~Shown(stateReplies[m], l)
               /\ \A p \in current \ DOMAIN x.bags :
                     /\ HasLeft(p)
                     /\ \A m \in 2 .. Len(stateReplies) : p \notin DOMAIN stateReplies[m].bags
  <1>1. CASE ~started
    BY <1>1 DEF Inv, Blank, Carries
  <1>2. CASE started
    <2>1. /\ States[0] = PageView /\ States[1] = x
          /\ 0 \in 0 .. Len(stateReplies) /\ 1 \in 0 .. Len(stateReplies) /\ 0 < 1 /\ 0 <= 1
          /\ \A m \in 2 .. Len(stateReplies) :
                States[m] = stateReplies[m] /\ m \in 0 .. Len(stateReplies) /\ 1 < m
      BY <1>2 DEF States, Inv, Typing, TypeOK
    <2>2. /\ DOMAIN PageView.bags = current /\ PageView.lost = DOMAIN lostObjects
          /\ \A p \in current : PageView.bags[p] = DOMAIN held[p]
      BY DEF PageView
    <2>3. Follows(PageView, x)
      BY <2>1 DEF StatesFade, LootFades
    <2>4. ASSUME DOMAIN x.bags # {}, NEW l, Shown(PageView, l), ~Shown(x, l)
          PROVE  /\ Spent(l)
                 /\ \A m \in 2 .. Len(stateReplies) : ~Shown(stateReplies[m], l)
      <3>1. LootFades(States, Len(stateReplies), Game, unborn)
        BY DEF StatesFade
      <3>2. l \notin unborn
        BY <2>1, <2>4, <3>1 DEF LootFades
      <3>3. /\ ~Shown(Game, l)
            /\ \A m \in 0 .. Len(stateReplies) : 1 < m => ~Shown(States[m], l)
        BY <2>1, <2>4, <3>1 DEF LootFades
      <3> QED
        BY <2>1, <3>2, <3>3 DEF Spent
    <2>5. ASSUME DOMAIN x.bags # {}, NEW p \in current \ DOMAIN x.bags
          PROVE  /\ HasLeft(p)
                 /\ \A m \in 2 .. Len(stateReplies) : p \notin DOMAIN stateReplies[m].bags
      <3>1. /\ StatePlayers[0] = current /\ StatePlayers[1] = DOMAIN x.bags
            /\ \A m \in 2 .. Len(stateReplies) : StatePlayers[m] = DOMAIN stateReplies[m].bags
        BY <2>1, <2>2 DEF StatePlayers
      <3>2. /\ p \notin joined \cup newcomers
            /\ \A m \in 0 .. Len(stateReplies) : 1 < m => p \notin StatePlayers[m]
        BY <2>1, <2>5, <3>1 DEF StatesFade, PlayersFade
      <3> QED
        BY <2>1, <3>1, <3>2 DEF HasLeft
    <2>6. \A l : l \in DOMAIN lostObjects \/ (\E p : Carries(p, l)) => Shown(PageView, l)
      BY <2>2 DEF Carries, Shown
    <2>7. \A p, l : Carries(p, l) =>
             l \notin x.lost /\ \A q \in DOMAIN x.bags : l \in x.bags[q] => q = p
      BY <2>2, <2>3 DEF Carries, Follows
    <2> QED
      BY <2>4, <2>5, <2>6, <2>7
  <1> QED
    BY <1>1, <1>2

(* What goes on to vanish when a state is applied is not in that state.    *)
LEMMA DroppedIsMissing ==
  ASSUME Inv, NEW x \in Answer,
         \A p, l : Carries(p, l) => l \notin DOMAIN lostObjects,
         \A p, l : Carries(p, l) =>
            l \notin x.lost /\ \A q \in DOMAIN x.bags : l \in x.bags[q] => q = p,
         NEW l \in DOMAIN Dropped(x), l \notin DOMAIN disappearingLoot
  PROVE  /\ l \in DOMAIN lostObjects \/ \E p : Carries(p, l)
         /\ ~Shown(x, l)
  <1>1. CASE l \in LeftOver(x)
    <2>1. l \in Abandoned(x) /\ \A p \in Player : ~Takes(x, p, l)
      BY <1>1 DEF LeftOver
    <2>2. l \in DOMAIN lostObjects /\ l \notin x.lost
      BY <2>1 DEF Abandoned
    <2>3. ASSUME NEW q \in DOMAIN x.bags, l \in x.bags[q]
          PROVE  FALSE
      <3> DEFINE lacking == {p \in Player : l \in Lacking(x, p)}
      <3>1. q \in Player /\ ~Carries(q, l)
        BY <2>2, AnswerFacts
      <3>2. q \in lacking
        BY <2>3, <3>1, OldBagFacts DEF Lacking
      <3>3. PICK first \in lacking : \A p \in lacking : ~(p < first)
        <4> HIDE DEF lacking
        <4>1. lacking \subseteq Player /\ lacking # {}
          BY <3>2 DEF lacking
        <4> QED
          BY <4>1, FirstPlayer
      <3>4. Takes(x, first, l)
        BY <2>1, <3>3 DEF Takes
      <3> QED
        BY <2>1, <3>3, <3>4
    <2> QED
      BY <2>2, <2>3 DEF Shown
  <1>2. CASE l \notin LeftOver(x)
    <2>1. PICK p \in Dropping(x, l) : TRUE
      BY <1>2, DroppedFacts DEF Inv
    <2>2. Carries(p, l) /\ p \in DOMAIN x.bags /\ l \notin x.bags[p]
      BY <2>1, DroppingFacts
    <2> QED
      BY <2>2 DEF Shown
  <1> QED
    BY <1>1, <1>2

LEMMA ApplyStateKnown ==
  ASSUME Inv, Known, NEW x \in Answer, ApplyState(x),
         \A p, l : Carries(p, l) =>
            l \notin DOMAIN lostObjects /\ \A q : Carries(q, l) => q = p,
         \A l \in DOMAIN disappearingLoot :
            l \notin DOMAIN lostObjects /\ \A p : ~Carries(p, l),
         \A p \in DOMAIN x.bags \ current : DOMAIN held[p] = {},
         \A p \in Player \ DOMAIN x.bags : p \notin players' =>
            \A l \in DOMAIN held[p] : held[p][l] \notin scene
  PROVE  Known'
  <1>1. Typing /\ Places
    BY DEF Inv
  <1>3. DOMAIN lostObjects' = x.lost /\ disappearingLoot' = Dropped(x)
    BY LostNext DEF ApplyState
  <1>4. \A p \in Player : \A l \in DOMAIN held'[p] : held'[p][l] \in Held'
    BY DEF Held
  <1>5. \A l \in DOMAIN Dropped(x) : Dropped(x)[l] \in Vanishing'
    BY <1>3 DEF Vanishing
  <1>6. \A l \in x.lost : lostObjects'[l] \in Lying'
    BY <1>3 DEF Lying
  <1>7. ASSUME NEW l \in DOMAIN lostObjects
        PROVE  lostObjects[l] \in Held' \cup Lying' \cup Vanishing'
    <2>1. CASE l \in x.lost
      <3>1. lostObjects'[l] = lostObjects[l]
        BY <1>7, <2>1, LostNext
      <3> QED
        BY <1>6, <2>1, <3>1
    <2>2. CASE l \notin x.lost /\ \E p \in Player : Takes(x, p, l)
      <3>1. PICK p \in Player : Takes(x, p, l)
        BY <2>2
      <3>2. p \in DOMAIN x.bags /\ l \in x.bags[p] /\ ~Carries(p, l) /\ l \in DOMAIN held'[p]
        BY <1>1, <3>1, TakesFacts, HeldNext
      <3>3. ~Kept(x, p, l) /\ ~Made(x, p, l)
        BY <3>1, <3>2 DEF Kept, Made, Carries, Creates
      <3>4. held'[p][l] = lostObjects[l]
        BY <1>1, <3>2, <3>3, HeldNext DEF Taken
      <3>5. held'[p][l] \in Held'
        BY <1>4, <3>2
      <3> QED
        BY <3>4, <3>5
    <2>3. CASE l \notin x.lost /\ ~\E p \in Player : Takes(x, p, l)
      <3>1. l \in LeftOver(x)
        BY <1>7, <2>3 DEF LeftOver, Abandoned
      <3>2. l \in DOMAIN Dropped(x) /\ Dropped(x)[l] = lostObjects[l]
        BY <1>1, <3>1, DroppedFacts
      <3> QED
        BY <1>5, <3>2
    <2> QED
      BY <2>1, <2>2, <2>3
  <1>8. ASSUME NEW p \in Player, NEW l \in DOMAIN held[p], held[p][l] \in scene
        PROVE  held[p][l] \in Held' \cup Lying' \cup Vanishing'
    <2>1. CASE p \notin DOMAIN x.bags
      <3>1. held'[p] = held[p]
        BY <1>1, <1>8, <2>1, HeldNext
      <3> QED
        BY <1>4, <1>8, <3>1
    <2>2. CASE p \in DOMAIN x.bags /\ l \in x.bags[p]
      <3>1. Carries(p, l) /\ l \in DOMAIN held'[p]
        BY <1>1, <1>8, <2>2, HeldNext DEF Carries
      <3>2. ~Taken(x, p, l) /\ ~Made(x, p, l)
        BY <1>8, <3>1, TakesFacts DEF Taken, Made
      <3>3. held'[p][l] = held[p][l]
        BY <1>1, <1>8, <3>1, <3>2, HeldNext DEF Kept
      <3> QED
        BY <1>4, <1>8, <3>1, <3>3
    <2>3. CASE p \in DOMAIN x.bags /\ l \notin x.bags[p]
      <3>1. Carries(p, l)
        BY <1>8, <2>3 DEF Carries
      <3>2. p \in Dropping(x, l)
        BY <2>3, <3>1, DroppingFacts
      <3>3. \A q \in Dropping(x, l) : q = p
        BY <3>1, DroppingFacts
      <3>4. l \notin LeftOver(x)
        BY <3>1 DEF LeftOver, Abandoned
      <3>5. l \in DOMAIN Dropped(x)
        BY <1>1, <3>2, DroppedFacts
      <3>6. Dropped(x)[l] = held[p][l]
        BY <1>1, <3>2, <3>3, <3>4, <3>5, DroppedFacts
      <3> QED
        BY <1>5, <3>5, <3>6
    <2> QED
      BY <2>1, <2>2, <2>3
  <1>9. ASSUME NEW l \in DOMAIN disappearingLoot
        PROVE  disappearingLoot[l] \in Held' \cup Lying' \cup Vanishing'
    <2>1. l \notin LeftOver(x)
      BY <1>9 DEF LeftOver, Abandoned
    <2>2. Dropping(x, l) = {}
      BY <1>9, DroppingFacts
    <2>3. l \in DOMAIN Dropped(x) /\ Dropped(x)[l] = disappearingLoot[l]
      BY <1>1, <1>9, <2>1, <2>2, DroppedFacts
    <2> QED
      BY <1>5, <2>3
  <1>10. ASSUME NEW o \in scene
         PROVE  o \in Held' \cup Lying' \cup Vanishing'
    <2>1. o \in Held \/ o \in Lying \/ o \in Vanishing
      BY <1>10 DEF Known
    <2>2. \/ \E p \in Player : \E l \in DOMAIN held[p] : o = held[p][l]
          \/ \E l \in DOMAIN lostObjects : o = lostObjects[l]
          \/ \E l \in DOMAIN disappearingLoot : o = disappearingLoot[l]
      BY <2>1 DEF Held, Lying, Vanishing
    <2> QED
      BY <1>7, <1>8, <1>9, <1>10, <2>2
  <1>11. \A o \in scene' \ scene : o \in Held' \cup Lying'
    <2> DEFINE created == UNION {{held'[p][l] : l \in {m \in x.bags[p] : Creates(x, p, m)}} :
                                    p \in DOMAIN x.bags}
    <2>1. scene' = scene \cup {lostObjects'[l] : l \in x.lost} \cup created
      BY DEF ApplyState
    <2>2. ASSUME NEW p \in DOMAIN x.bags, NEW l \in x.bags[p]
          PROVE  held'[p][l] \in Held'
      <3>1. p \in Player /\ l \in DOMAIN held'[p]
        BY <1>1, <2>2, HeldNext, AnswerFacts
      <3> QED
        BY <1>4, <3>1
    <2>3. created \subseteq Held'
      BY <2>2
    <2> HIDE DEF created
    <2> QED
      BY <1>6, <2>1, <2>3
  <1> QED
    BY <1>10, <1>11 DEF Known

LEMMA PageShowsState ==
  ASSUME Typing, NEW x \in Answer, ApplyState(x)
  PROVE  PageView' = x
  <1>1. PICK P \in SUBSET Player : x.bags \in [P -> SUBSET Loot]
    BY DEF Answer
  <1>2. x = [bags |-> x.bags, lost |-> x.lost]
    BY DEF Answer
  <1>3. /\ current' = DOMAIN x.bags /\ DOMAIN lostObjects' = x.lost
        /\ \A p \in DOMAIN x.bags : DOMAIN held'[p] = x.bags[p]
    BY HeldNext, LostNext DEF ApplyState
  <1>4. [p \in current' |-> DOMAIN held'[p]] = x.bags
    BY <1>1, <1>3
  <1>5. PageView' = [bags |-> [p \in current' |-> DOMAIN held'[p]], lost |-> DOMAIN lostObjects']
    BY DEF PageView
  <1> QED
    BY <1>2, <1>3, <1>4, <1>5

(* A player who has left, when a state is applied that still has it.       *)
LEMMA LeaverStaysOff ==
  ASSUME Inv, Places', NEW x \in Answer, ApplyState(x), NEW p \in DOMAIN x.bags,
         p \in current, x.bags[p] = DOMAIN held[p],
         \A l \in DOMAIN held[p] : held[p][l] \notin scene
  PROVE  \A l \in DOMAIN held'[p] : held'[p][l] \notin scene'
  <1>1. Typing /\ p \in Player /\ DOMAIN held'[p] = x.bags[p]
    BY HeldNext, AnswerFacts DEF Inv
  <1> SUFFICES ASSUME NEW l \in DOMAIN held'[p], held'[p][l] \in scene'
               PROVE  FALSE
    OBVIOUS
  <1>2. Carries(p, l)
    BY <1>1 DEF Carries
  <1>3. held'[p][l] = held[p][l]
    <2>1. ~Taken(x, p, l) /\ ~Made(x, p, l)
      BY <1>1, <1>2, TakesFacts DEF Taken, Made
    <2> QED
      BY <1>1, <2>1, HeldNext DEF Kept
  <1>4. HasOnePlace'
    BY DEF Places
  <1>5. held'[p][l] \notin Lying'
    <2>1. held'[p][l] \in Held'
      BY <1>1 DEF Held
    <2> QED
      BY <1>4, <2>1 DEF HasOnePlace
  <1>6. held'[p][l] \in UNION {{held'[q][k] : k \in {m \in x.bags[q] : Creates(x, q, m)}} :
                                 q \in DOMAIN x.bags}
    <2> DEFINE created == UNION {{held'[q][k] : k \in {m \in x.bags[q] : Creates(x, q, m)}} :
                                    q \in DOMAIN x.bags}
    <2>1. scene' = scene \cup {lostObjects'[k] : k \in x.lost} \cup created
      BY DEF ApplyState
    <2>2. Lying' = {lostObjects'[k] : k \in x.lost}
      BY LostNext DEF Lying
    <2>3. held'[p][l] \notin scene
      BY <1>1, <1>3
    <2> HIDE DEF created
    <2>4. held'[p][l] \in created
      BY <1>5, <2>1, <2>2, <2>3
    <2> QED
      BY <2>4 DEF created
  <1>7. PICK q \in DOMAIN x.bags :
           \E k \in x.bags[q] : Creates(x, q, k) /\ held'[p][l] = held'[q][k]
    BY <1>6
  <1>8. PICK k \in x.bags[q] : Creates(x, q, k) /\ held'[p][l] = held'[q][k]
    BY <1>7
  <1>9. q \in Player /\ k \in DOMAIN held'[q]
    BY <1>1, <1>8, HeldNext, AnswerFacts
  <1>10. q = p /\ k = l
    BY <1>1, <1>4, <1>8, <1>9 DEF HasOnePlace
  <1>11. l \in Lacking(x, p)
    BY <1>8, <1>10 DEF Creates
  <1> QED
    BY <1>1, <1>2, <1>11, OldBagFacts DEF Lacking

(* A state is applied to a page that has started, or is the last it needed *)
(* to start.                                                               *)
LEMMA ApplyStateGhostless ==
  ASSUME Inv, Places', Undisturbed, Ghostless, Len(stateReplies) >= 1, NEW x, x = stateReplies[1],
         x # Unauthorized, playersLoaded, ApplyState(x), stateReplies' = Without(stateReplies, 1),
         stateLoaded' = TRUE, UNCHANGED <<server, players, playersLoaded, desiredState>>
  PROVE  StatesFade' /\ VanishingIsSpent' /\ Leavers' /\ Known'
  <1>1. /\ \A i \in 1 .. Len(stateReplies) : IsAnswered(stateReplies[i])
        /\ Tidy /\ StatesFade /\ VanishingIsSpent /\ Leavers /\ Known
    BY DEF Ghostless
  <1>2. x \in Answer /\ 1 \in 1 .. Len(stateReplies) /\ Typing /\ Len(stateReplies) \in Nat
    BY ElementOfSeq, LenProperties DEF Inv, Typing
  <1>3. DOMAIN x.bags # {}
    BY <1>1, <1>2 DEF IsAnswered
  <1>4. States'[0] = x /\ States[1] = x
    <2>1. started' /\ PageView' = x
      BY <1>2, PageShowsState DEF started
    <2>2. Len(stateReplies') \in Nat
      <3>1. stateReplies' \in Seq(Answer)
        BY <1>2, WithoutFacts DEF Typing
      <3> QED
        BY <3>1, LenProperties
    <2> QED
      BY <1>2, <2>1, <2>2 DEF States
  <1>5. /\ Len(stateReplies') \in Nat /\ Len(stateReplies) = Len(stateReplies') + 1
        /\ \A i \in 1 .. Len(stateReplies') : stateReplies'[i] = stateReplies[i + 1]
        /\ \A i \in 1 .. Len(stateReplies') : States'[i] = States[i + 1]
        /\ StatesFade'
    BY <1>1, <1>4, FirstStateGone
  <1>6. /\ \A p, l : Carries(p, l) =>
              l \notin DOMAIN lostObjects /\ \A q : Carries(q, l) => q = p
        /\ \A l \in DOMAIN disappearingLoot :
              l \notin DOMAIN lostObjects /\ \A p : ~Carries(p, l)
    BY <1>1, PageFacts
  <1>7. /\ \A p, l : Carries(p, l) =>
              l \notin x.lost /\ \A q \in DOMAIN x.bags : l \in x.bags[q] => q = p
        /\ \A l : /\ l \in DOMAIN lostObjects \/ \E p : Carries(p, l)
                  /\ ~Shown(x, l)
                  => /\ Spent(l)
                     /\ \A m \in 2 .. Len(stateReplies) : ~Shown(stateReplies[m], l)
        /\ \A p \in current \ DOMAIN x.bags :
              /\ HasLeft(p)
              /\ \A m \in 2 .. Len(stateReplies) : p \notin DOMAIN stateReplies[m].bags
    BY <1>1, <1>3, NextStateFacts
  <1>8. /\ \A l : Spent(l)' <=> Spent(l)
        /\ \A p \in Player : HasLeft(p)' <=> HasLeft(p)
    BY DEF Spent, HasLeft, Game, server
  <1>9. \A i \in 1 .. Len(stateReplies') : i + 1 \in 2 .. Len(stateReplies)
    BY <1>5
  <1>10. VanishingIsSpent'
    <2> SUFFICES ASSUME NEW l \in DOMAIN Dropped(x)
                 PROVE  /\ Spent(l)
                        /\ \A i \in 0 .. Len(stateReplies') : ~Shown(States'[i], l)
      BY <1>8 DEF VanishingIsSpent, ApplyState
    <2>1. CASE l \in DOMAIN disappearingLoot
      <3>1. Spent(l) /\ \A i \in 0 .. Len(stateReplies) : ~Shown(States[i], l)
        BY <1>1, <2>1 DEF VanishingIsSpent
      <3>2. \A i \in 0 .. Len(stateReplies') : i + 1 \in 0 .. Len(stateReplies)
                                               /\ States'[i] = States[i + 1]
        <4>1. \A i \in 0 .. Len(stateReplies') : i = 0 \/ i \in 1 .. Len(stateReplies')
          OBVIOUS
        <4> QED
          BY <1>4, <1>5, <4>1
      <3> QED
        BY <3>1, <3>2
    <2>2. CASE l \notin DOMAIN disappearingLoot
      <3>1. /\ l \in DOMAIN lostObjects \/ \E p : Carries(p, l)
            /\ ~Shown(x, l)
        BY <1>2, <1>6, <1>7, <2>2, DroppedIsMissing
      <3>2. Spent(l) /\ \A m \in 2 .. Len(stateReplies) : ~Shown(stateReplies[m], l)
        BY <1>7, <3>1
      <3>3. \A m \in 2 .. Len(stateReplies) : States[m] = stateReplies[m]
        BY <1>2 DEF States
      <3>4. ASSUME NEW i \in 0 .. Len(stateReplies')
            PROVE  ~Shown(States'[i], l)
        <4>1. CASE i = 0
          BY <1>4, <3>1, <4>1
        <4>2. CASE i \in 1 .. Len(stateReplies')
          BY <1>5, <1>9, <3>2, <3>3, <4>2
        <4> QED
          BY <4>1, <4>2
      <3> QED
        BY <3>2, <3>4
    <2> QED
      BY <2>1, <2>2
  <1>11. Leavers'
    <2>1. started'
      BY DEF started
    <2>2. current' = DOMAIN x.bags /\ \A p \in DOMAIN x.bags : DOMAIN held'[p] = x.bags[p]
      BY <1>2, HeldNext DEF ApplyState
    <2>3. ASSUME NEW p \in Player, HasLeft(p)
          PROVE  Leaves(p)'
      <3>1. Leaves(p)
        BY <1>1, <2>3 DEF Leavers
      <3>2. p \in DOMAIN x.bags => p \in current /\ x.bags[p] = DOMAIN held[p]
        BY <1>2, <3>1 DEF Leaves
      <3>3. ASSUME NEW i \in 1 .. Len(stateReplies'), p \in DOMAIN stateReplies'[i].bags
            PROVE  p \in current' /\ stateReplies'[i].bags[p] = DOMAIN held'[p]
        <4>1. i + 1 \in 1 .. Len(stateReplies) /\ i + 1 \in 2 .. Len(stateReplies)
              /\ stateReplies'[i] = stateReplies[i + 1]
          BY <1>5, <1>9
        <4>2. p \in current /\ stateReplies'[i].bags[p] = DOMAIN held[p]
          BY <3>1, <3>3, <4>1 DEF Leaves
        <4>3. p \in DOMAIN x.bags
          BY <1>7, <3>3, <4>1, <4>2
        <4> QED
          BY <2>2, <3>2, <4>2, <4>3
      <3>4. ASSUME p \notin players'
            PROVE  \A l \in DOMAIN held'[p] : held'[p][l] \notin scene'
        <4>1. CASE p \in DOMAIN x.bags
          <5>1. \A l \in DOMAIN held[p] : held[p][l] \notin scene
            BY <3>1, <3>4 DEF Leaves
          <5> QED
            BY <1>2, <3>2, <4>1, <5>1, LeaverStaysOff
        <4>2. CASE p \notin DOMAIN x.bags
          BY <1>2, <3>4, <4>2, HeldNext
        <4> QED
          BY <4>1, <4>2
      <3> QED
        BY <3>3, <3>4 DEF Leaves
    <2>4. ASSUME NEW p \in Player \ current', DOMAIN held'[p] # {}
          PROVE  /\ HasLeft(p) /\ p \in players'
                 /\ \A i \in 1 .. Len(stateReplies') : p \notin DOMAIN stateReplies'[i].bags
      <3>1. p \in players' /\ held'[p] = held[p]
        BY <1>2, <2>2, <2>4, HeldNext
      <3>2. CASE p \in current
        BY <1>5, <1>7, <1>9, <2>2, <2>4, <3>1, <3>2
      <3>3. CASE p \notin current
        <4>1. /\ HasLeft(p)
              /\ \A i \in 1 .. Len(stateReplies) : p \notin DOMAIN stateReplies[i].bags
          BY <1>1, <2>4, <3>1, <3>3 DEF Leavers
        <4> QED
          BY <1>5, <3>1, <4>1
      <3> QED
        BY <3>2, <3>3
    <2> QED
      BY <1>8, <2>1, <2>3, <2>4 DEF Leavers
  <1>12. Known'
    <2>1. \A p \in DOMAIN x.bags \ current : DOMAIN held[p] = {}
      BY <1>1, <1>2, AnswerFacts DEF Leavers
    <2>2. ASSUME NEW p \in Player \ DOMAIN x.bags, p \notin players'
          PROVE  \A l \in DOMAIN held[p] : held[p][l] \notin scene
      <3>1. CASE p \in current
        BY <1>1, <1>7, <2>2, <3>1 DEF Leavers, Leaves
      <3>2. CASE p \notin current
        BY <1>1, <2>2, <3>2 DEF Leavers
      <3> QED
        BY <3>1, <3>2
    <2> QED
      BY <1>1, <1>2, <1>6, <2>1, <2>2, ApplyStateKnown
  <1> QED
    BY <1>5, <1>10, <1>11, <1>12

LEMMA ArriveStateGhostless ==
  ASSUME Inv, Ghostless, NEW i \in 1 .. Len(stateReplies), ArriveState(i)
  PROVE  Ghostless'
  <1> SUFFICES ASSUME Undisturbed'
               PROVE  /\ \A k \in 1 .. Len(stateReplies') : IsAnswered(stateReplies'[k])
                      /\ Tidy' /\ StatesFade' /\ VanishingIsSpent' /\ Leavers' /\ Known'
    BY DEF Ghostless
  <1> DEFINE x == stateReplies[1]
  <1>1. /\ UNCHANGED <<server, asking, listReplies>>
        /\ stateReplies' = Without(stateReplies, 1) /\ i = 1 /\ Undisturbed
        /\ Len(stateReplies) \in Nat /\ Len(stateReplies) >= 1
    <2>1. /\ i \in Int /\ i >= 1 /\ i =< Len(stateReplies) /\ Len(stateReplies) \in Nat
      BY DEF Inv, Typing, TypeOK
    <2>2. mishaps' = IF i > 1 THEN mishaps \cup {"late"} ELSE mishaps
      BY DEF ArriveState, Reorders
    <2>3. "late" \notin mishaps'
      BY DEF Undisturbed
    <2>4. ~(i > 1) /\ mishaps' = mishaps
      BY <2>2, <2>3
    <2>5. i = 1
      BY <2>1, <2>4
    <2>6. UNCHANGED <<server, asking, listReplies>> /\ stateReplies' = Without(stateReplies, 1)
      BY <2>5 DEF ArriveState
    <2>7. Undisturbed
      BY <2>4 DEF Undisturbed
    <2> QED
      BY <2>1, <2>5, <2>6, <2>7
  <1>2. /\ \A k \in 1 .. Len(stateReplies) : IsAnswered(stateReplies[k])
        /\ Tidy /\ StatesFade /\ VanishingIsSpent /\ Leavers /\ Known
    BY <1>1 DEF Ghostless
  <1>3. Tidy'
    BY <1>1, <1>2 DEF Tidy, Game, server
  <1>4. \A k \in 1 .. Len(stateReplies') : IsAnswered(stateReplies'[k])
    <2>1. /\ Len(stateReplies') = Len(stateReplies) - 1
          /\ \A k \in 1 .. Len(stateReplies) - 1 :
                stateReplies'[k] = IF k < 1 THEN stateReplies[k] ELSE stateReplies[k + 1]
      BY <1>1, WithoutFacts DEF Inv, Typing
    <2> QED
      BY <1>1, <1>2, <2>1
  <1>5. CASE x # Unauthorized /\ playersLoaded
    <2>1. /\ ApplyState(x) /\ stateLoaded' = TRUE
          /\ UNCHANGED <<players, playersLoaded, desiredState>>
      BY <1>1, <1>5 DEF ArriveState
    <2>2. Places'
      <3>1. Inv'
        BY ArriveStateInv
      <3> QED
        BY <3>1 DEF Inv
    <2>3. StatesFade' /\ VanishingIsSpent' /\ Leavers' /\ Known'
      BY <1>1, <1>5, <2>1, <2>2, ApplyStateGhostless
    <2> QED
      BY <1>3, <1>4, <2>3
  <1>6. CASE ~(x # Unauthorized /\ playersLoaded)
    <2>1. /\ UNCHANGED <<players, current, held, lostObjects, disappearingLoot, scene, playersLoaded>>
          /\ \/ UNCHANGED <<stateLoaded, desiredState>>
             \/ ~playersLoaded /\ desiredState' = x
      BY <1>1, <1>6 DEF ArriveState, view
    <2>2. started' = started /\ PageView' = PageView /\ (started => desiredState' = desiredState)
      BY <2>1 DEF started, PageView
    <2>3. States'[0] \in {States[0], States[1]}
      <3>1. Len(stateReplies') \in Nat /\ 1 \in 0 .. Len(stateReplies) /\ 0 \in 0 .. Len(stateReplies)
        BY <1>1, WithoutFacts DEF Inv, Typing
      <3>2. States'[0] = IF started THEN PageView ELSE desiredState'
        BY <2>2, <3>1 DEF States
      <3>3. States[0] = (IF started THEN PageView ELSE desiredState) /\ States[1] = x
        BY <3>1 DEF States
      <3> QED
        BY <2>1, <3>2, <3>3
    <2>4. /\ Len(stateReplies') \in Nat /\ Len(stateReplies) = Len(stateReplies') + 1
          /\ \A k \in 1 .. Len(stateReplies') : stateReplies'[k] = stateReplies[k + 1]
          /\ \A k \in 1 .. Len(stateReplies') : States'[k] = States[k + 1]
          /\ StatesFade'
      BY <1>1, <1>2, <2>3, FirstStateGone
    <2>5. \A l : Spent(l)' <=> Spent(l)
      BY <1>1 DEF Spent, Game, server
    <2>6. VanishingIsSpent'
      <3>1. \A k \in 0 .. Len(stateReplies') : \E j \in 0 .. Len(stateReplies) : States'[k] = States[j]
        <4>1. 0 \in 0 .. Len(stateReplies) /\ 1 \in 0 .. Len(stateReplies)
          BY <1>1
        <4>2. \A k \in 1 .. Len(stateReplies') : k + 1 \in 0 .. Len(stateReplies)
          BY <2>4
        <4>3. \A k \in 0 .. Len(stateReplies') : k = 0 \/ k \in 1 .. Len(stateReplies')
          OBVIOUS
        <4> QED
          BY <2>3, <2>4, <4>1, <4>2, <4>3
      <3> QED
        BY <1>2, <2>1, <2>5, <3>1 DEF VanishingIsSpent
    <2>7. Leavers'
      <3>1. \A p \in Player : HasLeft(p)' <=> HasLeft(p)
        BY <1>1 DEF HasLeft, server
      <3>2. \A k \in 1 .. Len(stateReplies') :
               k + 1 \in 1 .. Len(stateReplies) /\ stateReplies'[k] = stateReplies[k + 1]
        BY <2>4
      <3>3. \A p \in Player : Leaves(p) => Leaves(p)'
        BY <2>1, <3>2 DEF Leaves
      <3> QED
        BY <1>2, <2>1, <2>2, <3>1, <3>2, <3>3 DEF Leavers
    <2>8. Known'
      BY <1>2, <2>1 DEF Known, Held, Lying, Vanishing
    <2> QED
      BY <1>3, <1>4, <2>4, <2>6, <2>7, <2>8
  <1> QED
    BY <1>5, <1>6

LEMMA ArriveListGhostless ==
  ASSUME Inv, Ghostless, NEW i \in 1 .. Len(listReplies), ArriveList(i)
  PROVE  Ghostless'
  <1> SUFFICES ASSUME Undisturbed'
               PROVE  /\ \A k \in 1 .. Len(stateReplies') : IsAnswered(stateReplies'[k])
                      /\ Tidy' /\ StatesFade' /\ VanishingIsSpent' /\ Leavers' /\ Known'
    BY DEF Ghostless
  <1> DEFINE ps == listReplies[i]
  <1>1. UNCHANGED <<server, stateReplies>> /\ Undisturbed
    BY DEF ArriveList, Reorders, Undisturbed
  <1>2. /\ \A k \in 1 .. Len(stateReplies) : IsAnswered(stateReplies[k])
        /\ Tidy /\ StatesFade /\ VanishingIsSpent /\ Leavers /\ Known
    BY <1>1 DEF Ghostless
  <1>3. /\ UNCHANGED <<joined, newcomers, unborn, Game>> /\ Tidy'
        /\ \A l : Spent(l)' <=> Spent(l)
        /\ \A p \in Player : HasLeft(p)' <=> HasLeft(p)
    BY <1>1, <1>2 DEF Tidy, Game, server, Spent, HasLeft
  <1>4. ps \in SUBSET Player
    BY ElementOfSeq DEF Inv, Typing, TypeOK
  <1>5. CASE ps = NoPlayers
    <2>1. UNCHANGED view
      BY <1>5 DEF ArriveList
    <2>2. States' = States /\ StatePlayers' = StatePlayers
      BY <1>1, <2>1 DEF States, StatePlayers, PageView, started, view
    <2>3. StatesFade' /\ VanishingIsSpent'
      BY <1>1, <1>2, <1>3, <2>1, <2>2 DEF StatesFade, VanishingIsSpent, view
    <2>4. Leavers' /\ Known'
      BY <1>1, <1>2, <1>3, <2>1 DEF Leavers, Leaves, Known, Held, Lying, Vanishing, view, started
    <2> QED
      BY <1>1, <1>2, <1>3, <2>3, <2>4
  <1>6. CASE ps # NoPlayers /\ stateLoaded /\ ~playersLoaded
    <2>1. /\ playersLoaded' = TRUE /\ stateLoaded' = stateLoaded /\ players' = ps
          /\ ApplyState(desiredState)
      BY <1>6 DEF ArriveList
    <2>2. /\ ~started /\ started' /\ desiredState \in Answer /\ Typing
          /\ current = {} /\ DOMAIN lostObjects = {} /\ DOMAIN disappearingLoot = {}
          /\ \A p \in Player : DOMAIN held[p] = {}
      BY <1>6, <2>1 DEF started, Inv, Blank, Typing
    <2>3. \A p, l : ~Carries(p, l)
      BY <2>2 DEF Carries
    <2>4. States' = States /\ StatePlayers' = StatePlayers
      <3>1. PageView' = desiredState
        BY <2>1, <2>2, PageShowsState
      <3>2. States' = States
        BY <1>1, <2>2, <3>1 DEF States
      <3> QED
        BY <1>1, <3>2 DEF StatePlayers
    <2>5. StatesFade'
      BY <1>1, <1>2, <1>3, <2>4 DEF StatesFade
    <2>6. DOMAIN disappearingLoot' = {}
      <3>1. \A l : l \notin LeftOver(desiredState) /\ Dropping(desiredState, l) = {}
        BY <2>2, <2>3, DroppingFacts DEF LeftOver, Abandoned
      <3>2. \A l \in DOMAIN Dropped(desiredState) : FALSE
        BY <2>2, <3>1, DroppedFacts
      <3> QED
        BY <2>1, <3>2 DEF ApplyState
    <2>7. Leavers'
      <3>1. \A p \in Player : ~HasLeft(p)
        BY <1>2, <2>2 DEF Leavers
      <3>2. \A p \in Player \ current' : DOMAIN held'[p] = {}
        <4>1. current' = DOMAIN desiredState.bags
          BY <2>1 DEF ApplyState
        <4>2. \A p \in Player \ DOMAIN desiredState.bags :
                 DOMAIN held'[p] # {} => held'[p] = held[p]
          BY <2>1, <2>2, HeldNext
        <4> QED
          BY <2>2, <4>1, <4>2
      <3> QED
        BY <1>3, <2>2, <3>1, <3>2 DEF Leavers
    <2>8. Known'
      <3>1. desiredState \in Answer /\ ApplyState(desiredState) /\ Known
        BY <1>2, <2>1, <2>2
      <3>2. \A p, l : Carries(p, l) =>
               l \notin DOMAIN lostObjects /\ \A q : Carries(q, l) => q = p
        BY <2>3
      <3>3. \A l \in DOMAIN disappearingLoot :
               l \notin DOMAIN lostObjects /\ \A p : ~Carries(p, l)
        BY <2>2
      <3>4. \A p \in DOMAIN desiredState.bags \ current : DOMAIN held[p] = {}
        BY <2>2, AnswerFacts
      <3>5. \A p \in Player \ DOMAIN desiredState.bags : p \notin players' =>
               \A l \in DOMAIN held[p] : held[p][l] \notin scene
        BY <2>2
      <3> HIDE DEF ps
      <3> QED
        BY <3>1, <3>2, <3>3, <3>4, <3>5, ApplyStateKnown
    <2> QED
      BY <1>1, <1>2, <1>3, <2>5, <2>6, <2>7, <2>8 DEF VanishingIsSpent
  <1>7. CASE ps # NoPlayers /\ ~(stateLoaded /\ ~playersLoaded)
    <2>1. /\ playersLoaded' = TRUE /\ stateLoaded' = stateLoaded
          /\ UpdatePlayersList(ps) /\ desiredState' = desiredState
      BY <1>7 DEF ArriveList
    <2>2. /\ players' = ps
          /\ scene' = scene \ UNION {{held[p][l] : l \in DOMAIN held[p]} : p \in players \ ps}
          /\ UNCHANGED <<current, lostObjects, disappearingLoot>>
          /\ \A p \in Player : IF p \in (players \ ps) \ current THEN DOMAIN held'[p] = {}
                                                                 ELSE held'[p] = held[p]
      BY <1>4, <2>1, UpdatePlayersPlaces DEF Inv
    <2>3. started' = started
      BY <1>7, <2>1 DEF started, Inv, Typing, TypeOK
    <2>4. current \subseteq Player /\ players \subseteq Player
      BY DEF Inv, Typing, TypeOK
    <2>5. PageView' = PageView
      <3>1. \A p \in current : held'[p] = held[p]
        BY <2>2, <2>4
      <3> QED
        BY <2>2, <3>1 DEF PageView
    <2>6. States' = States /\ StatePlayers' = StatePlayers
      BY <1>1, <2>1, <2>3, <2>5 DEF States, StatePlayers
    <2>7. StatesFade' /\ VanishingIsSpent'
      BY <1>1, <1>2, <1>3, <2>2, <2>6 DEF StatesFade, VanishingIsSpent
    <2>8. /\ scene' \subseteq scene
          /\ \A p \in players \ ps : \A l \in DOMAIN held[p] : held[p][l] \notin scene'
      BY <2>2
    <2>9. Leavers'
      <3>1. ASSUME NEW p \in Player, HasLeft(p)
            PROVE  Leaves(p)'
        <4>1. Leaves(p)
          BY <1>2, <3>1 DEF Leavers
        <4>2. ASSUME NEW k \in 1 .. Len(stateReplies'), p \in DOMAIN stateReplies'[k].bags
              PROVE  p \in current' /\ stateReplies'[k].bags[p] = DOMAIN held'[p]
          BY <1>1, <2>2, <4>1, <4>2 DEF Leaves
        <4>3. ASSUME p \notin players', NEW l \in DOMAIN held'[p]
              PROVE  held'[p][l] \notin scene'
          <5>1. held'[p] = held[p]
            BY <2>2, <4>3
          <5>2. CASE p \in players
            BY <2>2, <2>8, <4>3, <5>1, <5>2
          <5>3. CASE p \notin players
            BY <2>8, <4>1, <4>3, <5>1, <5>3 DEF Leaves
          <5> QED
            BY <5>2, <5>3
        <4> QED
          BY <4>2, <4>3 DEF Leaves
      <3>2. ASSUME NEW p \in Player \ current', DOMAIN held'[p] # {}
            PROVE  /\ HasLeft(p) /\ p \in players'
                   /\ \A k \in 1 .. Len(stateReplies') : p \notin DOMAIN stateReplies'[k].bags
        <4>1. p \notin players \ ps /\ held'[p] = held[p] /\ p \notin current
          BY <2>2, <3>2
        <4> QED
          BY <1>1, <1>2, <2>2, <3>2, <4>1 DEF Leavers
      <3> QED
        BY <1>2, <1>3, <2>3, <3>1, <3>2 DEF Leavers
    <2>10. Known'
      <3>1. Lying' = Lying /\ Vanishing' = Vanishing
        BY <2>2 DEF Lying, Vanishing
      <3>2. ASSUME NEW o \in scene', o \in Held
            PROVE  o \in Held'
        <4>1. PICK p \in Player : \E l \in DOMAIN held[p] : o = held[p][l]
          BY <3>2 DEF Held
        <4>2. p \notin players \ ps
          BY <2>8, <3>2, <4>1
        <4>3. held'[p] = held[p]
          BY <2>2, <4>2
        <4> QED
          BY <4>1, <4>3 DEF Held
      <3> QED
        BY <1>2, <2>8, <3>1, <3>2 DEF Known
    <2> QED
      BY <1>1, <1>2, <1>3, <2>7, <2>9, <2>10
  <1> QED
    BY <1>5, <1>6, <1>7

LEMMA NextGhostless == Inv /\ Ghostless /\ [Next]_vars => Ghostless'
  <1> SUFFICES ASSUME Inv, Ghostless, [Next]_vars PROVE Ghostless'
    OBVIOUS
  <1>1. CASE UNCHANGED vars
    <2>1. /\ UNCHANGED <<server, stateReplies, view, mishaps>>
          /\ UNCHANGED <<States, StatePlayers, Game, started>>
      BY <1>1 DEF vars, server, polls, view, States, StatePlayers, PageView, Game, started
    <2>2. Tidy => Tidy'
      BY <2>1 DEF Tidy, server
    <2>3. StatesFade /\ VanishingIsSpent => StatesFade' /\ VanishingIsSpent'
      BY <2>1 DEF StatesFade, VanishingIsSpent, Spent, server, view
    <2>4. Leavers => Leavers'
      BY <2>1 DEF Leavers, Leaves, HasLeft, server, view
    <2>5. Known => Known'
      BY <2>1 DEF Known, Held, Lying, Vanishing, view
    <2> QED
      BY <2>1, <2>2, <2>3, <2>4, <2>5 DEF Ghostless, Undisturbed
  <1>2. CASE Next
    BY <1>2, PlayGhostless, RequestGhostless, ArriveStateGhostless, ArriveListGhostless,
       TickGhostless DEF Next
  <1> QED
    BY <1>1, <1>2

(* Unless a reply was overtaken, an object taken twice, or a player left   *)
(* too early, every object that is drawn is known to the map, to a bag or  *)
(* to what vanishes, so that some step of the page will take it off again: *)
(* _applyDesiredState and _updatePlayersList forget nothing, however many  *)
(* replies are on their way.                                               *)
THEOREM SceneHasNoGhosts == Spec => []NoGhosts
  <1>1. Init => Inv /\ Ghostless
    BY InitInv, InitGhostless
  <1>2. Inv /\ Ghostless /\ [Next]_vars => (Inv /\ Ghostless)'
    BY NextInv, NextGhostless
  <1>3. Inv /\ Ghostless => NoGhosts
    BY DEF Ghostless, Undisturbed, Known, NoGhosts
  <1> QED
    BY <1>1, <1>2, <1>3, PTL DEF Spec

=============================================================================
