-------------------------- MODULE SavedGameProofs --------------------------
(***************************************************************************)
(* Proofs about SavedGame, for any number of dogs, lost objects, saves,    *)
(* crashes and restarts: what is handed out next is fresh, nobody has two  *)
(* records in a run, and a start from a saved game gives every token its   *)
(* dog back.                                                               *)
(***************************************************************************)
EXTENDS SavedGame, FiniteSetTheorems, WellFoundedInduction, TLAPS

IsInjection(f) == \A x, y \in DOMAIN f : f[x] = f[y] => x = y

(* The next ids are past all that are in use, over any gaps among them.    *)
Counters ==
    /\ dog_id \in Nat /\ DOMAIN dogs_ \subseteq 0 .. dog_id - 1
    /\ lost_object_id \in Nat /\ DOMAIN lost_objects_ \subseteq 0 .. lost_object_id - 1
    /\ next_player_id \in Nat /\ DOMAIN players_ \subseteq 0 .. next_player_id - 1
    /\ joined \in Nat

(* Names are dogs', players' and records' own.                             *)
Names ==
    /\ IsInjection(dogs_) /\ IsInjection(players_) /\ IsInjection(token_of)
    /\ DOMAIN token_of = DOMAIN players_
    /\ \A k \in DOMAIN dogs_ : dogs_[k] \in 0 .. joined - 1
    /\ \A p \in DOMAIN players_ : players_[p] \in 0 .. joined - 1
    /\ recorded \subseteq 0 .. joined - 1
    /\ RecordedHaveLeft

(* A session is listed as long as it has players; a process that is down   *)
(* holds nothing.                                                          *)
Sessions ==
    /\ session = "listed" => DOMAIN players_ # {}
    /\ ~up => DOMAIN dogs_ = {} /\ recorded = {}

(* A saved game that is not empty has players, finitely many, of whom no   *)
(* two share a name or a token.                                            *)
IsSavedGame(game) ==
    \/ game = NoGame
    \/ /\ DOMAIN game.players # {}
       /\ \E bound \in Nat : DOMAIN game.players \subseteq 0 .. bound
       /\ \E bound \in Nat : DOMAIN game.loot \subseteq 0 .. bound
       /\ \A p, q \in DOMAIN game.players :
             \/ game.players[p].name = game.players[q].name
             \/ game.players[p].token = game.players[q].token
             => p = q
       /\ \A p \in DOMAIN game.players : game.players[p].name \in 0 .. joined - 1

Files ==
    /\ \A game \in saving : IsSavedGame(game)
    /\ file.state = "whole" => IsSavedGame(file.game)

Inv == Counters /\ Names /\ Sessions /\ Files

-----------------------------------------------------------------------------
LEMMA PutInjection ==
  ASSUME NEW f, NEW k, NEW v, IsInjection(f), k \notin DOMAIN f,
         \A x \in DOMAIN f : f[x] # v
  PROVE  IsInjection(Put(f, k, v))
  <1>1. /\ DOMAIN Put(f, k, v) = DOMAIN f \cup {k}
        /\ Put(f, k, v)[k] = v
        /\ \A x \in DOMAIN f : Put(f, k, v)[x] = f[x]
    BY DEF Put
  <1> QED
    BY <1>1 DEF IsInjection

LEMMA WithoutFacts ==
  ASSUME NEW f, NEW S
  PROVE  /\ DOMAIN Without(f, S) = DOMAIN f \ S
         /\ \A x \in DOMAIN f \ S : Without(f, S)[x] = f[x]
         /\ IsInjection(f) => IsInjection(Without(f, S))
  BY DEF Without, IsInjection

(* A bounded set of numbers that is not empty has a greatest.              *)
LEMMA GreatestExists ==
  ASSUME NEW S, S # {}, NEW bound \in Nat, S \subseteq 0 .. bound
  PROVE  GreatestOf(S) \in S /\ \A n \in S : n <= GreatestOf(S)
  <1> DEFINE Bounds == {b \in Nat : \A n \in S : n <= b}
  <1>1. Bounds # {} /\ Bounds \subseteq Nat
    BY bound \in Bounds
  <1>2. PICK least \in Bounds : \A b \in Bounds : ~ (<<b, least>> \in OpToRel(<, Nat))
    BY <1>1, WFMin, NatLessThanWellFounded
  <1>3. least \in Nat /\ \A n \in S : n <= least
    BY <1>2
  <1>4. \A b \in Nat : (\A n \in S : n <= b) => ~ (b < least)
    BY <1>2, <1>3 DEF OpToRel
  <1>5. least \in S
    <2> SUFFICES ASSUME least \notin S PROVE FALSE
      OBVIOUS
    <2> HIDE DEF Bounds
    <2>1. \A n \in S : n \in Nat /\ n <= least - 1
      BY <1>3
    <2>2. least - 1 \in Nat
      <3>1. PICK n \in S : n \in Nat /\ n <= least - 1
        BY <2>1
      <3> QED
        BY <1>3, <3>1
    <2> QED
      BY <1>3, <1>4, <2>1, <2>2
  <1> QED
    BY <1>3, <1>5 DEF GreatestOf

(* An order of a finite set leaves none of it out.                         *)
LEMMA OrdersAreOnto ==
  ASSUME NEW S, NEW bound \in Nat, S \subseteq 0 .. bound, NEW order \in Orders(S)
  PROVE  /\ Cardinality(S) \in Nat
         /\ DOMAIN order = 0 .. Cardinality(S) - 1
         /\ Cardinality(DOMAIN order) = Cardinality(S)
         /\ \A k \in DOMAIN order : order[k] \in S
         /\ IsInjection(order)
         /\ \A x \in S : \E k \in DOMAIN order : order[k] = x
  <1>1. IsFiniteSet(S) /\ Cardinality(S) \in Nat
    <2>1. IsFiniteSet(0 .. bound) /\ S \in SUBSET (0 .. bound)
      BY FS_Interval
    <2>2. IsFiniteSet(S)
      BY <2>1, FS_Subset
    <2> QED
      BY <2>2, FS_CardinalityType
  <1> DEFINE keys == 0 .. Cardinality(S) - 1
  <1>2. order \in [keys -> S] /\ IsInjection(order)
    BY DEF Orders, IsInjection
  <1>3. Cardinality(keys) = Cardinality(S)
    BY <1>1, FS_Interval
  <1>4. order \in Injection(keys, S)
    BY <1>2 DEF Injection, IsInjection, IsInjective
  <1>5. order \in Surjection(keys, S)
    BY <1>1, <1>3, <1>4, FS_Injection
  <1> QED
    BY <1>1, <1>2, <1>3, <1>5 DEF Surjection

-----------------------------------------------------------------------------
LEMMA InvInit == Init => Inv
  BY DEF Init, Inv, Counters, Names, Sessions, Files, IsInjection, RecordedHaveLeft

(* More dogs join: what was saved stays a saved game.                      *)
LEMMA SavedGamesStay ==
  ASSUME Inv, joined' \in Nat, joined <= joined', saving' = saving, file' = file
  PROVE  Files'
  BY DEF Inv, Files, Counters, IsSavedGame

LEMMA JoinInv ==
  ASSUME Inv, NEW token \in Tokens, JoinGame(token)
  PROVE  Inv'
  <1>1. /\ dogs_' = Put(dogs_, dog_id, joined) /\ dog_id' = dog_id + 1
        /\ players_' = Put(players_, next_player_id, joined)
        /\ token_of' = Put(token_of, next_player_id, token)
        /\ next_player_id' = next_player_id + 1 /\ joined' = joined + 1
        /\ up /\ up' = up /\ session' \in {"listed", session}
        /\ UNCHANGED <<lost_objects_, lost_object_id, saving, file, recorded>>
        /\ \A p \in DOMAIN token_of : token_of[p] # token
    BY DEF JoinGame, loot_vars, file_vars
  <1>2. /\ DOMAIN dogs_' = DOMAIN dogs_ \cup {dog_id} /\ dogs_'[dog_id] = joined
        /\ \A k \in DOMAIN dogs_ : k # dog_id => dogs_'[k] = dogs_[k]
    BY <1>1 DEF Put
  <1>3. /\ DOMAIN players_' = DOMAIN players_ \cup {next_player_id}
        /\ players_'[next_player_id] = joined
        /\ \A p \in DOMAIN players_ : p # next_player_id => players_'[p] = players_[p]
    BY <1>1 DEF Put
  <1>4. DOMAIN token_of' = DOMAIN token_of \cup {next_player_id}
    BY <1>1 DEF Put
  <1>5. Counters'
    BY <1>1, <1>2, <1>3 DEF Inv, Counters
  <1>6. dog_id \notin DOMAIN dogs_ /\ next_player_id \notin DOMAIN players_
    BY DEF Inv, Counters
  <1>7. IsInjection(dogs_)' /\ IsInjection(players_)' /\ IsInjection(token_of)'
    <2>1. IsInjection(Put(dogs_, dog_id, joined))
      BY <1>6, PutInjection DEF Inv, Counters, Names
    <2>2. IsInjection(Put(players_, next_player_id, joined))
      BY <1>6, PutInjection DEF Inv, Counters, Names
    <2>3. IsInjection(Put(token_of, next_player_id, token))
      BY <1>1, <1>6, PutInjection DEF Inv, Names
    <2> QED
      BY <1>1, <2>1, <2>2, <2>3
  <1>8. Names'
    <2>1. /\ \A k \in DOMAIN dogs_' : dogs_'[k] \in 0 .. joined' - 1
          /\ \A p \in DOMAIN players_' : players_'[p] \in 0 .. joined' - 1
          /\ recorded' \subseteq 0 .. joined' - 1
      BY <1>1, <1>2, <1>3, <1>6 DEF Inv, Counters, Names
    <2>2. RecordedHaveLeft'
      BY <1>1, <1>2, <1>6 DEF Inv, Counters, Names, RecordedHaveLeft
    <2> QED
      BY <1>3, <1>4, <1>7, <2>1, <2>2 DEF Inv, Names
  <1>9. Sessions' /\ Files'
    BY <1>1, <1>3, SavedGamesStay DEF Inv, Counters, Sessions
  <1> QED
    BY <1>5, <1>8, <1>9 DEF Inv

LEMMA LootInv ==
  ASSUME Inv, AddLostObject \/ \E k \in DOMAIN dogs_, l \in DOMAIN lost_objects_ : Gather(k, l)
  PROVE  Inv'
  <1>1. /\ UNCHANGED <<up, session, dogs_, dog_id, players_, next_player_id, token_of,
                       saving, file, joined, recorded>>
    BY DEF AddLostObject, Gather, dog_vars, player_vars, file_vars
  <1>2. /\ lost_object_id' \in Nat
        /\ DOMAIN lost_objects_' \subseteq 0 .. lost_object_id' - 1
    <2>1. CASE AddLostObject
      <3>1. DOMAIN Put(lost_objects_, lost_object_id, lost_object_id)
              = DOMAIN lost_objects_ \cup {lost_object_id}
        BY DEF Put
      <3> QED
        BY <2>1, <3>1 DEF AddLostObject, Inv, Counters
    <2>2. ASSUME NEW k \in DOMAIN dogs_, NEW l \in DOMAIN lost_objects_, Gather(k, l)
          PROVE  lost_object_id' = lost_object_id /\ DOMAIN lost_objects_' \subseteq DOMAIN lost_objects_
      <3>1. /\ lost_object_id' = lost_object_id
            /\ lost_objects_' = Without(lost_objects_, {lost_objects_[l]})
        BY <2>2 DEF Gather
      <3> QED
        BY <3>1 DEF Without
    <2> QED
      BY <2>1, <2>2 DEF Inv, Counters
  <1>3. Files'
    BY <1>1, SavedGamesStay DEF Inv, Counters
  <1> QED
    BY <1>1, <1>2, <1>3 DEF Inv, Counters, Names, Sessions, RecordedHaveLeft

LEMMA RetireInv ==
  ASSUME Inv, NEW keys \in SUBSET DOMAIN dogs_, Retire(keys)
  PROVE  Inv'
  <1> DEFINE gone == {p \in DOMAIN players_ : dog[players_[p]].id \notin DOMAIN dogs_ \ keys}
  <1>1. /\ up /\ up' = up /\ UNCHANGED <<dog_id, lost_objects_, lost_object_id,
                                        next_player_id, saving, file, joined>>
        /\ dogs_' = Without(dogs_, keys)
        /\ recorded' = recorded \cup {dogs_[k] : k \in keys}
        /\ players_' = Without(players_, gone)
        /\ token_of' = Without(token_of, gone)
        /\ session' = IF DOMAIN players_' = {} THEN "unlisted" ELSE session
    BY DEF Retire, loot_vars, file_vars
  <1>2. /\ DOMAIN dogs_' = DOMAIN dogs_ \ keys
        /\ \A k \in DOMAIN dogs_ \ keys : dogs_'[k] = dogs_[k]
        /\ DOMAIN players_' = DOMAIN players_ \ gone
        /\ \A p \in DOMAIN players_ \ gone : players_'[p] = players_[p]
        /\ DOMAIN token_of' = DOMAIN token_of \ gone
    BY <1>1, WithoutFacts
  <1>3. IsInjection(dogs_)' /\ IsInjection(players_)' /\ IsInjection(token_of)'
    BY <1>1, WithoutFacts DEF Inv, Names
  <1>4. Counters'
    BY <1>1, <1>2 DEF Inv, Counters
  <1>5. RecordedHaveLeft'
    BY <1>1, <1>2 DEF Inv, Names, IsInjection, RecordedHaveLeft
  <1>6. Names'
    <2>1. recorded' \subseteq 0 .. joined' - 1
      BY <1>1 DEF Inv, Names
    <2> QED
      BY <1>1, <1>2, <1>3, <1>5, <2>1 DEF Inv, Names
  <1>7. Sessions' /\ Files'
    <2>1. session' = "listed" => DOMAIN players_' # {}
      BY <1>1
    <2>2. Files'
      BY <1>1, SavedGamesStay DEF Inv, Counters
    <2> QED
      BY <1>1, <2>1, <2>2 DEF Sessions
  <1> QED
    BY <1>4, <1>6, <1>7 DEF Inv

(* What is saved of a running game is a saved game.                        *)
LEMMA SnapshotIsSavedGame ==
  ASSUME Inv
  PROVE  IsSavedGame(Snapshot)
  <1>1. CASE session = "listed"
    <2> DEFINE saved == [p \in DOMAIN players_ |->
                            [name |-> players_[p], dog |-> dog[players_[p]],
                             token |-> token_of[p]]]
    <2>1. /\ Snapshot.players = saved /\ Snapshot.loot = lost_objects_
          /\ DOMAIN saved = DOMAIN players_
          /\ \A p \in DOMAIN saved : saved[p].name = players_[p] /\ saved[p].token = token_of[p]
      BY <1>1 DEF Snapshot
    <2>2. \E bound \in Nat : DOMAIN players_ \subseteq 0 .. bound
      BY DEF Inv, Counters
    <2>3. \E bound \in Nat : DOMAIN lost_objects_ \subseteq 0 .. bound
      BY DEF Inv, Counters
    <2> QED
      BY <1>1, <2>1, <2>2, <2>3 DEF Inv, Names, Sessions, IsInjection, IsSavedGame
  <1>2. CASE session # "listed"
    BY <1>2 DEF Snapshot, IsSavedGame
  <1> QED
    BY <1>1, <1>2

LEMMA SaveInv ==
  ASSUME Inv, BeginSave \/ EndSave
  PROVE  Inv'
  <1>1. UNCHANGED <<up, session, dogs_, dog_id, lost_objects_, lost_object_id, players_,
                    next_player_id, token_of, joined, recorded>>
    BY DEF BeginSave, EndSave, dog_vars, loot_vars, player_vars
  <1>2. Files'
    <2>1. CASE BeginSave
      BY <1>1, <2>1, SnapshotIsSavedGame DEF BeginSave, Files, IsSavedGame
    <2>2. CASE EndSave
      BY <1>1, <2>2 DEF Inv, EndSave, Files, IsSavedGame
    <2> QED
      BY <2>1, <2>2
  <1> QED
    BY <1>1, <1>2 DEF Inv, Counters, Names, Sessions, RecordedHaveLeft

LEMMA CrashInv ==
  ASSUME Inv, Crash
  PROVE  Inv'
  <1>1. Files'
    BY DEF Inv, Files, IsSavedGame, Crash
  <1> QED
    BY <1>1 DEF Inv, Counters, Names, Sessions, IsInjection, RecordedHaveLeft, Crash

LEMMA StartInv ==
  ASSUME Inv, StartAnew
  PROVE  Inv'
  <1>1. UNCHANGED <<session, dogs_, dog_id, lost_objects_, lost_object_id, players_,
                    next_player_id, token_of, saving, file, joined, recorded>>
    BY DEF StartAnew, dog_vars, loot_vars, player_vars, file_vars
  <1> QED
    BY <1>1, SavedGamesStay DEF Inv, Counters, Names, Sessions, RecordedHaveLeft, StartAnew

(* What a start from a saved game brings back.                             *)
LEMMA Restored ==
  ASSUME Inv, Restore
  PROVE  LET saved == file.game.players
         IN  /\ ~up /\ up' /\ UNCHANGED <<saving, file, joined, recorded>>
             /\ Counters'
             /\ DOMAIN players_' = DOMAIN saved /\ DOMAIN token_of' = DOMAIN saved
             /\ DOMAIN saved # {}
             /\ \A p \in DOMAIN saved :
                   /\ players_'[p] = saved[p].name /\ token_of'[p] = saved[p].token
                   /\ dog'[saved[p].name] = saved[p].dog
                   /\ saved[p].name \in 0 .. joined - 1
             /\ \A p, q \in DOMAIN saved :
                   \/ saved[p].name = saved[q].name
                   \/ saved[p].token = saved[q].token
                   => p = q
             /\ IsInjection(dogs_')
             /\ {dogs_'[k] : k \in DOMAIN dogs_'} = {saved[p].name : p \in DOMAIN saved}
  <1> DEFINE saved == file.game.players
  <1>1. PICK players \in Orders(DOMAIN saved), loot \in Orders(DOMAIN file.game.loot) :
           RestoreGame(saved, players, loot)
    BY DEF Restore
  <1>2. IsSavedGame(file.game) /\ file.game # NoGame
    BY DEF Inv, Files, Restore, NothingSaved
  <1>3. /\ DOMAIN saved # {}
        /\ \A p, q \in DOMAIN saved :
              \/ saved[p].name = saved[q].name
              \/ saved[p].token = saved[q].token
              => p = q
        /\ \A p \in DOMAIN saved : saved[p].name \in 0 .. joined - 1
    BY <1>2 DEF IsSavedGame
  <1>4. PICK bound \in Nat : DOMAIN saved \subseteq 0 .. bound
    BY <1>2 DEF IsSavedGame
  <1>5. PICK rest \in Nat : DOMAIN file.game.loot \subseteq 0 .. rest
    BY <1>2 DEF IsSavedGame
  <1>6. /\ ~up /\ up' /\ UNCHANGED <<saving, file, joined, recorded>>
        /\ players_' = [p \in DOMAIN saved |-> saved[p].name]
        /\ token_of' = [p \in DOMAIN saved |-> saved[p].token]
        /\ next_player_id' = GreatestOf(DOMAIN saved) + 1
        /\ dogs_' = [k \in DOMAIN players |-> saved[players[k]].name]
        /\ dog_id' = Cardinality(DOMAIN players)
        /\ dog' = [n \in {saved[p].name : p \in DOMAIN saved} |-> DogOf(saved, n)]
        /\ DOMAIN lost_objects_' = DOMAIN loot
        /\ lost_object_id' = Cardinality(DOMAIN loot)
    BY <1>1 DEF RestoreGame, NextAfter, file_vars
  <1>7. Counters'
    <2>1. next_player_id' \in Nat /\ DOMAIN players_' \subseteq 0 .. next_player_id' - 1
      BY <1>3, <1>4, <1>6, GreatestExists
    <2>2. dog_id' \in Nat /\ DOMAIN dogs_' \subseteq 0 .. dog_id' - 1
      BY <1>4, <1>6, OrdersAreOnto
    <2>3. lost_object_id' \in Nat /\ DOMAIN lost_objects_' \subseteq 0 .. lost_object_id' - 1
      BY <1>5, <1>6, OrdersAreOnto
    <2> QED
      BY <1>6, <2>1, <2>2, <2>3 DEF Inv, Counters
  <1>8. \A p \in DOMAIN saved : dog'[saved[p].name] = saved[p].dog
    <2> SUFFICES ASSUME NEW p \in DOMAIN saved PROVE DogOf(saved, saved[p].name) = saved[p].dog
      BY <1>6
    <2> DEFINE Owner(player) == player.name = saved[p].name
               all == {saved[q] : q \in DOMAIN saved}
    <2>1. saved[p] \in all /\ Owner(saved[p])
      OBVIOUS
    <2>2. \A player \in all : Owner(player) => player = saved[p]
      BY <1>3
    <2>3. (CHOOSE player \in all : Owner(player)) = saved[p]
      BY <2>1, <2>2
    <2> QED
      BY <2>3 DEF DogOf
  <1>9. IsInjection(dogs_')
    <2>1. IsInjection(players) /\ \A k \in DOMAIN players : players[k] \in DOMAIN saved
      BY <1>4, OrdersAreOnto
    <2>2. /\ DOMAIN dogs_' = DOMAIN players
          /\ \A k \in DOMAIN players : dogs_'[k] = saved[players[k]].name
      BY <1>6
    <2> QED
      BY <1>3, <2>1, <2>2 DEF IsInjection
  <1>10. {dogs_'[k] : k \in DOMAIN dogs_'} = {saved[p].name : p \in DOMAIN saved}
    BY <1>4, <1>6, OrdersAreOnto
  <1> QED
    BY <1>3, <1>6, <1>7, <1>8, <1>9, <1>10

LEMMA RestoreInv ==
  ASSUME Inv, Restore
  PROVE  Inv'
  <1> DEFINE saved == file.game.players
  <1>1. recorded' = {} /\ Sessions'
    BY Restored DEF Inv, Sessions
  <1>2. Files'
    BY Restored, SavedGamesStay DEF Inv, Counters
  <1>3. IsInjection(players_)' /\ IsInjection(token_of)'
    BY Restored DEF IsInjection
  <1>4. \A k \in DOMAIN dogs_' : dogs_'[k] \in 0 .. joined' - 1
    BY Restored
  <1>5. Names'
    BY <1>1, <1>3, <1>4, Restored DEF Names, RecordedHaveLeft
  <1> QED
    BY <1>1, <1>2, <1>5, Restored DEF Inv

LEMMA InvStep == Inv /\ [Next]_vars => Inv'
  <1> SUFFICES ASSUME Inv, [Next]_vars PROVE Inv'
    OBVIOUS
  <1>1. CASE UNCHANGED vars
    <2>1. Files'
      BY <1>1, SavedGamesStay DEF Inv, Counters, vars
    <2> QED
      BY <1>1, <2>1 DEF Inv, Counters, Names, Sessions, RecordedHaveLeft, vars
  <1> QED
    BY <1>1, JoinInv, LootInv, RetireInv, SaveInv, CrashInv, StartInv, RestoreInv DEF Next

LEMMA InvHolds == Spec => []Inv
  BY InvInit, InvStep, PTL DEF Spec

(* What is handed out next was handed out to nobody, over any saves and    *)
(* restarts: emplace never drops a newcomer.                               *)
THEOREM IdsStayFresh == Spec => []FreshIds
  <1>1. Inv => FreshIds
    BY DEF Inv, Counters, Names, IsInjection, FreshIds
  <1> QED
    BY <1>1, InvHolds, PTL

(* In one run of the server nobody who has a record is in play, whatever   *)
(* was restored under which key.                                           *)
THEOREM RecordedDogsHaveLeft == Spec => []RecordedHaveLeft
  <1>1. Inv => RecordedHaveLeft
    BY DEF Inv, Names
  <1> QED
    BY <1>1, InvHolds, PTL

(* A start from a saved game gives each token its own dog back, and nobody *)
(* else plays, in whatever order the maps were written.                    *)
THEOREM TokensFindTheirDogs == Spec => TokensComeBack
  <1> DEFINE saved == file.game.players
             Back == ~up /\ up' /\ file.state # "none" =>
                        /\ file.state = "whole"
                        /\ \A p \in DOMAIN saved :
                              \E q \in DOMAIN players_' :
                                  /\ token_of'[q] = saved[p].token
                                  /\ players_'[q] = saved[p].name
                                  /\ dog'[players_'[q]] = saved[p].dog
                        /\ {dogs_'[k] : k \in DOMAIN dogs_'} =
                              {saved[p].name : p \in DOMAIN saved}
  <1>1. Inv /\ [Next]_vars => Back
    <2> SUFFICES ASSUME Inv, [Next]_vars, ~up, up', file.state # "none" PROVE Back
      OBVIOUS
    <2>1. StartAnew \/ Restore
      BY DEF Next, vars, JoinGame, AddLostObject, Gather, Retire, BeginSave, EndSave, Crash
    <2>2. CASE StartAnew
      <3>1. file.state = "whole" /\ DOMAIN saved = {}
        BY <2>2 DEF StartAnew, NothingSaved, NoGame
      <3>2. DOMAIN dogs_' = {}
        BY <2>2 DEF StartAnew, dog_vars, Inv, Sessions
      <3> QED
        BY <3>1, <3>2
    <2>3. CASE Restore
      <3>1. file.state = "whole"
        BY <2>3 DEF Restore
      <3> QED
        BY <2>3, <3>1, Restored
    <2> QED
      BY <2>1, <2>2, <2>3
  <1>2. Inv /\ [Next]_vars => [Back]_vars
    BY <1>1
  <1> QED
    BY <1>2, InvHolds, PTL DEF Spec, TokensComeBack
=============================================================================
