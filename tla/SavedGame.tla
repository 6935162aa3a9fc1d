----------------------------- MODULE SavedGame -----------------------------
(***************************************************************************)
(* Saving a game and starting from what was saved: SaveGame and            *)
(* RestoreGame of src/src/app/application.cpp, with the representations of *)
(* src/src/game_data_store/model_serialization.cpp, for a game of one map. *)
(*                                                                         *)
(* A dog or a lost object has an id of its own, and is stored in the       *)
(* session under a key.  For what is created in the session the two are    *)
(* the same; what is restored comes back with the id it had, and under the *)
(* next key that is free.                                                  *)
(*                                                                         *)
(* The score of a dog stands for all it has gathered, in its bag or        *)
(* brought to an office; where it is and how it moves is left out.         *)
(***************************************************************************)
EXTENDS Integers, FiniteSets

CONSTANTS
    Tokens,      \* the tokens that may be drawn
    MaxNames,    \* bound: how many dogs ever join, over all runs
    MaxLoot,     \* bound: the lost objects of a run
    MaxScore     \* bound: what a dog gathers

ASSUME ConstantsAssumption ==
    /\ MaxNames \in Nat /\ MaxLoot \in Nat /\ MaxScore \in Nat
    /\ Cardinality(Tokens) > MaxNames

VARIABLES
    up,              \* is the server running?
    session,         \* "none", "listed" in sessions_, or "unlisted" after its end
    dogs_,           \* key -> dog, named by its owner
    dog,             \* name -> the dog's own id and score
    dog_id,          \* the next key
    lost_objects_,   \* key -> the object's own id
    lost_object_id,  \* the next key
    players_,        \* player id -> name
    next_player_id,
    token_of,        \* player id -> token
    saving,          \* what a SaveGame under way is writing, if any
    file,            \* the state file: nothing, a beginning, or a saved game
    joined,          \* how many dogs have joined, over all runs
    recorded         \* the names in the records of this run

vars == <<up, session, dogs_, dog, dog_id, lost_objects_, lost_object_id, players_,
          next_player_id, token_of, saving, file, joined, recorded>>

dog_vars == <<dogs_, dog, dog_id>>
loot_vars == <<lost_objects_, lost_object_id>>
player_vars == <<session, players_, next_player_id, token_of>>
file_vars == <<saving, file>>

Name == 0 .. MaxNames - 1

Put(f, k, v) == [x \in DOMAIN f \cup {k} |-> IF x = k THEN v ELSE f[x]]
Without(f, S) == [x \in DOMAIN f \ S |-> f[x]]

(* An unordered_map is written in any order, so it is restored in any.     *)
Orders(S) ==
    {order \in [0 .. Cardinality(S) - 1 -> S] :
        \A i, j \in DOMAIN order : order[i] = order[j] => i = j}

-----------------------------------------------------------------------------
NoGame == [players |-> <<>>, loot |-> <<>>]

Init ==
    /\ up = TRUE
    /\ session = "none"
    /\ dogs_ = <<>> /\ dog = <<>> /\ dog_id = 0
    /\ lost_objects_ = <<>> /\ lost_object_id = 0
    /\ players_ = <<>> /\ next_player_id = 0 /\ token_of = <<>>
    /\ saving = {} /\ file = [state |-> "none", game |-> NoGame]
    /\ joined = 0 /\ recorded = {}

(* JoinGame: into a new session if the index has none for the map yet,     *)
(* else into the one it has, be it listed or not.                          *)
JoinGame(token) ==
    /\ up /\ joined < MaxNames
    /\ token \notin {token_of[p] : p \in DOMAIN token_of}
    /\ session' = IF session = "none" THEN "listed" ELSE session
    /\ dogs_' = Put(dogs_, dog_id, joined)
    /\ dog' = Put(dog, joined, [id |-> dog_id, score |-> 0])
    /\ dog_id' = dog_id + 1
    /\ players_' = Put(players_, next_player_id, joined)
    /\ token_of' = Put(token_of, next_player_id, token)
    /\ next_player_id' = next_player_id + 1
    /\ joined' = joined + 1
    /\ UNCHANGED <<up, loot_vars, file_vars, recorded>>

AddLostObject ==
    /\ up /\ lost_object_id < MaxLoot
    /\ Cardinality(DOMAIN lost_objects_) < Cardinality(DOMAIN dogs_)
    /\ lost_objects_' = Put(lost_objects_, lost_object_id, lost_object_id)
    /\ lost_object_id' = lost_object_id + 1
    /\ UNCHANGED <<up, dog_vars, player_vars, file_vars, joined, recorded>>

(* A tick finds that a dog passed an object; it looks the dog up, and      *)
(* erases the object, by their own ids.  A dog that is not found under its *)
(* id is dereferenced nevertheless, and that may be the end: see Crash.    *)
Gather(k, l) ==
    LET id == dog[dogs_[k]].id
    IN  /\ up /\ id \in DOMAIN dogs_
        /\ dog[dogs_[id]].score < MaxScore
        /\ dog' = [dog EXCEPT ![dogs_[id]].score = @ + 1]
        /\ lost_objects_' = Without(lost_objects_, {lost_objects_[l]})
        /\ UNCHANGED <<up, dogs_, dog_id, lost_object_id, player_vars, file_vars,
                       joined, recorded>>

(* Bug: the records are of the dogs whose players are removed.             *)
RetireUnfound(keys) ==
    LET gone == {p \in DOMAIN players_ : dog[players_[p]].id \notin DOMAIN dogs_ \ keys}
    IN  /\ up /\ keys # {}
        /\ dogs_' = Without(dogs_, keys)
        /\ recorded' = recorded \cup {players_[p] : p \in gone}
        /\ players_' = Without(players_, gone)
        /\ token_of' = Without(token_of, gone)
        /\ session' = IF DOMAIN players_' = {} THEN "unlisted" ELSE session
        /\ UNCHANGED <<up, dog, dog_id, loot_vars, next_player_id, file_vars, joined>>

(* A tick retires dogs; the players to remove with them are those whose    *)
(* dogs' own ids are no longer keys of the session.                        *)
Retire(keys) ==
    LET gone == {p \in DOMAIN players_ : dog[players_[p]].id \notin DOMAIN dogs_ \ keys}
    IN  /\ up /\ keys # {}
        /\ dogs_' = Without(dogs_, keys)
        /\ recorded' = recorded \cup {dogs_[k] : k \in keys}
        /\ players_' = Without(players_, gone)
        /\ token_of' = Without(token_of, gone)
        /\ session' = IF DOMAIN players_' = {} THEN "unlisted" ELSE session
        /\ UNCHANGED <<up, dog, dog_id, loot_vars, next_player_id, file_vars, joined>>

-----------------------------------------------------------------------------
(* What is saved of the sessions that are listed: of each player the dog   *)
(* and the token, of each lost object its own id.                          *)
Snapshot ==
    IF session = "listed"
    THEN [players |-> [p \in DOMAIN players_ |->
                          [name |-> players_[p], dog |-> dog[players_[p]],
                           token |-> token_of[p]]],
          loot |-> lost_objects_]
    ELSE NoGame

(* SaveGame: the representation is made; then the file itself is cut down  *)
(* to nothing and written.                                                 *)
BeginSave ==
    /\ up /\ saving = {}
    /\ saving' = {Snapshot}
    /\ file' = [state |-> "beginning", game |-> NoGame]
    /\ UNCHANGED <<up, dog_vars, loot_vars, player_vars, joined, recorded>>

EndSave ==
    /\ up /\ saving # {}
    /\ \E game \in saving : file' = [state |-> "whole", game |-> game]
    /\ saving' = {}
    /\ UNCHANGED <<up, dog_vars, loot_vars, player_vars, joined, recorded>>

(* The process ends, by a signal or otherwise: what it held is gone.       *)
Crash ==
    /\ up
    /\ up' = FALSE
    /\ session' = "none"
    /\ dogs_' = <<>> /\ dog' = <<>> /\ dog_id' = 0
    /\ lost_objects_' = <<>> /\ lost_object_id' = 0
    /\ players_' = <<>> /\ next_player_id' = 0 /\ token_of' = <<>>
    /\ saving' = {} /\ recorded' = {}
    /\ UNCHANGED <<file, joined>>

GreatestOf(S) == CHOOSE m \in S : \A n \in S : n <= m

(* RestoreGame, at the start: without a file, or with one that lists no    *)
(* session, there is nothing to restore.  Out of a mere beginning nothing  *)
(* is read: the exception ends main, and the server does not start.        *)
NothingSaved == file.state = "none" \/ (file.state = "whole" /\ file.game = NoGame)

StartAnew ==
    /\ ~up /\ NothingSaved
    /\ up' = TRUE
    /\ UNCHANGED <<dog_vars, loot_vars, player_vars, file_vars, joined, recorded>>

(* Bug: the players are counted.                                           *)
NumberOf(ids) == Cardinality(ids)

(* Players::Add moves the next id past each id it meets.                   *)
NextAfter(ids) == GreatestOf(ids) + 1

(* Bug: the score is not set.                                              *)
DogFromNothing(saved, name) ==
    [(CHOOSE player \in {saved[p] : p \in DOMAIN saved} : player.name = name).dog
        EXCEPT !.score = 0]

(* DogRepr::Restore makes the dog anew, with its id and what it gathered.  *)
DogOf(saved, name) ==
    (CHOOSE player \in {saved[p] : p \in DOMAIN saved} : player.name = name).dog

(* Players come back under their ids and tokens, dogs and lost objects     *)
(* under new keys.                                                         *)
RestoreGame(saved, players, loot) ==
    /\ ~up
    /\ up' = TRUE
    /\ session' = "listed"
    /\ players_' = [p \in DOMAIN saved |-> saved[p].name]
    /\ token_of' = [p \in DOMAIN saved |-> saved[p].token]
    /\ next_player_id' = NextAfter(DOMAIN saved)
    /\ dogs_' = [k \in DOMAIN players |-> saved[players[k]].name]
    /\ dog_id' = Cardinality(DOMAIN players)
    /\ dog' = [n \in {saved[p].name : p \in DOMAIN saved} |-> DogOf(saved, n)]
    /\ lost_objects_' = [k \in DOMAIN loot |-> file.game.loot[loot[k]]]
    /\ lost_object_id' = Cardinality(DOMAIN loot)
    /\ UNCHANGED <<file_vars, joined, recorded>>

Restore ==
    /\ file.state = "whole" /\ ~NothingSaved
    /\ \E players \in Orders(DOMAIN file.game.players), loot \in Orders(DOMAIN file.game.loot) :
          RestoreGame(file.game.players, players, loot)

Next ==
    \/ \E token \in Tokens : JoinGame(token)
    \/ AddLostObject
    \/ \E k \in DOMAIN dogs_, l \in DOMAIN lost_objects_ : Gather(k, l)
    \/ \E keys \in SUBSET DOMAIN dogs_ : Retire(keys)
    \/ BeginSave
    \/ EndSave
    \/ Crash
    \/ StartAnew
    \/ Restore

Spec == Init /\ [][Next]_vars

-----------------------------------------------------------------------------
(* Properties.                                                             *)

(* A key or a player id handed out next is not in use, and not two players *)
(* have one token, over any saves and restarts: emplace would drop the     *)
(* newcomer silently.                                                      *)
FreshIds ==
    /\ dog_id \notin DOMAIN dogs_ /\ lost_object_id \notin DOMAIN lost_objects_
    /\ next_player_id \notin DOMAIN players_
    /\ \A p, q \in DOMAIN token_of : token_of[p] = token_of[q] => p = q

(* In one run nobody gets two records, whatever was restored under which   *)
(* key: who has a record is not in play any more.                          *)
RecordedHaveLeft == recorded \cap {dogs_[k] : k \in DOMAIN dogs_} = {}

(* A start from a saved game gives every token of the file its own dog     *)
(* back, with the score it had, in play again; and nobody else plays.      *)
TokensComeBack ==
    [][~up /\ up' /\ file.state # "none" =>
          LET saved == file.game.players
          IN  /\ file.state = "whole"
              /\ \A p \in DOMAIN saved :
                    \E q \in DOMAIN players_' :
                        /\ token_of'[q] = saved[p].token
                        /\ players_'[q] = saved[p].name
                        /\ dog'[players_'[q]] = saved[p].dog
              /\ {dogs_'[k] : k \in DOMAIN dogs_'} = {saved[p].name : p \in DOMAIN saved}]_vars

(* What a test says of a dog alone, that it is restored with its id, the   *)
(* session relies on: a dog or an object is found under its own id, when a *)
(* player steers it, when it is gathered, or when players are removed.     *)
FoundUnderOwnId ==
    /\ \A k \in DOMAIN dogs_ : dog[dogs_[k]].id = k
    /\ \A l \in DOMAIN lost_objects_ : lost_objects_[l] = l
=============================================================================
