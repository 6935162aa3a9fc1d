------------------------- MODULE ApplicationProofs -------------------------
(***************************************************************************)
(* Proofs about Application, for any maps, players, sessions and tokens,   *)
(* with commits that fail and ticks on request: the containers of          *)
(* sessions, players and tokens stay in step, although nothing guards      *)
(* them, but for the exceptions that the properties name.                  *)
(***************************************************************************)
EXTENDS Application, SequenceTheorems, TLAPS

-----------------------------------------------------------------------------
(* The inductive invariant.                                                *)

(* A join has what its next write needs.                                   *)
JoinType ==
    /\ join.step = "none" => join = NoJoin
    /\ join.step # "none" => join.session \in Session /\ join.map \in Maps
    /\ join.step \in {"append", "index", "add dog", "add player"} => next_player < MaxPlayers
    /\ join.step \in {"add token", "add token id"} =>
          next_player > 0 /\ session_of[next_player - 1] = join.session
    /\ join.step = "add token id" => join.token \in Tokens

Shapes ==
    /\ TypeOK
    /\ JoinType
    /\ tick # NoTick => tick.at > 0 /\ join = NoJoin

(* No session is listed twice, and no slot in use is empty.                *)
Slots ==
    /\ \A i \in 1 .. Len(slots) : slots[i] # Null =>
          slots[i] < session_id \/ (join.step = "index" /\ slots[i] = session_id)
    /\ \A i \in 1 .. size : slots[i] # Null
    /\ \A i, j \in 1 .. size : slots[i] = slots[j] => i = j
    /\ join.step \in {"append", "index"} =>
          join.session = session_id /\ session_id < MaxSessions /\ join.slot > 0

(* Until there is a second session nothing moves in the vector.            *)
OneSlot ==
    /\ session_id = 0 => DOMAIN index = {}
    /\ join.step = "append" /\ session_id = 0 => Len(slots) = 0 /\ join.slot = 1
    /\ join.step = "index" /\ session_id = 0 =>
          Len(slots) = 1 /\ slots[1] = 0 /\ join.slot = 1
    /\ join.step \notin {"append", "index"} =>
          /\ session_id = 0 => Len(slots) = 0
          /\ session_id = 1 => /\ Len(slots) = 1 /\ slots[1] = 0
                               /\ \A m \in DOMAIN index : index[m] = 1

(* Everyone who is in a session, or is being removed from it, belongs to   *)
(* it, and who is being removed is neither in its entry nor in play.       *)
Belongs(p, s) == p \in 0 .. next_player - 1 /\ session_of[p] = s

OwnersOf(s) ==
    /\ \A p \in PlayersOf(s) \cup erasing[s] : Belongs(p, s)
    /\ \A p \in dogs[s] :
          Belongs(p, s) \/ (p = next_player /\ join.step = "add player" /\ join.session = s)
    /\ \A p \in erasing[s] : p \notin PlayersOf(s) /\ p \notin dogs[s]
    /\ \A p, q \in erasing[s] : p = q
    /\ removal[s] \in {"commit", "loop"} => erasing[s] = {}

Owners == \A s \in Session : OwnersOf(s)

(* A removal has yet to visit only players of the entry, and erases the    *)
(* entry only when nobody is left to visit.                                *)
RemovalOf(s) ==
    /\ leaving[s] \subseteq PlayersOf(s)
    /\ removal[s] \in {"size", "entry"} => s \in DOMAIN players_
    /\ removal[s] = "entry" => leaving[s] = {} /\ PlayersOf(s) \subseteq swept
    /\ removal[s] = "commit" => s \in DOMAIN players_ \/ swept \cup stalled # {}

Removals == \A s \in Session : RemovalOf(s)

(* A token is of somebody whose join has come that far, and who is between *)
(* the two erasures has one in the second map only.                        *)
TokensInStep ==
    /\ TokenMapsAgree
    /\ \A p \in DOMAIN token_of : p < next_player
    /\ \A t \in DOMAIN tokens : tokens[t] < next_player
    /\ join.step = "add token" => \A t \in DOMAIN tokens : tokens[t] # next_player - 1
    /\ join.step \in {"add token", "add token id"} => next_player - 1 \notin DOMAIN token_of
    /\ join.step = "add token id" =>
          join.token \in DOMAIN tokens /\ tokens[join.token] = next_player - 1
    /\ \A s \in Session : removal[s] = "token id" =>
          \A p \in erasing[s] :
              p \in DOMAIN token_of /\ \A t \in DOMAIN tokens : tokens[t] # p

(* Who plays has an entry, and who has one has a token, or is in the       *)
(* middle of a join.                                                       *)
DogsHavePlayers ==
    \A s \in Session : \A p \in dogs[s] :
        p \in PlayersOf(s) \cup swept \/ (p = next_player /\ join.step = "add player")

PlayersHaveTokens ==
    \A s \in Session : dogs[s] \cup PlayersOf(s) \subseteq DOMAIN token_of \cup Joining

(* Whoever is in the middle of a join plays, or was retired meanwhile.     *)
NewcomerPlays ==
    /\ join.step = "add player" => next_player \in dogs[join.session] \cup stalled
    /\ join.step \in {"add token", "add token id"} =>
          /\ next_player - 1 \in dogs[join.session] \cup stalled
          /\ next_player - 1 \in PlayersOf(join.session) \cup Erasing \cup swept

(* Who is erased without a token was retired in the middle of a join.      *)
LeaversHaveTokens ==
    \A s \in Session : removal[s] \in {"size", "entry", "list", "token"} =>
        erasing[s] \subseteq DOMAIN token_of \cup stalled

InPlay == TokenLeadsToPlayer /\ DogsHavePlayers /\ PlayersHaveTokens /\ NewcomerPlays
            /\ LeaversHaveTokens

Inhabited ==
    \A s \in Listed :
        \/ PlayersOf(s) # {}
        \/ join.step \in {"index", "add dog", "add player"} /\ join.session = s
        \/ removal[s] \in {"size", "entry", "list"}

Inv == /\ Shapes /\ Slots /\ OneSlot /\ Owners /\ Removals /\ TokensInStep /\ InPlay
       /\ Inhabited /\ FailuresHaveReasons

-----------------------------------------------------------------------------
(* Functions, joins and ticks.                                             *)

LEMMA PutFacts ==
  ASSUME NEW f, NEW k, NEW v
  PROVE  /\ DOMAIN Put(f, k, v) = DOMAIN f \cup {k}
         /\ Put(f, k, v)[k] = v
         /\ \A x \in DOMAIN f : x # k => Put(f, k, v)[x] = f[x]
  BY DEF Put

LEMMA DropFacts ==
  ASSUME NEW f, NEW k
  PROVE  /\ DOMAIN Drop(f, k) = DOMAIN f \ {k}
         /\ \A x \in DOMAIN f : x # k => Drop(f, k)[x] = f[x]
  BY DEF Drop

JoinRecord == [step : JoinStep \cup {"none"}, session : Session \cup {Null},
               map : Maps \cup {Null}, slot : Nat, token : Tokens \cup {Null}]

LEMMA JoinGoesOn ==
  ASSUME NEW j \in JoinRecord, NEW step \in JoinStep
  PROVE  LET next == [j EXCEPT !.step = step]
         IN  /\ next \in JoinRecord /\ next.step = step /\ next.session = j.session
             /\ next.map = j.map /\ next.slot = j.slot /\ next.token = j.token
  BY DEF JoinRecord

LEMMA NoJoinFacts ==
  NoJoin \in JoinRecord /\ NoJoin.step = "none"
  BY DEF NoJoin, JoinRecord

LEMMA NoTickFacts ==
  /\ NoTick = [at |-> 0, last |-> 0, inline |-> {}]
  /\ NoTick.at = 0 /\ NoTick.last = 0 /\ NoTick.inline = {}
  BY DEF NoTick

LEMMA SameLength ==
  ASSUME NEW a \in Nat, NEW b \in Nat, 1 .. a = 1 .. b
  PROVE  a = b
  <1>1. CASE a < b
    <2>1. b \in 1 .. b /\ b \notin 1 .. a
      BY <1>1
    <2> QED
      BY <2>1
  <1>2. CASE b < a
    <2>1. a \in 1 .. a /\ a \notin 1 .. b
      BY <1>2
    <2> QED
      BY <2>1
  <1> QED
    BY <1>1, <1>2

LEMMA SlotsFacts ==
  ASSUME TypeOK
  PROVE  /\ Len(slots) \in Nat /\ DOMAIN slots = 1 .. Len(slots)
         /\ slots \in [1 .. Len(slots) -> Session \cup {Null}]
         /\ size \in Nat /\ size <= Len(slots) /\ session_id \in Nat
         /\ session_id <= MaxSessions
         /\ Session \subseteq Nat /\ Null \notin Session
         /\ \A m \in DOMAIN index : Found(m) \in Session \cup {Null}
  <1>1. /\ slots \in Seq(Session \cup {Null}) /\ size \in 0 .. Len(slots)
        /\ session_id \in 0 .. MaxSessions
        /\ \A m \in DOMAIN index : index[m] \in Nat \ {0}
    BY DEF TypeOK
  <1>2. /\ Len(slots) \in Nat /\ DOMAIN slots = 1 .. Len(slots)
        /\ slots \in [1 .. Len(slots) -> Session \cup {Null}]
    BY <1>1, LenProperties
  <1>3. Session \subseteq Nat /\ Null \notin Session /\ MaxSessions \in Nat
    BY ConstantsAssumption DEF Session
  <1>4. ASSUME NEW m \in DOMAIN index PROVE Found(m) \in Session \cup {Null}
    BY <1>1, <1>2 DEF Found
  <1> QED
    BY <1>1, <1>2, <1>3, <1>4

-----------------------------------------------------------------------------
(* Every variable keeps its type.                                          *)

SessionTypes ==
    /\ slots \in Seq(Session \cup {Null}) /\ size \in 0 .. Len(slots)
    /\ session_id \in 0 .. MaxSessions
    /\ map_of \in [DOMAIN map_of -> Maps] /\ DOMAIN map_of \subseteq Session
    /\ index \in [DOMAIN index -> Nat \ {0}] /\ DOMAIN index \subseteq Maps

PlayerTypes ==
    /\ players_ \in [DOMAIN players_ -> SUBSET Player] /\ DOMAIN players_ \subseteq Session
    /\ next_player \in 0 .. MaxPlayers
    /\ session_of \in [0 .. next_player - 1 -> Session]
    /\ asked \in [0 .. next_player - 1 -> Maps]
    /\ swept \subseteq Player

TokenTypes ==
    /\ tokens \in [DOMAIN tokens -> Player] /\ DOMAIN tokens \subseteq Tokens
    /\ token_of \in [DOMAIN token_of -> Tokens] /\ DOMAIN token_of \subseteq Player

LoopTypes ==
    /\ removal \in [Session -> RemovalStep]
    /\ leaving \in [Session -> SUBSET Player] /\ erasing \in [Session -> SUBSET Player]

TickTypes ==
    /\ ticker \in BOOLEAN /\ due \subseteq Session
    /\ tick \in [at : Nat, last : 0 .. Len(slots), inline : SUBSET Session]
    /\ tick # NoTick => tick.at > 0 /\ join = NoJoin

DogTypes ==
    /\ running \subseteq Session
    /\ dogs \in [Session -> SUBSET Player] /\ stalled \subseteq Player
    /\ crashed \subseteq Exception \cup Fault

LEMMA ShapesInParts ==
  Shapes <=> /\ SessionTypes /\ PlayerTypes /\ TokenTypes /\ LoopTypes /\ TickTypes
             /\ DogTypes /\ join \in JoinRecord /\ JoinType
  BY DEF Shapes, TypeOK, SessionTypes, PlayerTypes, TokenTypes, LoopTypes, TickTypes, DogTypes,
         JoinRecord

LEMMA ShapesFromParts ==
  ASSUME SessionTypes', PlayerTypes', TokenTypes', LoopTypes', TickTypes', DogTypes',
         (join \in JoinRecord)', JoinType'
  PROVE  Shapes'
  BY DEF Shapes, TypeOK, SessionTypes, PlayerTypes, TokenTypes, LoopTypes, TickTypes, DogTypes,
         JoinRecord

LEMMA SameTypes ==
  ASSUME Shapes
  PROVE  /\ UNCHANGED session_vars => SessionTypes'
         /\ UNCHANGED player_vars => PlayerTypes'
         /\ UNCHANGED token_vars => TokenTypes'
         /\ UNCHANGED loop_vars => LoopTypes'
         /\ UNCHANGED <<tick_vars, slots, join>> => TickTypes'
         /\ UNCHANGED <<running, dogs, crashed, stalled>> => DogTypes'
         /\ UNCHANGED <<join, next_player, session_of>> => join' \in JoinRecord /\ JoinType'
  BY ShapesInParts DEF SessionTypes, PlayerTypes, TokenTypes, LoopTypes, TickTypes, DogTypes,
     JoinType, session_vars, player_vars, token_vars, loop_vars, tick_vars

LEMMA ShapesInit == Init => Shapes
  <1> SUFFICES ASSUME Init PROVE Shapes
    OBVIOUS
  <1>1. slots \in Seq(Session \cup {Null}) /\ Len(slots) = 0 /\ size = 0
    BY EmptySeq DEF Init
  <1>2. 0 \in 0 .. MaxSessions /\ 0 \in 0 .. MaxPlayers /\ 0 .. 0 - 1 = {}
    BY ConstantsAssumption
  <1>3. SessionTypes /\ PlayerTypes /\ TokenTypes
    BY <1>1, <1>2 DEF Init, SessionTypes, PlayerTypes, TokenTypes
  <1>4. join \in JoinRecord /\ JoinType
    BY NoJoinFacts DEF Init, JoinType
  <1>5. TickTypes
    BY <1>1, NoTickFacts DEF Init, TickTypes
  <1>6. LoopTypes /\ DogTypes
    BY DEF Init, LoopTypes, DogTypes, RemovalStep
  <1> QED
    BY <1>3, <1>4, <1>5, <1>6, ShapesInParts

LEMMA JoinFacts ==
  ASSUME Shapes
  PROVE  /\ next_player \in Nat /\ MaxPlayers \in Nat /\ next_player <= MaxPlayers
         /\ join \in JoinRecord
         /\ join.step = "none" => join = NoJoin
         /\ join.step # "none" => join # NoJoin /\ tick = NoTick
                                 /\ join.session \in Session /\ join.map \in Maps
         /\ join.step \in {"append", "index", "add dog", "add player"} =>
               next_player < MaxPlayers /\ next_player \in Player
         /\ join.step \in {"add token", "add token id"} =>
               /\ next_player > 0 /\ next_player - 1 \in Player
               /\ session_of[next_player - 1] = join.session
         /\ join.step = "add token id" => join.token \in Tokens
  <1>1. next_player \in Nat /\ MaxPlayers \in Nat /\ next_player <= MaxPlayers
    BY ConstantsAssumption, ShapesInParts DEF PlayerTypes
  <1>2. /\ join \in JoinRecord
        /\ join.step = "none" => join = NoJoin
        /\ join.step # "none" => join.session \in Session /\ join.map \in Maps
        /\ join.step \in {"append", "index", "add dog", "add player"} => next_player < MaxPlayers
        /\ join.step \in {"add token", "add token id"} =>
              next_player > 0 /\ session_of[next_player - 1] = join.session
        /\ join.step = "add token id" => join.token \in Tokens
    BY ShapesInParts DEF JoinType
  <1>3. join.step # "none" => join # NoJoin /\ tick = NoTick
    BY NoJoinFacts DEF Shapes
  <1>4. next_player < MaxPlayers => next_player \in Player
    BY <1>1 DEF Player
  <1>5. next_player > 0 => next_player - 1 \in Player
    BY <1>1 DEF Player
  <1> QED
    BY <1>1, <1>2, <1>3, <1>4, <1>5

(* The steps of a join.                                                    *)
LEMMA JoinShapes ==
  ASSUME Shapes, Slots, Join
  PROVE  Shapes'
  <1>1. /\ SessionTypes /\ PlayerTypes /\ TokenTypes /\ LoopTypes /\ TickTypes /\ DogTypes
        /\ join \in JoinRecord /\ JoinType
    BY ShapesInParts
  <1>2. /\ Len(slots) \in Nat /\ size \in Nat /\ size <= Len(slots) /\ session_id \in Nat
        /\ MaxSessions \in Nat /\ session_id <= MaxSessions
        /\ \A m \in DOMAIN index : Found(m) \in Session \cup {Null}
    BY SlotsFacts, ConstantsAssumption DEF Shapes
  <1>3. UNCHANGED <<ticker, tick, due, stalled>>
    BY DEF Join, tick_vars
  <1>4. ASSUME UNCHANGED slots, tick = NoTick PROVE TickTypes'
    BY <1>1, <1>3, <1>4 DEF TickTypes
  <1>5. ASSUME UNCHANGED <<running, dogs, crashed>> PROVE DogTypes'
    BY <1>1, <1>3, <1>5 DEF DogTypes
  <1>6. ASSUME NEW m \in Maps, JoinGameFound(m) PROVE Shapes'
    <2>1. SessionTypes' /\ PlayerTypes' /\ TokenTypes' /\ LoopTypes'
      BY <1>6, SameTypes DEF JoinGameFound
    <2>2. /\ UNCHANGED <<slots, running, dogs, next_player, session_of>>
          /\ tick = NoTick /\ next_player < MaxPlayers
      BY <1>6 DEF JoinGameFound, session_vars, player_vars, ApiIsFree
    <2>3. TickTypes'
      BY <1>4, <2>2
    <2>4. CASE Found(m) = Null
      <3>1. UNCHANGED join /\ crashed' = crashed \cup {"empty slot"}
        BY <1>6, <2>4 DEF JoinGameFound, Fail
      <3>2. DogTypes'
        BY <1>1, <1>3, <2>2, <3>1 DEF DogTypes, Fault
      <3>3. join' \in JoinRecord /\ JoinType'
        BY <2>2, <3>1, SameTypes
      <3> QED
        BY <2>1, <2>3, <3>2, <3>3, ShapesFromParts
    <2>5. CASE Found(m) # Null
      <3>1. join' = [step |-> "add dog", session |-> Found(m), map |-> m, slot |-> 0,
                     token |-> Null]
        BY <1>6, <2>5 DEF JoinGameFound, JoinSession
      <3>2. Found(m) \in Session /\ UNCHANGED crashed
        BY <1>2, <1>6, <2>5 DEF JoinGameFound
      <3>3. join' \in JoinRecord /\ JoinType'
        BY <2>2, <3>1, <3>2 DEF JoinRecord, JoinType, JoinStep
      <3> QED
        BY <1>5, <2>1, <2>2, <2>3, <3>2, <3>3, ShapesFromParts
    <2> QED
      BY <2>4, <2>5
  <1>7. ASSUME NEW m \in Maps, JoinGameNew(m) PROVE Shapes'
    <2>1. PlayerTypes' /\ TokenTypes' /\ LoopTypes'
      BY <1>7, SameTypes DEF JoinGameNew
    <2>2. /\ UNCHANGED <<slots, size, session_id, index, running, dogs, next_player, session_of,
                         crashed>>
          /\ tick = NoTick /\ next_player < MaxPlayers /\ session_id < MaxSessions
      BY <1>7 DEF JoinGameNew, player_vars, ApiIsFree
    <2>3. session_id \in Session
      BY <1>2, <2>2 DEF Session
    <2>4. map_of' \in [DOMAIN map_of' -> Maps] /\ DOMAIN map_of' \subseteq Session
      BY <1>1, <1>7, <2>3 DEF JoinGameNew, SessionTypes, Put
    <2>5. SessionTypes'
      BY <1>1, <2>2, <2>4 DEF SessionTypes
    <2>6. join' = [step |-> "append", session |-> session_id, map |-> m, slot |-> size + 1,
                   token |-> Null]
      <3>1. size + 1 # 0
        BY <1>2
      <3> QED
        BY <1>7, <3>1 DEF JoinGameNew, JoinSession
    <2>7. join' \in JoinRecord /\ JoinType'
      BY <1>2, <2>2, <2>3, <2>6 DEF JoinRecord, JoinType, JoinStep
    <2> QED
      BY <1>4, <1>5, <2>1, <2>2, <2>5, <2>7, ShapesFromParts
  <1>8. CASE JoinGameUnknown
    <2>1. SessionTypes' /\ PlayerTypes' /\ TokenTypes' /\ LoopTypes'
      BY <1>8, SameTypes DEF JoinGameUnknown
    <2>2. UNCHANGED <<slots, running, dogs, next_player, session_of, join>> /\ tick = NoTick
      BY <1>8 DEF JoinGameUnknown, session_vars, player_vars, ApiIsFree
    <2>3. crashed' = crashed \cup {"unknown map"}
      BY <1>8 DEF JoinGameUnknown, Fail
    <2>4. DogTypes'
      BY <1>1, <1>3, <2>2, <2>3 DEF DogTypes, Exception
    <2>5. join' \in JoinRecord /\ JoinType'
      BY <2>2, SameTypes
    <2> QED
      BY <1>4, <2>1, <2>2, <2>4, <2>5, ShapesFromParts
  <1>9. CASE AppendSession
    <2>1. PlayerTypes' /\ TokenTypes' /\ LoopTypes'
      BY <1>9, SameTypes DEF AppendSession
    <2>2. /\ UNCHANGED <<session_id, map_of, index, running, dogs, next_player, session_of,
                         crashed>>
          /\ join.step = "append" /\ size' = size + 1
      BY <1>9 DEF AppendSession, player_vars
    <2>3. slots' \in Seq(Session \cup {Null}) /\ size + 1 <= Len(slots') /\ Len(slots') \in Nat
      <3>1. join.session \in Session \cup {Null} /\ slots \in Seq(Session \cup {Null})
        BY <1>1, <2>2, JoinFacts DEF SessionTypes
      <3>2. CASE size = Len(slots)
        <4>1. slots' = Append(slots, join.session)
          BY <1>9, <3>2 DEF AppendSession
        <4> QED
          BY <1>2, <3>1, <3>2, <4>1, AppendProperties
      <3>3. CASE size # Len(slots)
        <4>1. slots' = [slots EXCEPT ![size + 1] = join.session]
          BY <1>9, <3>3 DEF AppendSession
        <4>2. size + 1 \in 1 .. Len(slots)
          BY <1>2, <3>3
        <4> QED
          BY <1>2, <3>1, <4>1, <4>2, ExceptSeq
      <3> QED
        BY <3>2, <3>3
    <2>4. size' \in 0 .. Len(slots')
      BY <1>2, <2>2, <2>3
    <2>5. SessionTypes'
      BY <1>1, <2>2, <2>3, <2>4 DEF SessionTypes
    <2>6. join' = [join EXCEPT !.step = "index"]
      BY <1>9 DEF AppendSession
    <2>7. /\ join' \in JoinRecord /\ join'.step = "index" /\ join'.session = join.session
          /\ join'.map = join.map
      BY <1>1, <2>6, JoinGoesOn DEF JoinStep
    <2>8. JoinType'
      BY <2>2, <2>7, JoinFacts DEF JoinType
    <2>9. TickTypes'
      <3>1. tick' = NoTick
        BY <1>3, <2>2, JoinFacts
      <3>2. tick'.at \in Nat /\ tick' \in [at : Nat, last : 0 .. Len(slots'), inline : SUBSET Session]
        BY <2>3, <3>1, NoTickFacts
      <3> QED
        BY <1>1, <1>3, <3>1, <3>2 DEF TickTypes
    <2> QED
      BY <1>5, <2>1, <2>2, <2>5, <2>7, <2>8, <2>9, ShapesFromParts
  <1>10. CASE IndexSession
    <2>1. PlayerTypes' /\ TokenTypes' /\ LoopTypes'
      BY <1>10, SameTypes DEF IndexSession
    <2>2. /\ UNCHANGED <<slots, size, map_of, running, dogs, next_player, session_of, crashed>>
          /\ join.step = "index" /\ session_id' = session_id + 1
      BY <1>10 DEF IndexSession, player_vars
    <2>3. join.map \in Maps /\ tick = NoTick /\ next_player < MaxPlayers
      BY <2>2, JoinFacts
    <2>4. join.slot \in Nat \ {0}
      BY <1>1, <2>2 DEF JoinRecord, Slots
    <2>5. session_id < MaxSessions
      BY <2>2 DEF Slots
    <2>6. index' \in [DOMAIN index' -> Nat \ {0}] /\ DOMAIN index' \subseteq Maps
      BY <1>1, <1>10, <2>3, <2>4 DEF IndexSession, SessionTypes, Put
    <2>7. session_id' \in 0 .. MaxSessions
      BY <1>2, <2>2, <2>5
    <2>8. SessionTypes'
      BY <1>1, <2>2, <2>6, <2>7 DEF SessionTypes
    <2>9. join' = [join EXCEPT !.step = "add dog"]
      BY <1>10 DEF IndexSession
    <2>10. /\ join' \in JoinRecord /\ join'.step = "add dog" /\ join'.session = join.session
           /\ join'.map = join.map
      BY <1>1, <2>9, JoinGoesOn DEF JoinStep
    <2>11. JoinType'
      BY <2>2, <2>10, JoinFacts DEF JoinType
    <2> QED
      BY <1>4, <1>5, <2>1, <2>2, <2>3, <2>8, <2>10, <2>11, ShapesFromParts
  <1>11. CASE JoinAddDog
    <2>1. SessionTypes' /\ PlayerTypes' /\ TokenTypes' /\ LoopTypes'
      BY <1>11, SameTypes DEF JoinAddDog
    <2>2. /\ UNCHANGED <<slots, running, next_player, session_of, crashed>>
          /\ join.step = "add dog"
      BY <1>11 DEF JoinAddDog, session_vars, player_vars
    <2>3. next_player \in Player /\ tick = NoTick
      BY <2>2, JoinFacts
    <2>4. DogTypes'
      BY <1>1, <1>3, <1>11, <2>2, <2>3 DEF JoinAddDog, DogTypes
    <2>5. join' = [join EXCEPT !.step = "add player"]
      BY <1>11 DEF JoinAddDog
    <2>6. /\ join' \in JoinRecord /\ join'.step = "add player" /\ join'.session = join.session
          /\ join'.map = join.map
      BY <1>1, <2>5, JoinGoesOn DEF JoinStep
    <2>7. JoinType'
      BY <2>2, <2>6, JoinFacts DEF JoinType
    <2> QED
      BY <1>4, <2>1, <2>2, <2>3, <2>4, <2>6, <2>7, ShapesFromParts
  <1>12. CASE JoinAddPlayer
    <2>1. SessionTypes' /\ TokenTypes' /\ LoopTypes'
      BY <1>12, SameTypes DEF JoinAddPlayer
    <2>2. /\ UNCHANGED <<slots, running, dogs, crashed>>
          /\ join.step = "add player" /\ next_player' = next_player + 1
      BY <1>12 DEF JoinAddPlayer, session_vars
    <2>3. /\ next_player \in Player /\ join.session \in Session /\ join.map \in Maps
          /\ next_player \in Nat /\ next_player < MaxPlayers /\ MaxPlayers \in Nat
          /\ tick = NoTick
      BY <2>2, JoinFacts
    <2>4. /\ next_player' \in 0 .. MaxPlayers /\ next_player' > 0
          /\ next_player' - 1 = next_player
          /\ 0 .. next_player' - 1 = (0 .. next_player - 1) \cup {next_player}
      <3>1. next_player + 1 \in 0 .. MaxPlayers /\ next_player + 1 > 0
        BY <2>3
      <3>2. next_player + 1 - 1 = next_player
        BY <2>3
      <3>3. 0 .. next_player = (0 .. next_player - 1) \cup {next_player}
        BY <2>3
      <3>4. next_player' = next_player + 1
        BY <2>2
      <3>5. next_player' - 1 = next_player
        BY <2>3, <3>2, <3>4
      <3> QED
        BY <3>1, <3>3, <3>4, <3>5
    <2>5. players_' \in [DOMAIN players_' -> SUBSET Player] /\ DOMAIN players_' \subseteq Session
      <3>1. PlayersOf(join.session) \cup {next_player} \in SUBSET Player
        BY <1>1, <2>3 DEF PlayersOf, PlayerTypes
      <3>2. players_' = Put(players_, join.session, PlayersOf(join.session) \cup {next_player})
        BY <1>12 DEF JoinAddPlayer
      <3> QED
        BY <1>1, <2>3, <3>1, <3>2 DEF PlayerTypes, Put
    <2>6. /\ session_of' \in [(0 .. next_player - 1) \cup {next_player} -> Session]
          /\ session_of'[next_player] = join.session
      <3>1. session_of' = Put(session_of, next_player, join.session)
        BY <1>12 DEF JoinAddPlayer
      <3> QED
        BY <1>1, <2>3, <3>1 DEF PlayerTypes, Put
    <2>7. asked' \in [(0 .. next_player - 1) \cup {next_player} -> Maps]
      <3>1. asked' = Put(asked, next_player, join.map)
        BY <1>12 DEF JoinAddPlayer
      <3> QED
        BY <1>1, <2>3, <3>1 DEF PlayerTypes, Put
    <2>8. swept' \subseteq Player
      BY <1>1, <1>12, <2>3 DEF JoinAddPlayer, PlayerTypes
    <2>9. PlayerTypes'
      BY <2>4, <2>5, <2>6, <2>7, <2>8 DEF PlayerTypes
    <2>10. join' = [join EXCEPT !.step = "add token"]
      BY <1>12 DEF JoinAddPlayer
    <2>11. /\ join' \in JoinRecord /\ join'.step = "add token" /\ join'.session = join.session
           /\ join'.map = join.map
      BY <1>1, <2>10, JoinGoesOn DEF JoinStep
    <2>12. JoinType'
      BY <2>3, <2>4, <2>6, <2>11 DEF JoinType
    <2> QED
      BY <1>4, <1>5, <2>1, <2>2, <2>3, <2>9, <2>11, <2>12, ShapesFromParts
  <1>13. ASSUME NEW token \in Tokens, JoinAddToken(token) PROVE Shapes'
    <2>1. SessionTypes' /\ PlayerTypes' /\ LoopTypes'
      BY <1>13, SameTypes DEF JoinAddToken
    <2>2. /\ UNCHANGED <<slots, running, dogs, next_player, session_of, token_of, crashed>>
          /\ join.step = "add token"
      BY <1>13 DEF JoinAddToken, session_vars, player_vars
    <2>3. next_player - 1 \in Player /\ tick = NoTick
      BY <2>2, JoinFacts
    <2>4. tokens' \in [DOMAIN tokens' -> Player] /\ DOMAIN tokens' \subseteq Tokens
      <3>1. tokens' = Put(tokens, token, next_player - 1)
        BY <1>13 DEF JoinAddToken
      <3> QED
        BY <1>1, <2>3, <3>1 DEF TokenTypes, Put
    <2>5. TokenTypes'
      BY <1>1, <2>2, <2>4 DEF TokenTypes
    <2>6. join' = [join EXCEPT !.step = "add token id", !.token = token]
      BY <1>13 DEF JoinAddToken
    <2>7. /\ join' \in JoinRecord /\ join'.step = "add token id" /\ join'.token = token
          /\ join'.session = join.session /\ join'.map = join.map
      BY <1>1, <2>6 DEF JoinRecord, JoinStep
    <2>8. JoinType'
      BY <2>2, <2>7, JoinFacts DEF JoinType
    <2> QED
      BY <1>4, <1>5, <2>1, <2>2, <2>3, <2>5, <2>7, <2>8, ShapesFromParts
  <1>14. CASE JoinAddTokenId
    <2>1. SessionTypes' /\ PlayerTypes' /\ LoopTypes'
      BY <1>14, SameTypes DEF JoinAddTokenId
    <2>2. /\ UNCHANGED <<slots, running, dogs, next_player, session_of, tokens, crashed>>
          /\ join.step = "add token id"
      BY <1>14 DEF JoinAddTokenId, session_vars, player_vars
    <2>3. next_player - 1 \in Player /\ tick = NoTick /\ join.token \in Tokens
      BY <2>2, JoinFacts
    <2>4. token_of' \in [DOMAIN token_of' -> Tokens] /\ DOMAIN token_of' \subseteq Player
      <3>1. token_of' = Put(token_of, next_player - 1, join.token)
        BY <1>14 DEF JoinAddTokenId
      <3> QED
        BY <1>1, <2>3, <3>1 DEF TokenTypes, Put
    <2>5. TokenTypes'
      BY <1>1, <2>2, <2>4 DEF TokenTypes
    <2>6. join' = NoJoin \/ join' = [join EXCEPT !.step = "run"]
      BY <1>14 DEF JoinAddTokenId
    <2>7. /\ join' \in JoinRecord
          /\ \/ join' = NoJoin /\ join'.step = "none"
             \/ join'.step = "run" /\ join'.session = join.session /\ join'.map = join.map
      <3>1. CASE join' = NoJoin
        BY <3>1, NoJoinFacts
      <3>2. CASE join' = [join EXCEPT !.step = "run"]
        BY <1>1, <3>2, JoinGoesOn DEF JoinStep
      <3> QED
        BY <2>6, <3>1, <3>2
    <2>8. JoinType'
      BY <2>2, <2>7, JoinFacts DEF JoinType
    <2> QED
      BY <1>4, <1>5, <2>1, <2>2, <2>3, <2>5, <2>7, <2>8, ShapesFromParts
  <1>15. CASE RunSession
    <2>1. SessionTypes' /\ PlayerTypes' /\ TokenTypes' /\ LoopTypes'
      BY <1>15, SameTypes DEF RunSession
    <2>2. /\ UNCHANGED <<slots, dogs, next_player, session_of, crashed>> /\ join.step = "run"
          /\ join' = NoJoin /\ running' = running \cup {join.session}
      BY <1>15 DEF RunSession, session_vars, player_vars
    <2>3. join' \in JoinRecord /\ join'.step = "none" /\ tick = NoTick /\ join.session \in Session
      BY <2>2, NoJoinFacts, JoinFacts
    <2>4. JoinType'
      BY <2>2, <2>3 DEF JoinType
    <2>5. DogTypes'
      BY <1>1, <1>3, <2>2, <2>3 DEF DogTypes
    <2> QED
      BY <1>4, <2>1, <2>2, <2>3, <2>4, <2>5, ShapesFromParts
  <1> QED
    BY <1>6, <1>7, <1>8, <1>9, <1>10, <1>11, <1>12, <1>13, <1>14, <1>15 DEF Join

(* The steps of a tick, and the calls it makes.                            *)
LEMMA RetireShapes ==
  ASSUME Shapes, Retire
  PROVE  Shapes'
  <1>1. /\ SessionTypes /\ PlayerTypes /\ TokenTypes /\ LoopTypes /\ TickTypes /\ DogTypes
        /\ join \in JoinRecord /\ JoinType
    BY ShapesInParts
  <1>2. PICK s \in running : (\E retired \in SUBSET dogs[s] : RetireDogs(s, retired))
                             \/ RetireNobody(s)
    BY DEF Retire
  <1>3. s \in Session
    BY <1>1, <1>2 DEF DogTypes
  <1>4. UNCHANGED <<session_vars, player_vars, token_vars, join, running, crashed, ticker, tick,
                    leaving, erasing>>
    BY <1>2 DEF RetireDogs, RetireNobody, loop_vars, tick_vars
  <1>5. UNCHANGED <<slots, next_player, session_of>>
    BY <1>4 DEF session_vars, player_vars
  <1>6. SessionTypes' /\ PlayerTypes' /\ TokenTypes' /\ join' \in JoinRecord /\ JoinType'
    BY <1>4, <1>5, SameTypes
  <1>7. CASE \E retired \in SUBSET dogs[s] : RetireDogs(s, retired)
    <2>1. PICK retired \in SUBSET dogs[s] : RetireDogs(s, retired)
      BY <1>7
    <2>2. /\ dogs' = [dogs EXCEPT ![s] = @ \ retired]
          /\ stalled' = stalled \cup (retired \cap Joining)
          /\ removal' = [removal EXCEPT ![s] = "commit"] /\ UNCHANGED due
      BY <2>1 DEF RetireDogs, tick_vars
    <2>3. retired \subseteq Player
      BY <1>1, <1>3, <2>1 DEF DogTypes
    <2>4. DogTypes'
      BY <1>1, <1>3, <1>4, <2>2, <2>3 DEF DogTypes
    <2>5. LoopTypes'
      BY <1>1, <1>3, <1>4, <2>2 DEF LoopTypes, RemovalStep
    <2>6. TickTypes'
      BY <1>1, <1>4, <1>5, <2>2 DEF TickTypes
    <2> QED
      BY <1>6, <2>4, <2>5, <2>6, ShapesFromParts
  <1>8. CASE RetireNobody(s)
    <2>1. due' = due \ {s} /\ UNCHANGED <<dogs, stalled, loop_vars>>
      BY <1>8 DEF RetireNobody
    <2>2. DogTypes' /\ LoopTypes'
      BY <1>4, <2>1, SameTypes
    <2>3. TickTypes'
      BY <1>1, <1>4, <1>5, <2>1 DEF TickTypes
    <2> QED
      BY <1>6, <2>2, <2>3, ShapesFromParts
  <1> QED
    BY <1>2, <1>7, <1>8

LEMMA TickShapes ==
  ASSUME Shapes, Tick
  PROVE  Shapes'
  <1>1. /\ SessionTypes /\ PlayerTypes /\ TokenTypes /\ LoopTypes /\ TickTypes /\ DogTypes
        /\ join \in JoinRecord /\ JoinType
    BY ShapesInParts
  <1>2. UNCHANGED <<session_vars, player_vars, token_vars, loop_vars, join, running, dogs,
                    stalled, ticker>>
    BY DEF Tick, BeginTick, TickSession
  <1>3. UNCHANGED <<slots, next_player, session_of>>
    BY <1>2 DEF session_vars, player_vars
  <1>4. /\ SessionTypes' /\ PlayerTypes' /\ TokenTypes' /\ LoopTypes'
        /\ join' \in JoinRecord /\ JoinType'
    BY <1>2, <1>3, SameTypes
  <1>5. CASE BeginTick
    <2>1. /\ tick' = [at |-> 1, last |-> size, inline |-> {}] /\ UNCHANGED <<due, crashed>>
          /\ join = NoJoin
      BY <1>5 DEF BeginTick, ApiIsFree
    <2>2. size \in 0 .. Len(slots)
      BY <1>1 DEF SessionTypes
    <2>3. TickTypes'
      BY <1>1, <1>2, <1>3, <2>1, <2>2 DEF TickTypes
    <2>4. DogTypes'
      BY <1>2, <2>1, SameTypes
    <2> QED
      BY <1>4, <2>3, <2>4, ShapesFromParts
  <1>6. ASSUME NEW inline \in BOOLEAN, TickSession(inline) PROVE Shapes'
    <2>1. tick # NoTick /\ tick.at \in Nat /\ tick.at > 0 /\ join = NoJoin
      BY <1>1, <1>6 DEF TickSession, TickTypes
    <2>2. CASE tick.at > tick.last
      <3>1. tick' = NoTick /\ UNCHANGED <<due, crashed>>
        BY <1>6, <2>2 DEF TickSession
      <3>2. tick' \in [at : Nat, last : 0 .. Len(slots), inline : SUBSET Session]
        <4>1. Len(slots) \in Nat
          BY SlotsFacts DEF Shapes
        <4> QED
          BY <3>1, <4>1, NoTickFacts
      <3>3. TickTypes'
        BY <1>1, <1>2, <1>3, <3>1, <3>2 DEF TickTypes
      <3>4. DogTypes'
        BY <1>2, <3>1, SameTypes
      <3> QED
        BY <1>4, <3>3, <3>4, ShapesFromParts
    <2>3. CASE ~(tick.at > tick.last) /\ slots[tick.at] = Null
      <3>1. crashed' = crashed \cup {"empty slot"} /\ UNCHANGED <<tick, due>>
        BY <1>6, <2>3 DEF TickSession, Fail
      <3>2. TickTypes'
        BY <1>1, <1>2, <1>3, <3>1 DEF TickTypes
      <3>3. DogTypes'
        BY <1>1, <1>2, <3>1 DEF DogTypes, Fault
      <3> QED
        BY <1>4, <3>2, <3>3, ShapesFromParts
    <2>4. CASE ~(tick.at > tick.last) /\ slots[tick.at] # Null
      <3> DEFINE s == slots[tick.at]
      <3>1. /\ due' = due \cup {s} /\ UNCHANGED crashed
            /\ tick' = [tick EXCEPT !.at = @ + 1, !.inline = IF inline THEN {s} ELSE {}]
        BY <1>6, <2>4 DEF TickSession
      <3>2. s \in Session
        <4>1. /\ Len(slots) \in Nat /\ slots \in [1 .. Len(slots) -> Session \cup {Null}]
              /\ tick.last \in 0 .. Len(slots)
          BY <1>1, SlotsFacts DEF Shapes, TickTypes
        <4>2. tick.at \in 1 .. Len(slots)
          BY <2>1, <2>4, <4>1
        <4> QED
          BY <2>4, <4>1, <4>2
      <3> HIDE DEF s
      <3>3. tick' \in [at : Nat, last : 0 .. Len(slots), inline : SUBSET Session] /\ tick'.at > 0
        <4>1. tick \in [at : Nat, last : 0 .. Len(slots), inline : SUBSET Session]
          BY <1>1 DEF TickTypes
        <4>2. tick.at + 1 \in Nat /\ tick.at + 1 > 0
          BY <2>1
        <4>3. (IF inline THEN {s} ELSE {}) \in SUBSET Session
          BY <3>2
        <4> QED
          BY <3>1, <4>1, <4>2, <4>3
      <3>4. TickTypes'
        BY <1>1, <1>2, <1>3, <2>1, <3>1, <3>2, <3>3 DEF TickTypes
      <3>5. DogTypes'
        BY <1>2, <3>1, SameTypes
      <3> QED
        BY <1>4, <3>4, <3>5, ShapesFromParts
    <2> QED
      BY <2>2, <2>3, <2>4
  <1> QED
    BY <1>5, <1>6 DEF Tick

LEMMA ThrowShapes ==
  ASSUME Shapes, NEW s \in Session, NEW cause \in Exception, Throw(s, cause),
         UNCHANGED <<session_vars, dogs, player_vars, token_vars, join, erasing, stalled,
                     ticker, tick>>,
         due' = due \ {s}
  PROVE  Shapes'
  <1>1. /\ SessionTypes /\ PlayerTypes /\ TokenTypes /\ LoopTypes /\ TickTypes /\ DogTypes
        /\ join \in JoinRecord /\ JoinType
    BY ShapesInParts
  <1>2. UNCHANGED <<slots, next_player, session_of>>
    BY DEF session_vars, player_vars
  <1>3. /\ SessionTypes' /\ PlayerTypes' /\ TokenTypes' /\ join' \in JoinRecord /\ JoinType'
    BY <1>2, SameTypes
  <1>4. TickTypes'
    BY <1>1, <1>2 DEF TickTypes
  <1>5. LoopTypes'
    BY <1>1 DEF Throw, LoopTypes, RemovalStep
  <1>6. DogTypes'
    BY <1>1 DEF Throw, Fail, DogTypes
  <1> QED
    BY <1>3, <1>4, <1>5, <1>6, ShapesFromParts

(* vector::erase leaves a vector of sessions.                              *)
LEMMA EraseSlotTypes ==
  ASSUME Shapes, NEW s \in Session, EraseSession(s)
  PROVE  /\ slots' \in [1 .. Len(slots) -> Session \cup {Null}]
         /\ slots' \in Seq(Session \cup {Null}) /\ Len(slots') = Len(slots)
         /\ size' \in 0 .. Len(slots)
         /\ s \notin Listed => UNCHANGED <<slots, size>>
         /\ s \in Listed => \E k \in 1 .. size :
               /\ slots[k] = s /\ size' = size - 1
               /\ \A i \in 1 .. Len(slots) : slots'[i] =
                     IF i >= k /\ i < size THEN slots[i + 1]
                     ELSE IF i = size /\ k < size THEN Null ELSE slots[i]
  <1>1. /\ Len(slots) \in Nat /\ DOMAIN slots = 1 .. Len(slots)
        /\ slots \in [1 .. Len(slots) -> Session \cup {Null}]
        /\ size \in Nat /\ size <= Len(slots) /\ slots \in Seq(Session \cup {Null})
    BY SlotsFacts DEF Shapes, TypeOK
  <1>2. CASE s \notin Listed
    BY <1>1, <1>2 DEF EraseSession
  <1>3. CASE s \in Listed
    <2> DEFINE k == CHOOSE i \in 1 .. size : slots[i] = s
    <2>1. k \in 1 .. size /\ slots[k] = s
      BY <1>3 DEF Listed
    <2>2. /\ slots' = [i \in DOMAIN slots |->
                          IF i >= k /\ i < size THEN slots[i + 1]
                          ELSE IF i = size /\ k < size THEN Null ELSE slots[i]]
          /\ size' = size - 1
      BY <1>3 DEF EraseSession
    <2> HIDE DEF k
    <2>3. \A i \in 1 .. Len(slots) : slots'[i] =
             IF i >= k /\ i < size THEN slots[i + 1]
             ELSE IF i = size /\ k < size THEN Null ELSE slots[i]
      BY <1>1, <2>2
    <2>4. slots' \in [1 .. Len(slots) -> Session \cup {Null}]
      <3>1. DOMAIN slots' = 1 .. Len(slots) /\ slots' = [i \in 1 .. Len(slots) |-> slots'[i]]
        BY <1>1, <2>2
      <3>2. ASSUME NEW i \in 1 .. Len(slots) PROVE slots'[i] \in Session \cup {Null}
        <4>1. \A j \in 1 .. Len(slots) : slots[j] \in Session \cup {Null}
          BY <1>1
        <4>2. i >= k /\ i < size => i + 1 \in 1 .. Len(slots)
          BY <1>1
        <4> QED
          BY <2>3, <4>1, <4>2
      <3> QED
        BY <3>1, <3>2
    <2>5. slots' \in Seq(Session \cup {Null})
      BY <1>1, <2>4, SeqDef
    <2>6. Len(slots') = Len(slots)
      <3>1. Len(slots') \in Nat /\ 1 .. Len(slots') = 1 .. Len(slots)
        BY <2>4, <2>5, LenProperties
      <3> QED
        BY <1>1, <3>1, SameLength
    <2>7. size' \in 0 .. Len(slots)
      BY <1>1, <2>1, <2>2
    <2> QED
      BY <1>3, <2>1, <2>2, <2>3, <2>4, <2>5, <2>6, <2>7
  <1> QED
    BY <1>2, <1>3

LEMMA RemoveShapes ==
  ASSUME Shapes, Remove
  PROVE  Shapes'
  <1>1. /\ SessionTypes /\ PlayerTypes /\ TokenTypes /\ LoopTypes /\ TickTypes /\ DogTypes
        /\ join \in JoinRecord /\ JoinType
    BY ShapesInParts
  <1>2. PICK s \in Session : CommitFails(s) \/ CopyPlayers(s) \/ RemoveInactivePlayers(s)
    BY DEF Remove
  <1>3. CASE CommitFails(s)
    BY <1>3, ThrowShapes DEF CommitFails, Exception
  <1>4. CASE CopyPlayers(s)
    <2>1. CASE s \notin DOMAIN players_
      BY <1>4, <2>1, ThrowShapes DEF CopyPlayers, Exception
    <2>2. CASE s \in DOMAIN players_
      <3>1. /\ leaving' = [leaving EXCEPT ![s] = players_[s]]
            /\ removal' = [removal EXCEPT ![s] = "loop"]
            /\ UNCHANGED <<session_vars, dogs, player_vars, token_vars, join, erasing, stalled,
                           ticker, tick, crashed, running>>
            /\ due' = due \ {s}
        BY <1>4, <2>2 DEF CopyPlayers
      <3>2. UNCHANGED <<slots, next_player, session_of>>
        BY <3>1 DEF session_vars, player_vars
      <3>3. /\ SessionTypes' /\ PlayerTypes' /\ TokenTypes' /\ DogTypes'
            /\ join' \in JoinRecord /\ JoinType'
        BY <3>1, <3>2, SameTypes
      <3>4. LoopTypes'
        BY <1>1, <2>2, <3>1 DEF LoopTypes, PlayerTypes, RemovalStep
      <3>5. TickTypes'
        BY <1>1, <3>1, <3>2 DEF TickTypes
      <3> QED
        BY <3>3, <3>4, <3>5, ShapesFromParts
    <2> QED
      BY <2>1, <2>2
  <1>5. CASE RemoveInactivePlayers(s)
    <2>1. UNCHANGED <<dogs, running, join, tick_vars, stalled, next_player, session_of, asked, swept,
                      session_id, map_of, index>>
      BY <1>5 DEF RemoveInactivePlayers, ErasePlayerFromSession, CheckSize, EraseEntry,
                  EraseSession, EraseToken, EraseTokenId, session_vars, player_vars
    <2>2. join' \in JoinRecord /\ JoinType'
      BY <2>1, SameTypes
    <2>3. ASSUME NEW cause \in Fault, Fail(cause) PROVE DogTypes'
      BY <1>1, <2>1, <2>3 DEF Fail, DogTypes
    <2>4. ASSUME UNCHANGED crashed PROVE DogTypes'
      BY <2>1, <2>4, SameTypes
    <2>5. ASSUME UNCHANGED slots PROVE TickTypes'
      BY <2>1, <2>5, SameTypes
    <2>6. ASSUME players_' \in [DOMAIN players_' -> SUBSET Player], DOMAIN players_' \subseteq Session
          PROVE  PlayerTypes'
      BY <1>1, <2>1, <2>6 DEF PlayerTypes
    <2>7. ASSUME NEW p \in leaving[s], ErasePlayerFromSession(s, p) PROVE Shapes'
      <3>1. SessionTypes' /\ TokenTypes' /\ UNCHANGED slots
        BY <2>7, SameTypes DEF ErasePlayerFromSession, session_vars
      <3>2. p \in Player
        BY <1>1, <1>2, <2>7 DEF LoopTypes
      <3>3. CASE p \notin dogs[s] /\ p \notin PlayersOf(s)
        <4>1. Fail("entry gone") /\ UNCHANGED <<players_, loop_vars>>
          BY <2>7, <3>3 DEF ErasePlayerFromSession
        <4>2. PlayerTypes'
          BY <1>1, <2>6, <4>1 DEF PlayerTypes
        <4>3. DogTypes' /\ LoopTypes' /\ TickTypes'
          BY <2>3, <2>5, <3>1, <4>1, SameTypes DEF Fault
        <4> QED
          BY <2>2, <3>1, <4>2, <4>3, ShapesFromParts
      <3>4. CASE p \in dogs[s]
        <4>1. /\ leaving' = [leaving EXCEPT ![s] = @ \ {p}]
              /\ UNCHANGED <<players_, erasing, removal, crashed>>
          BY <2>7, <3>4 DEF ErasePlayerFromSession
        <4>2. PlayerTypes'
          BY <1>1, <2>6, <4>1 DEF PlayerTypes
        <4>3. LoopTypes'
          BY <1>1, <4>1 DEF LoopTypes
        <4> QED
          BY <2>2, <2>4, <2>5, <3>1, <4>1, <4>2, <4>3, ShapesFromParts
      <3>5. CASE p \notin dogs[s] /\ p \in PlayersOf(s)
        <4>1. /\ leaving' = [leaving EXCEPT ![s] = @ \ {p}]
              /\ players_' = [players_ EXCEPT ![s] = @ \ {p}]
              /\ erasing' = [erasing EXCEPT ![s] = {p}]
              /\ removal' = [removal EXCEPT ![s] = "size"]
              /\ UNCHANGED crashed
          BY <2>7, <3>5 DEF ErasePlayerFromSession
        <4>2. PlayerTypes'
          BY <1>1, <2>6, <4>1 DEF PlayerTypes
        <4>3. LoopTypes'
          BY <1>1, <1>2, <3>2, <4>1 DEF LoopTypes, RemovalStep
        <4> QED
          BY <2>2, <2>4, <2>5, <3>1, <4>1, <4>2, <4>3, ShapesFromParts
      <3> QED
        BY <3>3, <3>4, <3>5
    <2>8. CASE CheckSize(s)
      <3>1. /\ SessionTypes' /\ PlayerTypes' /\ TokenTypes' /\ UNCHANGED slots
            /\ UNCHANGED <<leaving, erasing>>
        BY <2>8, SameTypes DEF CheckSize, session_vars
      <3>2. removal' = removal \/ \E step \in RemovalStep : removal' = [removal EXCEPT ![s] = step]
        BY <2>8 DEF CheckSize, RemovalStep
      <3>3. LoopTypes'
        BY <1>1, <1>2, <3>1, <3>2 DEF LoopTypes
      <3>4. DogTypes'
        BY <2>3, <2>4, <2>8 DEF CheckSize, Fault
      <3> QED
        BY <2>2, <2>5, <3>1, <3>3, <3>4, ShapesFromParts
    <2>9. CASE EraseEntry(s)
      <3>1. SessionTypes' /\ TokenTypes' /\ UNCHANGED <<slots, leaving, erasing>>
        BY <2>9, SameTypes DEF EraseEntry, session_vars
      <3>2. removal' = removal \/ removal' = [removal EXCEPT ![s] = "list"]
        BY <2>9 DEF EraseEntry
      <3>3. LoopTypes'
        BY <1>1, <1>2, <3>1, <3>2 DEF LoopTypes, RemovalStep
      <3>4. DogTypes'
        BY <2>3, <2>4, <2>9 DEF EraseEntry, Fault
      <3>5. players_' = players_ \/ players_' = Drop(players_, s)
        BY <2>9 DEF EraseEntry
      <3>6. PlayerTypes'
        BY <1>1, <2>6, <3>5 DEF PlayerTypes, Drop
      <3> QED
        BY <2>2, <2>5, <3>1, <3>3, <3>4, <3>6, ShapesFromParts
    <2>10. CASE EraseSession(s)
      <3>1. /\ PlayerTypes' /\ TokenTypes'
            /\ UNCHANGED <<leaving, erasing, crashed>>
            /\ removal' = [removal EXCEPT ![s] = "token"]
        BY <2>10, SameTypes DEF EraseSession
      <3>2. LoopTypes'
        BY <1>1, <1>2, <3>1 DEF LoopTypes, RemovalStep
      <3>3. slots' \in Seq(Session \cup {Null}) /\ Len(slots') = Len(slots) /\ size' \in 0 .. Len(slots)
        BY <2>10, EraseSlotTypes
      <3>4. SessionTypes'
        BY <1>1, <2>1, <3>3 DEF SessionTypes
      <3>5. TickTypes'
        BY <1>1, <2>1, <3>3 DEF TickTypes, tick_vars
      <3> QED
        BY <2>2, <2>4, <3>1, <3>2, <3>4, <3>5, ShapesFromParts
    <2>11. ASSUME NEW p \in erasing[s], EraseToken(s, p) PROVE Shapes'
      <3>1. /\ SessionTypes' /\ PlayerTypes' /\ UNCHANGED <<slots, leaving, erasing, token_of>>
        BY <2>11, SameTypes DEF EraseToken, session_vars
      <3>2. removal' = removal \/ removal' = [removal EXCEPT ![s] = "token id"]
        BY <2>11 DEF EraseToken
      <3>3. LoopTypes'
        BY <1>1, <1>2, <3>1, <3>2 DEF LoopTypes, RemovalStep
      <3>4. DogTypes'
        BY <2>3, <2>4, <2>11 DEF EraseToken, Fault
      <3>5. tokens' = tokens \/ tokens' = Drop(tokens, token_of[p])
        BY <2>11 DEF EraseToken
      <3>6. TokenTypes'
        BY <1>1, <3>1, <3>5 DEF TokenTypes, Drop
      <3> QED
        BY <2>2, <2>5, <3>1, <3>3, <3>4, <3>6, ShapesFromParts
    <2>12. ASSUME NEW p \in erasing[s], EraseTokenId(s, p) PROVE Shapes'
      <3>1. /\ SessionTypes' /\ PlayerTypes' /\ UNCHANGED <<slots, leaving, tokens, crashed>>
            /\ token_of' = Drop(token_of, p)
            /\ erasing' = [erasing EXCEPT ![s] = {}]
            /\ removal' = [removal EXCEPT ![s] = "loop"]
        BY <2>12, SameTypes DEF EraseTokenId, session_vars
      <3>2. LoopTypes'
        BY <1>1, <1>2, <3>1 DEF LoopTypes, RemovalStep
      <3>3. TokenTypes'
        BY <1>1, <3>1 DEF TokenTypes, Drop
      <3> QED
        BY <2>2, <2>4, <2>5, <3>1, <3>2, <3>3, ShapesFromParts
    <2> QED
      BY <1>5, <2>7, <2>8, <2>9, <2>10, <2>11, <2>12 DEF RemoveInactivePlayers
  <1> QED
    BY <1>2, <1>3, <1>4, <1>5

-----------------------------------------------------------------------------
(* The vector of sessions lists no session twice, and a game that has had  *)
(* one session only has it in the first slot.                              *)

LEMMA SlotsInit == Init => Slots /\ OneSlot
  <1> SUFFICES ASSUME Init PROVE Slots /\ OneSlot
    OBVIOUS
  <1>1. Len(slots) = 0 /\ size = 0 /\ DOMAIN index = {}
    BY EmptySeq DEF Init
  <1>2. join.step = "none" /\ session_id = 0
    BY NoJoinFacts DEF Init
  <1> QED
    BY <1>1, <1>2 DEF Slots, OneSlot

LEMMA SlotsSame ==
  ASSUME Slots, OneSlot, UNCHANGED <<slots, size, session_id, index>>,
         \/ UNCHANGED join
         \/ join.step \notin {"append", "index"} /\ join'.step \notin {"append", "index"}
  PROVE  Slots' /\ OneSlot'
  BY DEF Slots, OneSlot

LEMMA SlotsJoin ==
  ASSUME Shapes, Slots, OneSlot, Join
  PROVE  Slots' /\ OneSlot'
  <1>1. /\ Len(slots) \in Nat /\ DOMAIN slots = 1 .. Len(slots)
        /\ slots \in [1 .. Len(slots) -> Session \cup {Null}]
        /\ slots \in Seq(Session \cup {Null})
        /\ size \in Nat /\ size <= Len(slots) /\ session_id \in Nat
        /\ Session \subseteq Nat /\ Null \notin Nat
    BY SlotsFacts, ConstantsAssumption DEF Shapes, TypeOK
  <1>2. join \in JoinRecord /\ (join.step # "none" => join # NoJoin)
    BY JoinFacts
  <1>3. ASSUME NEW m \in Maps, JoinGameFound(m) PROVE Slots' /\ OneSlot'
    <2>1. UNCHANGED <<slots, size, session_id, index>> /\ join.step = "none"
      BY <1>3, NoJoinFacts DEF JoinGameFound, ApiIsFree, session_vars
    <2>2. CASE Found(m) = Null
      <3>1. UNCHANGED join
        BY <1>3, <2>2 DEF JoinGameFound
      <3> QED
        BY <2>1, <3>1, SlotsSame
    <2>3. CASE Found(m) # Null
      <3>1. join' = [step |-> "add dog", session |-> Found(m), map |-> m, slot |-> 0,
                     token |-> Null]
        BY <1>3, <2>3 DEF JoinGameFound, JoinSession
      <3>2. join'.step = "add dog"
        BY <3>1
      <3> QED
        BY <2>1, <3>2, SlotsSame
    <2> QED
      BY <2>2, <2>3
  <1>4. ASSUME NEW m \in Maps, JoinGameNew(m) PROVE Slots' /\ OneSlot'
    <2>1. UNCHANGED <<slots, size, session_id, index>> /\ session_id < MaxSessions
          /\ join.step = "none"
      BY <1>4, NoJoinFacts DEF JoinGameNew, ApiIsFree
    <2>2. join'.step = "append" /\ join'.session = session_id /\ join'.slot = size + 1
      <3>1. size + 1 # 0
        BY <1>1
      <3> QED
        BY <1>4, <3>1 DEF JoinGameNew, JoinSession
    <2>3. size + 1 > 0 /\ (Len(slots) = 0 => size + 1 = 1)
      BY <1>1
    <2>4. Slots'
      BY <2>1, <2>2, <2>3 DEF Slots
    <2>5. OneSlot'
      BY <2>1, <2>2, <2>3 DEF OneSlot
    <2> QED
      BY <2>4, <2>5
  <1>5. CASE JoinGameUnknown
    <2>1. UNCHANGED <<slots, size, session_id, index, join>>
      BY <1>5 DEF JoinGameUnknown, session_vars
    <2> QED
      BY <2>1, SlotsSame
  <1>6. CASE AppendSession
    <2>1. /\ join.step = "append" /\ size' = size + 1 /\ UNCHANGED <<session_id, index>>
          /\ join.session = session_id /\ session_id < MaxSessions /\ join.slot > 0
      BY <1>6 DEF AppendSession, Slots
    <2>2. join' = [join EXCEPT !.step = "index"]
      BY <1>6 DEF AppendSession
    <2>3. join'.step = "index" /\ join'.session = session_id /\ join'.slot = join.slot
      BY <1>2, <2>1, <2>2, JoinGoesOn DEF JoinStep
    <2>4. session_id \in Session /\ session_id # Null
      BY <1>1, <2>1, JoinFacts
    <2>5. /\ Len(slots') \in Nat /\ size + 1 <= Len(slots') /\ slots'[size + 1] = session_id
          /\ \A i \in 1 .. Len(slots') : i # size + 1 => i \in 1 .. Len(slots) /\ slots'[i] = slots[i]
          /\ Len(slots) = 0 => Len(slots') = 1
      <3>1. CASE size = Len(slots)
        <4>1. slots' = Append(slots, session_id)
          BY <1>6, <2>1, <3>1 DEF AppendSession
        <4>2. /\ Len(Append(slots, session_id)) = Len(slots) + 1
              /\ Append(slots, session_id)[Len(slots) + 1] = session_id
              /\ \A i \in 1 .. Len(slots) : Append(slots, session_id)[i] = slots[i]
          BY <1>1, <2>4, AppendProperties
        <4> QED
          BY <1>1, <3>1, <4>1, <4>2
      <3>2. CASE size # Len(slots)
        <4>1. slots' = [slots EXCEPT ![size + 1] = session_id]
          BY <1>6, <2>1, <3>2 DEF AppendSession
        <4>2. size + 1 \in 1 .. Len(slots)
          <5>1. size \in Nat /\ Len(slots) \in Nat /\ size <= Len(slots)
            BY <1>1
          <5> QED
            BY <3>2, <5>1
        <4>3. /\ Len([slots EXCEPT ![size + 1] = session_id]) = Len(slots)
              /\ \A j \in 1 .. Len(slots) : [slots EXCEPT ![size + 1] = session_id][j] =
                    IF j = size + 1 THEN session_id ELSE slots[j]
          BY <1>1, <2>4, <4>2, ExceptSeq
        <4> QED
          BY <1>1, <4>1, <4>2, <4>3
      <3> QED
        BY <3>1, <3>2
    <2>6. \A i \in 1 .. Len(slots) : slots[i] # Null => slots[i] < session_id
      BY <2>1 DEF Slots
    <2>7. \A i \in 1 .. size : i \in 1 .. Len(slots) /\ slots[i] # Null /\ slots'[i] = slots[i]
      BY <1>1, <2>5 DEF Slots
    <2>8. \A i \in 1 .. size : slots'[i] # session_id
      <3> SUFFICES ASSUME NEW i \in 1 .. size PROVE slots'[i] # session_id
        OBVIOUS
      <3>1. slots'[i] < session_id /\ slots'[i] \in Nat
        BY <1>1, <2>6, <2>7
      <3> QED
        BY <1>1, <3>1
    <2>9. \A i \in 1 .. size' : i \in 1 .. size \/ i = size + 1
      BY <1>1, <2>1
    <2>10. \A i, j \in 1 .. size : slots'[i] = slots'[j] => i = j
      BY <2>7 DEF Slots
    <2>11. Slots'
      <3>1. \A i \in 1 .. Len(slots') : slots'[i] # Null =>
               slots'[i] < session_id \/ slots'[i] = session_id
        BY <2>5, <2>6
      <3>2. \A i \in 1 .. size' : slots'[i] # Null
        BY <2>4, <2>5, <2>7, <2>9
      <3>3. \A i, j \in 1 .. size' : slots'[i] = slots'[j] => i = j
        BY <2>5, <2>8, <2>9, <2>10
      <3> QED
        BY <2>1, <2>3, <3>1, <3>2, <3>3 DEF Slots
    <2>12. OneSlot'
      <3>1. session_id = 0 => Len(slots) = 0 /\ join.slot = 1
        BY <2>1 DEF OneSlot
      <3>2. session_id = 0 => Len(slots') = 1 /\ slots'[1] = 0
        BY <1>1, <2>5, <3>1
      <3> QED
        BY <2>1, <2>3, <3>1, <3>2 DEF OneSlot
    <2> QED
      BY <2>11, <2>12
  <1>7. CASE IndexSession
    <2>1. /\ join.step = "index" /\ session_id' = session_id + 1 /\ UNCHANGED <<slots, size>>
          /\ index' = Put(index, join.map, join.slot)
      BY <1>7 DEF IndexSession
    <2>2. join' = [join EXCEPT !.step = "add dog"]
      BY <1>7 DEF IndexSession
    <2>3. join'.step = "add dog"
      BY <1>2, <2>2, JoinGoesOn DEF JoinStep
    <2>4. \A i \in 1 .. Len(slots) : slots[i] # Null => slots[i] < session_id + 1
      <3>1. ASSUME NEW i \in 1 .. Len(slots), slots[i] # Null PROVE slots[i] < session_id + 1
        <4>1. slots[i] \in Nat /\ (slots[i] < session_id \/ slots[i] = session_id)
          BY <1>1, <2>1, <3>1 DEF Slots
        <4> QED
          BY <1>1, <4>1
      <3> QED
        BY <3>1
    <2>5. Slots'
      BY <2>1, <2>3, <2>4 DEF Slots
    <2>6. OneSlot'
      <3>1. session_id + 1 # 0 /\ (session_id + 1 = 1 => session_id = 0)
        BY <1>1
      <3>2. session_id = 0 => Len(slots) = 1 /\ slots[1] = 0 /\ join.slot = 1
        BY <2>1 DEF OneSlot
      <3>3. session_id = 0 => \A m \in DOMAIN index' : index'[m] = 1
        <4>1. session_id = 0 => DOMAIN index = {}
          BY DEF OneSlot
        <4> QED
          BY <2>1, <3>2, <4>1 DEF Put
      <3> QED
        BY <2>1, <2>3, <3>1, <3>2, <3>3 DEF OneSlot
    <2> QED
      BY <2>5, <2>6
  <1>8. CASE JoinAddDog \/ JoinAddPlayer \/ (\E token \in Tokens : JoinAddToken(token))
             \/ JoinAddTokenId \/ RunSession
    <2>1. UNCHANGED <<slots, size, session_id, index>>
      BY <1>8 DEF JoinAddDog, JoinAddPlayer, JoinAddToken, JoinAddTokenId, RunSession, session_vars
    <2>2. join.step \in {"add dog", "add player", "add token", "add token id", "run"}
      BY <1>8 DEF JoinAddDog, JoinAddPlayer, JoinAddToken, JoinAddTokenId, RunSession
    <2>3. join'.step \in {"add player", "add token", "add token id", "run", "none"}
      BY <1>2, <1>8, NoJoinFacts
         DEF JoinAddDog, JoinAddPlayer, JoinAddToken, JoinAddTokenId, RunSession, JoinRecord
    <2> QED
      BY <2>1, <2>2, <2>3, SlotsSame
  <1> QED
    BY <1>3, <1>4, <1>5, <1>6, <1>7, <1>8 DEF Join

LEMMA SlotsErase ==
  ASSUME Shapes, Slots, OneSlot, NEW s \in Session, EraseSession(s), UNCHANGED join
  PROVE  Slots' /\ OneSlot' /\ Listed' = Listed \ {s}
  <1>1. /\ Len(slots) \in Nat /\ size \in Nat /\ size <= Len(slots)
        /\ slots \in [1 .. Len(slots) -> Session \cup {Null}]
    BY SlotsFacts DEF Shapes
  <1>2. UNCHANGED <<session_id, index>> /\ Len(slots') = Len(slots)
    BY EraseSlotTypes DEF EraseSession, session_vars
  <1>3. CASE s \notin Listed
    <2>1. UNCHANGED <<slots, size>>
      BY <1>3, EraseSlotTypes
    <2>2. Listed' = Listed
      BY <2>1 DEF Listed
    <2> QED
      BY <1>2, <1>3, <2>1, <2>2, SlotsSame
  <1>4. CASE s \in Listed
    <2>1. PICK k \in 1 .. size :
             /\ slots[k] = s /\ size' = size - 1
             /\ \A i \in 1 .. Len(slots) : slots'[i] =
                   IF i >= k /\ i < size THEN slots[i + 1]
                   ELSE IF i = size /\ k < size THEN Null ELSE slots[i]
      BY <1>4, EraseSlotTypes
    <2> DEFINE old(i) == IF i >= k THEN i + 1 ELSE i
    <2>2. \A i \in 1 .. size' : slots'[i] = slots[old(i)] /\ old(i) \in 1 .. size /\ old(i) # k
      BY <1>1, <2>1
    <2>3. Slots'
      <3>1. ASSUME NEW i \in 1 .. Len(slots'), slots'[i] # Null
            PROVE  slots'[i] < session_id \/ (join.step = "index" /\ slots'[i] = session_id)
        <4>1. PICK j \in 1 .. Len(slots) : slots'[i] = slots[j]
          BY <1>1, <1>2, <2>1, <3>1
        <4> QED
          BY <3>1, <4>1 DEF Slots
      <3>2. \A i \in 1 .. size' : slots'[i] # Null
        BY <2>2 DEF Slots
      <3>3. ASSUME NEW i \in 1 .. size', NEW j \in 1 .. size', slots'[i] = slots'[j]
            PROVE  i = j
        <4>1. old(i) = old(j)
          BY <2>2, <3>3 DEF Slots
        <4> QED
          BY <1>1, <2>1, <4>1
      <3> QED
        BY <1>2, <3>1, <3>2, <3>3 DEF Slots
    <2>4. OneSlot'
      <3>1. Len(slots) = 0 => FALSE
        BY <1>1, <2>1
      <3>2. Len(slots) = 1 => slots'[1] = slots[1]
        BY <1>1, <2>1
      <3> QED
        BY <1>2, <3>1, <3>2 DEF OneSlot
    <2>5. Listed' = Listed \ {s}
      <3>1. ASSUME NEW t \in Listed' PROVE t \in Listed /\ t # s
        <4>1. PICK i \in 1 .. size' : t = slots'[i]
          BY <3>1 DEF Listed
        <4> QED
          BY <2>1, <2>2, <4>1 DEF Listed, Slots
      <3>2. ASSUME NEW t \in Listed, t # s PROVE t \in Listed'
        <4>1. PICK j \in 1 .. size : t = slots[j]
          BY DEF Listed
        <4>2. j # k
          BY <2>1, <3>2, <4>1
        <4>3. CASE j < k
          <5>1. j \in 1 .. size' /\ slots'[j] = t
            BY <1>1, <2>1, <2>2, <4>1, <4>3
          <5> QED
            BY <5>1 DEF Listed
        <4>4. CASE j > k
          <5>1. j - 1 \in 1 .. size' /\ j - 1 >= k /\ j - 1 + 1 = j
            BY <1>1, <2>1, <4>1, <4>4
          <5>2. slots'[j - 1] = t
            BY <2>2, <4>1, <5>1
          <5> QED
            BY <5>1, <5>2 DEF Listed
        <4> QED
          BY <1>1, <2>1, <4>1, <4>2, <4>3, <4>4
      <3> QED
        BY <3>1, <3>2
    <2> QED
      BY <2>3, <2>4, <2>5
  <1> QED
    BY <1>3, <1>4

-----------------------------------------------------------------------------
(* What the steps do to one session and its players.                       *)

Others(s) ==
    \A t \in Session \ {s} :
        /\ removal'[t] = removal[t] /\ leaving'[t] = leaving[t] /\ erasing'[t] = erasing[t]
        /\ PlayersOf(t)' = PlayersOf(t)
        /\ t \in DOMAIN players_' <=> t \in DOMAIN players_

(* A tick that throws.                                                     *)
Throws(s) ==
    /\ removal[s] = "commit" /\ removal'[s] = "loop"
    /\ UNCHANGED <<players_, tokens, token_of, leaving, erasing, slots, size>>
    /\ \/ crashed' = crashed \cup {"commit"}
       \/ crashed' = crashed \cup {"no entry"} /\ s \notin DOMAIN players_

Copies(s) ==
    /\ removal[s] = "commit" /\ removal'[s] = "loop" /\ leaving'[s] = PlayersOf(s)
    /\ UNCHANGED <<players_, tokens, token_of, erasing, slots, size, crashed>>

(* A fault leaves everything as it is.                                     *)
Faults(s) ==
    /\ UNCHANGED <<players_, tokens, token_of, removal, leaving, erasing, slots, size>>
    /\ \/ /\ crashed' = crashed \cup {"entry gone"}
          /\ \/ ~(leaving[s] \subseteq PlayersOf(s))
             \/ removal[s] \in {"size", "entry"} /\ s \notin DOMAIN players_
       \/ /\ crashed' = crashed \cup {"no token"}
          /\ removal[s] = "token" /\ ~(erasing[s] \subseteq DOMAIN token_of)

Skips(s) ==
    /\ removal[s] = "loop" /\ leaving'[s] \subseteq leaving[s]
    /\ UNCHANGED <<players_, tokens, token_of, removal, erasing, slots, size, crashed>>

Erases(s, p) ==
    /\ removal[s] = "loop" /\ removal'[s] = "size"
    /\ p \in PlayersOf(s) \ dogs[s]
    /\ PlayersOf(s)' = PlayersOf(s) \ {p} /\ DOMAIN players_' = DOMAIN players_
    /\ s \in DOMAIN players_
    /\ leaving'[s] = leaving[s] \ {p} /\ erasing'[s] = {p}
    /\ UNCHANGED <<tokens, token_of, slots, size, crashed>>

Measures(s) ==
    /\ removal[s] = "size" /\ s \in DOMAIN players_
    /\ removal'[s] = IF PlayersOf(s) = {} THEN "entry" ELSE "token"
    /\ UNCHANGED <<players_, tokens, token_of, leaving, erasing, slots, size, crashed>>

ErasesEntry(s) ==
    /\ removal[s] = "entry" /\ removal'[s] = "list"
    /\ PlayersOf(s)' = {}
    /\ UNCHANGED <<tokens, token_of, leaving, erasing, slots, size, crashed>>

ErasesSession(s) ==
    /\ removal[s] = "list" /\ removal'[s] = "token"
    /\ EraseSession(s)
    /\ UNCHANGED <<players_, tokens, token_of, leaving, erasing, crashed>>

ErasesToken(s, p) ==
    /\ removal[s] = "token" /\ removal'[s] = "token id"
    /\ p \in erasing[s] /\ p \in DOMAIN token_of /\ tokens' = Drop(tokens, token_of[p])
    /\ UNCHANGED <<players_, token_of, leaving, erasing, slots, size, crashed>>

ErasesTokenId(s, p) ==
    /\ removal[s] = "token id" /\ removal'[s] = "loop"
    /\ p \in erasing[s] /\ erasing'[s] = {} /\ token_of' = Drop(token_of, p)
    /\ UNCHANGED <<players_, tokens, leaving, slots, size, crashed>>

RemoveFrame == UNCHANGED <<dogs, next_player, session_of, join, swept, stalled, session_id, index>>

LEMMA RemoveSteps ==
  ASSUME Shapes, Remove
  PROVE  /\ RemoveFrame
         /\ \E s \in Session :
               /\ Others(s)
               /\ \/ Throws(s) \/ Copies(s) \/ Faults(s) \/ Skips(s) \/ \E p \in Player : Erases(s, p)
                  \/ Measures(s) \/ ErasesEntry(s) \/ ErasesSession(s)
                  \/ \E p \in Player : ErasesToken(s, p) \/ ErasesTokenId(s, p)
  <1>1. /\ removal \in [Session -> RemovalStep]
        /\ leaving \in [Session -> SUBSET Player] /\ erasing \in [Session -> SUBSET Player]
        /\ players_ \in [DOMAIN players_ -> SUBSET Player]
    BY ShapesInParts DEF LoopTypes, PlayerTypes
  <1>2. PICK s \in Session : CommitFails(s) \/ CopyPlayers(s) \/ RemoveInactivePlayers(s)
    BY DEF Remove
  <1> DEFINE Does == \/ Throws(s) \/ Copies(s) \/ Faults(s) \/ Skips(s)
                     \/ \E p \in Player : Erases(s, p)
                     \/ Measures(s) \/ ErasesEntry(s) \/ ErasesSession(s)
                     \/ \E p \in Player : ErasesToken(s, p) \/ ErasesTokenId(s, p)
  <1>3. ASSUME \A t \in Session \ {s} : /\ removal'[t] = removal[t] /\ leaving'[t] = leaving[t]
                                        /\ erasing'[t] = erasing[t],
               UNCHANGED players_
        PROVE  Others(s)
    BY <1>3 DEF Others, PlayersOf
  <1>4. CASE CommitFails(s)
    <2>1. /\ removal[s] = "commit" /\ removal' = [removal EXCEPT ![s] = "loop"]
          /\ UNCHANGED <<players_, tokens, token_of, leaving, erasing, slots, size>>
          /\ crashed' = crashed \cup {"commit"}
      BY <1>4 DEF CommitFails, Throw, Fail, session_vars, player_vars, token_vars
    <2>2. Others(s)
      BY <1>1, <1>3, <2>1
    <2>3. Throws(s)
      BY <1>1, <2>1 DEF Throws
    <2>4. RemoveFrame
      BY <1>4 DEF CommitFails, RemoveFrame, session_vars, player_vars
    <2> QED
      BY <2>2, <2>3, <2>4
  <1>5. CASE CopyPlayers(s)
    <2>1. /\ removal[s] = "commit" /\ removal' = [removal EXCEPT ![s] = "loop"]
          /\ UNCHANGED <<players_, tokens, token_of, erasing, slots, size>>
      BY <1>5 DEF CopyPlayers, Throw, session_vars, player_vars, token_vars
    <2>2. RemoveFrame
      BY <1>5 DEF CopyPlayers, RemoveFrame, session_vars, player_vars
    <2>3. CASE s \in DOMAIN players_
      <3>1. leaving' = [leaving EXCEPT ![s] = players_[s]] /\ UNCHANGED crashed
        BY <1>5, <2>3 DEF CopyPlayers
      <3>2. Others(s)
        BY <1>1, <1>3, <2>1, <3>1
      <3>3. Copies(s)
        BY <1>1, <2>1, <2>3, <3>1 DEF Copies, PlayersOf
      <3> QED
        BY <2>2, <3>2, <3>3
    <2>4. CASE s \notin DOMAIN players_
      <3>1. UNCHANGED leaving /\ crashed' = crashed \cup {"no entry"}
        BY <1>5, <2>4 DEF CopyPlayers, Throw, Fail
      <3>2. Others(s)
        BY <1>1, <1>3, <2>1, <3>1
      <3>3. Throws(s)
        BY <1>1, <2>1, <2>4, <3>1 DEF Throws
      <3> QED
        BY <2>2, <3>2, <3>3
    <2> QED
      BY <2>3, <2>4
  <1>6. CASE RemoveInactivePlayers(s)
    <2>1. RemoveFrame
      BY <1>6 DEF RemoveInactivePlayers, ErasePlayerFromSession, CheckSize, EraseEntry,
                  EraseSession, EraseToken, EraseTokenId, session_vars, player_vars, RemoveFrame
    <2>2. ASSUME NEW p \in leaving[s], ErasePlayerFromSession(s, p) PROVE Others(s) /\ Does
      <3>1. removal[s] = "loop" /\ UNCHANGED <<tokens, token_of, slots, size>> /\ p \in Player
        BY <1>1, <2>2 DEF ErasePlayerFromSession, session_vars, token_vars
      <3>2. CASE p \in dogs[s]
        <4>1. leaving' = [leaving EXCEPT ![s] = @ \ {p}]
              /\ UNCHANGED <<players_, erasing, removal, crashed>>
          BY <2>2, <3>2 DEF ErasePlayerFromSession
        <4>2. Others(s)
          BY <1>1, <1>3, <4>1
        <4>3. Skips(s)
          BY <1>1, <3>1, <4>1 DEF Skips
        <4> QED
          BY <4>2, <4>3
      <3>3. CASE p \notin dogs[s] /\ p \in PlayersOf(s)
        <4>1. /\ leaving' = [leaving EXCEPT ![s] = @ \ {p}]
              /\ players_' = [players_ EXCEPT ![s] = @ \ {p}]
              /\ erasing' = [erasing EXCEPT ![s] = {p}]
              /\ removal' = [removal EXCEPT ![s] = "size"]
              /\ UNCHANGED crashed
          BY <2>2, <3>3 DEF ErasePlayerFromSession
        <4>2. s \in DOMAIN players_
          BY <3>3 DEF PlayersOf
        <4>3. PlayersOf(s)' = PlayersOf(s) \ {p} /\ DOMAIN players_' = DOMAIN players_
          BY <1>1, <4>1, <4>2 DEF PlayersOf
        <4>4. \A t \in Session \ {s} : PlayersOf(t)' = PlayersOf(t)
          BY <1>1, <4>1 DEF PlayersOf
        <4>5. Others(s)
          BY <1>1, <4>1, <4>3, <4>4 DEF Others
        <4>6. Erases(s, p)
          BY <1>1, <3>1, <3>3, <4>1, <4>2, <4>3 DEF Erases
        <4> QED
          BY <3>1, <4>5, <4>6
      <3>4. CASE p \notin dogs[s] /\ p \notin PlayersOf(s)
        <4>1. crashed' = crashed \cup {"entry gone"} /\ UNCHANGED <<players_, removal, leaving, erasing>>
          BY <2>2, <3>4 DEF ErasePlayerFromSession, Fail, loop_vars
        <4>2. Others(s)
          BY <1>3, <4>1
        <4>3. Faults(s)
          BY <2>2, <3>1, <3>4, <4>1 DEF Faults
        <4> QED
          BY <4>2, <4>3
      <3> QED
        BY <3>2, <3>3, <3>4
    <2>3. ASSUME CheckSize(s) PROVE Others(s) /\ Does
      <3>1. removal[s] = "size" /\ UNCHANGED <<players_, tokens, token_of, leaving, erasing, slots, size>>
        BY <2>3 DEF CheckSize, session_vars, player_vars, token_vars
      <3>2. CASE s \in DOMAIN players_
        <4>1. /\ removal' = [removal EXCEPT ![s] = IF PlayersOf(s) = {} THEN "entry" ELSE "token"]
              /\ UNCHANGED crashed
          BY <2>3, <3>2 DEF CheckSize, PlayersOf
        <4>2. Others(s)
          BY <1>1, <1>3, <3>1, <4>1
        <4>3. Measures(s)
          BY <1>1, <3>1, <3>2, <4>1 DEF Measures
        <4> QED
          BY <4>2, <4>3
      <3>3. CASE s \notin DOMAIN players_
        <4>1. crashed' = crashed \cup {"entry gone"} /\ UNCHANGED removal
          BY <2>3, <3>3 DEF CheckSize, Fail
        <4>2. Others(s)
          BY <1>3, <3>1, <4>1
        <4>3. Faults(s)
          BY <3>1, <3>3, <4>1 DEF Faults
        <4> QED
          BY <4>2, <4>3
      <3> QED
        BY <3>2, <3>3
    <2>4. ASSUME EraseEntry(s) PROVE Others(s) /\ Does
      <3>1. removal[s] = "entry" /\ UNCHANGED <<tokens, token_of, leaving, erasing, slots, size>>
        BY <2>4 DEF EraseEntry, session_vars, token_vars
      <3>2. CASE s \in DOMAIN players_
        <4>1. /\ removal' = [removal EXCEPT ![s] = "list"]
              /\ players_' = Drop(players_, s) /\ UNCHANGED crashed
          BY <2>4, <3>2 DEF EraseEntry
        <4>2. \A t \in Session \ {s} : /\ PlayersOf(t)' = PlayersOf(t)
                                       /\ t \in DOMAIN players_' <=> t \in DOMAIN players_
          BY <4>1 DEF PlayersOf, Drop
        <4>3. Others(s)
          BY <1>1, <3>1, <4>1, <4>2 DEF Others
        <4>4. PlayersOf(s)' = {}
          BY <4>1 DEF PlayersOf, Drop
        <4>5. ErasesEntry(s)
          BY <1>1, <3>1, <4>1, <4>4 DEF ErasesEntry
        <4> QED
          BY <4>3, <4>5
      <3>3. CASE s \notin DOMAIN players_
        <4>1. crashed' = crashed \cup {"entry gone"} /\ UNCHANGED <<removal, players_>>
          BY <2>4, <3>3 DEF EraseEntry, Fail
        <4>2. Others(s)
          BY <1>3, <3>1, <4>1
        <4>3. Faults(s)
          BY <3>1, <3>3, <4>1 DEF Faults
        <4> QED
          BY <4>2, <4>3
      <3> QED
        BY <3>2, <3>3
    <2>5. ASSUME EraseSession(s) PROVE Others(s) /\ Does
      <3>1. /\ removal[s] = "list" /\ removal' = [removal EXCEPT ![s] = "token"]
            /\ UNCHANGED <<players_, tokens, token_of, leaving, erasing, crashed>>
        BY <2>5 DEF EraseSession, player_vars, token_vars
      <3>2. Others(s)
        BY <1>1, <1>3, <3>1
      <3>3. ErasesSession(s)
        BY <1>1, <2>5, <3>1 DEF ErasesSession
      <3> QED
        BY <3>2, <3>3
    <2>6. ASSUME NEW p \in erasing[s], EraseToken(s, p) PROVE Others(s) /\ Does
      <3>1. /\ removal[s] = "token" /\ p \in Player
            /\ UNCHANGED <<players_, token_of, leaving, erasing, slots, size>>
        BY <1>1, <2>6 DEF EraseToken, session_vars, player_vars
      <3>2. CASE p \in DOMAIN token_of
        <4>1. /\ removal' = [removal EXCEPT ![s] = "token id"]
              /\ tokens' = Drop(tokens, token_of[p]) /\ UNCHANGED crashed
          BY <2>6, <3>2 DEF EraseToken
        <4>2. Others(s)
          BY <1>1, <1>3, <3>1, <4>1
        <4>3. ErasesToken(s, p)
          BY <1>1, <2>6, <3>1, <3>2, <4>1 DEF ErasesToken
        <4> QED
          BY <3>1, <4>2, <4>3
      <3>3. CASE p \notin DOMAIN token_of
        <4>1. crashed' = crashed \cup {"no token"} /\ UNCHANGED <<tokens, removal>>
          BY <2>6, <3>3 DEF EraseToken, Fail
        <4>2. Others(s)
          BY <1>3, <3>1, <4>1
        <4>3. Faults(s)
          BY <2>6, <3>1, <3>3, <4>1 DEF Faults
        <4> QED
          BY <4>2, <4>3
      <3> QED
        BY <3>2, <3>3
    <2>7. ASSUME NEW p \in erasing[s], EraseTokenId(s, p) PROVE Others(s) /\ Does
      <3>1. /\ removal[s] = "token id" /\ removal' = [removal EXCEPT ![s] = "loop"]
            /\ erasing' = [erasing EXCEPT ![s] = {}] /\ token_of' = Drop(token_of, p)
            /\ UNCHANGED <<players_, tokens, leaving, slots, size, crashed>>
        BY <2>7 DEF EraseTokenId, session_vars, player_vars
      <3>2. Others(s)
        BY <1>1, <1>3, <3>1
      <3>3. ErasesTokenId(s, p) /\ p \in Player
        BY <1>1, <2>7, <3>1 DEF ErasesTokenId
      <3> QED
        BY <3>2, <3>3
    <2>8. Others(s) /\ Does
      BY <1>6, <2>2, <2>3, <2>4, <2>5, <2>6, <2>7 DEF RemoveInactivePlayers
    <2> QED
      BY <2>1, <2>8
  <1> QED
    BY <1>2, <1>4, <1>5, <1>6

(* A step of a join before its writes for the player, or after them.       *)
Approaches ==
    /\ UNCHANGED <<dogs, players_, next_player, session_of, swept, tokens, token_of>>
    /\ join.step \notin {"add player", "add token", "add token id"}
    /\ join'.step \notin {"add player", "add token", "add token id"}
    /\ Joining = {} /\ Joining' = {}

AddsDog ==
    /\ UNCHANGED <<players_, next_player, session_of, swept, tokens, token_of, slots, size, crashed>>
    /\ join.step = "add dog" /\ join'.step = "add player" /\ join'.session = join.session
    /\ Joining = {} /\ Joining' = {next_player}
    /\ dogs'[join.session] = dogs[join.session] \cup {next_player}
    /\ \A s \in Session \ {join.session} : dogs'[s] = dogs[s]

AddsPlayer ==
    /\ UNCHANGED <<dogs, tokens, token_of, slots, size, crashed>>
    /\ join.step = "add player" /\ join'.step = "add token" /\ join'.session = join.session
    /\ next_player' = next_player + 1
    /\ Joining = {next_player} /\ Joining' = {next_player}
    /\ PlayersOf(join.session)' = PlayersOf(join.session) \cup {next_player}
    /\ \A s \in Session \ {join.session} : PlayersOf(s)' = PlayersOf(s)
    /\ DOMAIN players_' = DOMAIN players_ \cup {join.session}
    /\ session_of'[next_player] = join.session
    /\ \A p \in 0 .. next_player - 1 : session_of'[p] = session_of[p]
    /\ swept \subseteq swept'
    /\ removal[join.session] = "entry" => next_player \in swept'

AddsToken(t) ==
    /\ UNCHANGED <<dogs, players_, next_player, session_of, swept, token_of, slots, size, crashed>>
    /\ join.step = "add token" /\ join'.step = "add token id" /\ join'.session = join.session
    /\ join'.token = t /\ t \notin DOMAIN tokens /\ tokens' = Put(tokens, t, next_player - 1)
    /\ Joining = {next_player - 1} /\ Joining' = {next_player - 1}

AddsTokenId ==
    /\ UNCHANGED <<dogs, players_, next_player, session_of, swept, tokens, slots, size, crashed>>
    /\ join.step = "add token id" /\ join'.step \in {"none", "run"}
    /\ token_of' = Put(token_of, next_player - 1, join.token)
    /\ Joining = {next_player - 1} /\ Joining' = {}

JoinFrame == UNCHANGED <<removal, leaving, erasing, stalled>>

LEMMA JoinSteps ==
  ASSUME Shapes, Join
  PROVE  /\ JoinFrame
         /\ \/ Approaches \/ AddsDog \/ AddsPlayer \/ AddsTokenId
            \/ \E t \in Tokens : AddsToken(t)
  <1>1. /\ join \in JoinRecord /\ next_player \in Nat
        /\ join.step # "none" => join.session \in Session
    BY JoinFacts
  <1>2. dogs \in [Session -> SUBSET Player]
    BY ShapesInParts DEF DogTypes
  <1>3. JoinFrame
    BY DEF Join, JoinGameFound, JoinGameNew, JoinGameUnknown, AppendSession, IndexSession,
           JoinAddDog, JoinAddPlayer, JoinAddToken, JoinAddTokenId, RunSession, loop_vars, JoinFrame
  <1>4. ASSUME UNCHANGED <<dogs, players_, next_player, session_of, swept, tokens, token_of>>,
               join.step \notin {"add player", "add token", "add token id"},
               join'.step \notin {"add player", "add token", "add token id"}
        PROVE  Approaches
    BY <1>4 DEF Approaches, Joining
  <1>5. ASSUME NEW m \in Maps, JoinGameFound(m) PROVE Approaches
    <2>1. UNCHANGED <<dogs, players_, next_player, session_of, swept, tokens, token_of>>
          /\ join.step = "none"
      BY <1>5, NoJoinFacts DEF JoinGameFound, player_vars, token_vars, ApiIsFree
    <2>2. join'.step \in {"none", "add dog"}
      <3>1. CASE Found(m) = Null
        BY <1>5, <2>1, <3>1 DEF JoinGameFound
      <3>2. CASE Found(m) # Null
        <4>1. join' = [step |-> "add dog", session |-> Found(m), map |-> m, slot |-> 0,
                       token |-> Null]
          BY <1>5, <3>2 DEF JoinGameFound, JoinSession
        <4> QED
          BY <4>1
      <3> QED
        BY <3>1, <3>2
    <2> QED
      BY <1>4, <2>1, <2>2
  <1>6. ASSUME NEW m \in Maps, JoinGameNew(m) PROVE Approaches
    <2>1. UNCHANGED <<dogs, players_, next_player, session_of, swept, tokens, token_of>>
          /\ join.step = "none"
      BY <1>6, NoJoinFacts DEF JoinGameNew, player_vars, token_vars, ApiIsFree
    <2>2. join'.step \in {"append", "add dog"}
      BY <1>6 DEF JoinGameNew, JoinSession
    <2> QED
      BY <1>4, <2>1, <2>2
  <1>7. CASE JoinGameUnknown
    <2>1. UNCHANGED <<dogs, players_, next_player, session_of, swept, tokens, token_of>>
      BY <1>7 DEF JoinGameUnknown, player_vars, token_vars
    <2>2. join.step = "none" /\ join'.step = "none"
      BY <1>7, NoJoinFacts DEF JoinGameUnknown, ApiIsFree
    <2> QED
      BY <1>3, <1>4, <2>1, <2>2
  <1>8. CASE AppendSession \/ IndexSession \/ RunSession
    <2>1. UNCHANGED <<dogs, players_, next_player, session_of, swept, tokens, token_of>>
      BY <1>8 DEF AppendSession, IndexSession, RunSession, player_vars, token_vars
    <2>2. /\ join.step \notin {"add player", "add token", "add token id"}
          /\ join'.step \notin {"add player", "add token", "add token id"}
      BY <1>1, <1>8, NoJoinFacts DEF AppendSession, IndexSession, RunSession, JoinRecord
    <2> QED
      BY <1>3, <1>4, <2>1, <2>2
  <1>9. CASE JoinAddDog
    <2>1. /\ UNCHANGED <<players_, next_player, session_of, swept, tokens, token_of, slots, size,
                         crashed>>
          /\ join.step = "add dog"
      BY <1>9 DEF JoinAddDog, session_vars, player_vars, token_vars
    <2>2. join' = [join EXCEPT !.step = "add player"]
      BY <1>9 DEF JoinAddDog
    <2>3. join'.step = "add player" /\ join'.session = join.session
      BY <1>1, <2>2, JoinGoesOn DEF JoinStep
    <2>4. dogs' = [dogs EXCEPT ![join.session] = @ \cup {next_player}]
      BY <1>9 DEF JoinAddDog
    <2>5. /\ dogs'[join.session] = dogs[join.session] \cup {next_player}
          /\ \A s \in Session \ {join.session} : dogs'[s] = dogs[s]
      BY <1>1, <1>2, <2>1, <2>4
    <2>6. Joining = {} /\ Joining' = {next_player}
      BY <2>1, <2>3 DEF Joining
    <2> QED
      BY <1>3, <2>1, <2>3, <2>5, <2>6 DEF AddsDog
  <1>10. CASE JoinAddPlayer
    <2>1. /\ UNCHANGED <<dogs, tokens, token_of, slots, size, crashed>>
          /\ join.step = "add player"
      BY <1>10 DEF JoinAddPlayer, session_vars, token_vars
    <2> players_' = Put(players_, join.session, PlayersOf(join.session) \cup {next_player})
      BY <1>10 DEF JoinAddPlayer
    <2> session_of' = Put(session_of, next_player, join.session)
      BY <1>10 DEF JoinAddPlayer
    <2>9. next_player' = next_player + 1
      BY <1>10 DEF JoinAddPlayer
    <2>2. join' = [join EXCEPT !.step = "add token"]
      BY <1>10 DEF JoinAddPlayer
    <2>3. join'.step = "add token" /\ join'.session = join.session
      BY <1>1, <2>2, JoinGoesOn DEF JoinStep
    <2>4. /\ PlayersOf(join.session)' = PlayersOf(join.session) \cup {next_player}
          /\ \A s \in Session \ {join.session} : PlayersOf(s)' = PlayersOf(s)
          /\ DOMAIN players_' = DOMAIN players_ \cup {join.session}
      <3>1. /\ DOMAIN players_' = DOMAIN players_ \cup {join.session}
            /\ players_'[join.session] = PlayersOf(join.session) \cup {next_player}
            /\ \A s \in DOMAIN players_ : s # join.session => players_'[s] = players_[s]
        BY DEF Put
      <3>2. PlayersOf(join.session)' = players_'[join.session]
        BY <2>3, <3>1 DEF PlayersOf
      <3>3. ASSUME NEW s \in Session \ {join.session} PROVE PlayersOf(s)' = PlayersOf(s)
        BY <3>1 DEF PlayersOf
      <3> QED
        BY <3>1, <3>2, <3>3
    <2>5. /\ session_of'[next_player] = join.session
          /\ \A p \in 0 .. next_player - 1 : session_of'[p] = session_of[p]
      <3>1. DOMAIN session_of = 0 .. next_player - 1
        BY ShapesInParts DEF PlayerTypes
      <3>2. \A p \in 0 .. next_player - 1 : p # next_player
        BY <1>1
      <3> QED
        BY <3>1, <3>2 DEF Put
    <2>6. Joining = {next_player} /\ Joining' = {next_player}
      <3>1. next_player' - 1 = next_player
        BY <1>1, <2>9
      <3> QED
        BY <2>1, <2>3, <3>1 DEF Joining
    <2>7. swept \subseteq swept' /\ (removal[join.session] = "entry" => next_player \in swept')
      BY <1>10 DEF JoinAddPlayer
    <2>8. AddsPlayer
      BY <2>1, <2>3, <2>4, <2>5, <2>6, <2>7, <2>9 DEF AddsPlayer
    <2> QED
      BY <1>3, <2>8
  <1>11. ASSUME NEW t \in Tokens, JoinAddToken(t) PROVE AddsToken(t)
    <2>1. /\ UNCHANGED <<dogs, players_, next_player, session_of, swept, token_of, slots, size,
                         crashed>>
          /\ join.step = "add token" /\ t \notin DOMAIN tokens
          /\ tokens' = Put(tokens, t, next_player - 1)
      BY <1>11 DEF JoinAddToken, session_vars, player_vars
    <2>2. join' = [join EXCEPT !.step = "add token id", !.token = t]
      BY <1>11 DEF JoinAddToken
    <2>3. join'.step = "add token id" /\ join'.session = join.session /\ join'.token = t
      BY <1>1, <2>2 DEF JoinRecord
    <2>4. Joining = {next_player - 1} /\ Joining' = {next_player - 1}
      BY <2>1, <2>3 DEF Joining
    <2> QED
      BY <2>1, <2>3, <2>4 DEF AddsToken
  <1>12. CASE JoinAddTokenId
    <2>1. /\ UNCHANGED <<dogs, players_, next_player, session_of, swept, tokens, slots, size,
                         crashed>>
          /\ join.step = "add token id"
          /\ token_of' = Put(token_of, next_player - 1, join.token)
      BY <1>12 DEF JoinAddTokenId, session_vars, player_vars
    <2>2. join'.step \in {"none", "run"}
      BY <1>1, <1>12, NoJoinFacts DEF JoinAddTokenId, JoinRecord
    <2>3. Joining = {next_player - 1} /\ Joining' = {}
      BY <2>1, <2>2 DEF Joining
    <2> QED
      BY <1>3, <2>1, <2>2, <2>3 DEF AddsTokenId
  <1> QED
    BY <1>3, <1>5, <1>6, <1>7, <1>8, <1>9, <1>10, <1>11, <1>12 DEF Join

Retires(s, retired) ==
    /\ removal[s] = "loop" /\ leaving[s] = {} /\ removal'[s] = "commit"
    /\ retired # {} /\ retired \subseteq dogs[s] /\ dogs'[s] = dogs[s] \ retired
    /\ \A t \in Session \ {s} : removal'[t] = removal[t] /\ dogs'[t] = dogs[t]
    /\ stalled' = stalled \cup (retired \cap Joining)
    /\ UNCHANGED crashed

(* A tick that retires nobody, or the loop that asks for ticks.            *)
Ticks ==
    /\ UNCHANGED <<dogs, removal, stalled>>
    /\ \/ UNCHANGED crashed
       \/ /\ crashed' = crashed \cup {"empty slot"}
          /\ join = NoJoin /\ tick.at \in 1 .. Len(slots) /\ slots[tick.at] = Null

TickFrame == UNCHANGED <<slots, size, session_id, index, players_, next_player, session_of,
                         swept, tokens, token_of, join, leaving, erasing>>

LEMMA TickSteps ==
  ASSUME Shapes, Retire \/ Tick
  PROVE  /\ TickFrame
         /\ Ticks \/ \E s \in Session : \E retired \in SUBSET Player : Retires(s, retired)
  <1>1. /\ running \subseteq Session /\ dogs \in [Session -> SUBSET Player]
        /\ removal \in [Session -> RemovalStep]
    BY ShapesInParts DEF DogTypes, LoopTypes
  <1>2. TickFrame
    BY DEF Retire, Tick, RetireDogs, RetireNobody, BeginTick, TickSession, session_vars,
           player_vars, token_vars, loop_vars, TickFrame
  <1>3. ASSUME NEW s \in running, NEW retired \in SUBSET dogs[s], RetireDogs(s, retired)
        PROVE  retired \in SUBSET Player /\ Retires(s, retired)
    <2>1. /\ removal' = [removal EXCEPT ![s] = "commit"]
          /\ dogs' = [dogs EXCEPT ![s] = @ \ retired]
          /\ removal[s] = "loop" /\ leaving[s] = {} /\ retired # {}
          /\ stalled' = stalled \cup (retired \cap Joining) /\ UNCHANGED crashed
      BY <1>3 DEF RetireDogs, BetweenTicks
    <2>2. /\ removal'[s] = "commit" /\ dogs'[s] = dogs[s] \ retired
          /\ \A t \in Session \ {s} : removal'[t] = removal[t] /\ dogs'[t] = dogs[t]
      BY <1>1, <2>1
    <2> QED
      BY <1>1, <2>1, <2>2 DEF Retires
  <1>4. ASSUME NEW s \in running, RetireNobody(s) PROVE Ticks
    BY <1>4 DEF RetireNobody, loop_vars, Ticks
  <1>5. CASE BeginTick
    BY <1>2, <1>5 DEF BeginTick, loop_vars, Ticks
  <1>6. ASSUME NEW inline \in BOOLEAN, TickSession(inline) PROVE Ticks
    <2>1. UNCHANGED <<dogs, removal, stalled>> /\ tick # NoTick
      BY <1>6 DEF TickSession, loop_vars
    <2>2. CASE UNCHANGED crashed
      BY <2>1, <2>2 DEF Ticks
    <2>3. CASE ~UNCHANGED crashed
      <3>1. slots[tick.at] = Null /\ crashed' = crashed \cup {"empty slot"}
        BY <1>6, <2>3 DEF TickSession, Fail
      <3>2. tick.at > 0 /\ join = NoJoin /\ tick.at \in Nat /\ tick.last \in 0 .. Len(slots)
        BY <2>1, ShapesInParts DEF TickTypes
      <3>4. ~(tick.at > tick.last)
        BY <1>6, <2>3 DEF TickSession
      <3>3. tick.at \in 1 .. Len(slots)
        <4>1. Len(slots) \in Nat
          BY SlotsFacts DEF Shapes
        <4>2. tick.at <= tick.last /\ tick.last <= Len(slots) /\ tick.last \in Nat
          BY <3>2, <3>4, <4>1
        <4> QED
          BY <3>2, <4>1, <4>2
      <3> QED
        BY <2>1, <3>1, <3>2, <3>3 DEF Ticks
    <2> QED
      BY <2>2, <2>3
  <1> QED
    BY <1>1, <1>2, <1>3, <1>4, <1>5, <1>6 DEF Retire, Tick

-----------------------------------------------------------------------------
(* Everyone who is in a session, or is being removed from it, is its own.  *)

LEMMA BelongsFacts ==
  ASSUME next_player \in Nat, NEW p, NEW s, Belongs(p, s)
  PROVE  p \in Nat /\ p < next_player /\ p # next_player /\ session_of[p] = s
  <1>1. p \in 0 .. next_player - 1 /\ session_of[p] = s
    BY DEF Belongs
  <1> QED
    BY <1>1

LEMMA OneErased ==
  ASSUME Owners, NEW s \in Session, NEW p \in erasing[s]
  PROVE  p \notin PlayersOf(s) /\ p \notin dogs[s] /\ \A q \in erasing[s] : q = p
  <1>1. OwnersOf(s)
    BY DEF Owners
  <1>2. \A q, r \in erasing[s] : q = r
    BY <1>1 DEF OwnersOf
  <1>3. p \notin PlayersOf(s) /\ p \notin dogs[s]
    BY <1>1 DEF OwnersOf
  <1> QED
    BY <1>2, <1>3

LEMMA OwnersSame ==
  ASSUME NEW s \in Session, OwnersOf(s), PlayersOf(s)' = PlayersOf(s),
         dogs'[s] \subseteq dogs[s], erasing'[s] = erasing[s],
         UNCHANGED <<next_player, session_of>>,
         removal'[s] = removal[s] \/ removal[s] = "loop" \/ removal'[s] \notin {"commit", "loop"},
         UNCHANGED join \/ join.step # "add player"
  PROVE  OwnersOf(s)'
  BY DEF OwnersOf, Belongs

LEMMA OwnersJoin ==
  ASSUME Shapes, Owners, Join
  PROVE  Owners'
  <1> SUFFICES ASSUME NEW s \in Session PROVE OwnersOf(s)'
    BY DEF Owners
  <1>1. OwnersOf(s)
    BY DEF Owners
  <1>2. removal'[s] = removal[s] /\ erasing'[s] = erasing[s]
    BY JoinSteps DEF JoinFrame
  <1>3. next_player \in Nat /\ (join.step # "none" => join.session \in Session)
    BY JoinFacts
  <1>4. CASE Approaches \/ AddsTokenId \/ \E t \in Tokens : AddsToken(t)
    <2>1. /\ UNCHANGED <<dogs, players_, next_player, session_of>> /\ join.step # "add player"
      BY <1>4 DEF Approaches, AddsTokenId, AddsToken
    <2>2. PlayersOf(s)' = PlayersOf(s) /\ dogs'[s] \subseteq dogs[s]
      BY <2>1 DEF PlayersOf
    <2> QED
      BY <1>1, <1>2, <2>1, <2>2, OwnersSame
  <1>5. CASE AddsDog
    <2>1. UNCHANGED <<players_, next_player, session_of>> /\ join.step # "add player"
          /\ join'.step = "add player" /\ join'.session = join.session
      BY <1>5 DEF AddsDog
    <2>2. PlayersOf(s)' = PlayersOf(s)
      BY <2>1 DEF PlayersOf
    <2>3. CASE s # join.session
      <3>1. dogs'[s] = dogs[s]
        BY <1>5, <2>3 DEF AddsDog
      <3> QED
        BY <1>1, <1>2, <2>1, <2>2, <3>1, OwnersSame
    <2>4. CASE s = join.session
      <3>1. dogs'[s] = dogs[s] \cup {next_player}
        BY <1>5, <2>4 DEF AddsDog
      <3>2. next_player \notin erasing[s]
        BY <1>1, <1>3, BelongsFacts DEF OwnersOf
      <3>3. \A p : Belongs(p, s)' <=> Belongs(p, s)
        BY <2>1 DEF Belongs
      <3> QED
        BY <1>1, <1>2, <2>1, <2>2, <2>4, <3>1, <3>2, <3>3 DEF OwnersOf
    <2> QED
      BY <2>3, <2>4
  <1>6. CASE AddsPlayer
    <2>1. /\ UNCHANGED dogs /\ join'.step = "add token" /\ join.step = "add player"
      BY <1>6 DEF AddsPlayer
    <2>9. next_player' = next_player + 1
      BY <1>6 DEF AddsPlayer
    <2>10. PICK n \in Nat : n = next_player
      BY <1>3
    <2>2. ASSUME NEW p, Belongs(p, s) PROVE Belongs(p, s)'
      <3>1. p \in 0 .. next_player - 1 /\ session_of[p] = s
        BY <2>2 DEF Belongs
      <3>2. session_of'[p] = s
        BY <1>6, <3>1 DEF AddsPlayer
      <3>3. p \in 0 .. next_player' - 1
        BY <1>3, <2>9, <3>1
      <3> QED
        BY <3>2, <3>3 DEF Belongs
    <2>3. s = join.session => Belongs(n, s)'
      <3>1. session_of'[n] = join.session
        BY <1>6, <2>10 DEF AddsPlayer
      <3>2. n \in 0 .. next_player' - 1
        BY <2>9, <2>10
      <3> QED
        BY <3>1, <3>2 DEF Belongs
    <2>4. \A p \in dogs[s] : Belongs(p, s)'
      BY <1>1, <2>2, <2>3, <2>10 DEF OwnersOf
    <2>5. next_player \notin erasing[s]
      BY <1>1, <1>3, BelongsFacts DEF OwnersOf
    <2>6. /\ PlayersOf(s)' \subseteq PlayersOf(s) \cup {next_player}
          /\ next_player \in PlayersOf(s)' => next_player \in PlayersOf(s) \/ s = join.session
      BY <1>6 DEF AddsPlayer
    <2>7. \A p \in PlayersOf(s)' \cup erasing[s] : Belongs(p, s)'
      BY <1>1, <2>2, <2>3, <2>6, <2>10 DEF OwnersOf
    <2>8. \A p \in erasing[s] : p \notin PlayersOf(s)'
      BY <1>1, <2>5, <2>6 DEF OwnersOf
    <2> QED
      BY <1>1, <1>2, <2>1, <2>4, <2>7, <2>8 DEF OwnersOf
  <1> QED
    BY <1>4, <1>5, <1>6, JoinSteps

LEMMA OwnersTick ==
  ASSUME Shapes, Owners, Retire \/ Tick
  PROVE  Owners'
  <1> SUFFICES ASSUME NEW s \in Session PROVE OwnersOf(s)'
    BY DEF Owners
  <1>1. OwnersOf(s)
    BY DEF Owners
  <1>2. UNCHANGED <<players_, next_player, session_of, join, erasing>>
    BY TickSteps DEF TickFrame
  <1>3. PlayersOf(s)' = PlayersOf(s) /\ erasing'[s] = erasing[s]
    BY <1>2 DEF PlayersOf
  <1>4. dogs'[s] \subseteq dogs[s] /\ (removal'[s] = removal[s] \/ removal[s] = "loop")
    <2>1. CASE Ticks
      BY <2>1 DEF Ticks
    <2>2. ASSUME NEW t \in Session, NEW retired \in SUBSET Player, Retires(t, retired)
          PROVE  dogs'[s] \subseteq dogs[s] /\ (removal'[s] = removal[s] \/ removal[s] = "loop")
      <3>1. CASE s = t
        BY <2>2, <3>1 DEF Retires
      <3>2. CASE s # t
        BY <2>2, <3>2 DEF Retires
      <3> QED
        BY <3>1, <3>2
    <2> QED
      BY <2>1, <2>2, TickSteps
  <1> QED
    BY <1>1, <1>2, <1>3, <1>4, OwnersSame

LEMMA OwnersRemove ==
  ASSUME Shapes, Owners, Remove
  PROVE  Owners'
  <1> SUFFICES ASSUME NEW s \in Session PROVE OwnersOf(s)'
    BY DEF Owners
  <1>1. OwnersOf(s)
    BY DEF Owners
  <1>2. UNCHANGED <<dogs, next_player, session_of, join>>
    BY RemoveSteps DEF RemoveFrame
  <1>3. PICK t \in Session :
           /\ Others(t)
           /\ \/ Throws(t) \/ Copies(t) \/ Faults(t) \/ Skips(t) \/ \E p \in Player : Erases(t, p)
              \/ Measures(t) \/ ErasesEntry(t) \/ ErasesSession(t)
              \/ \E p \in Player : ErasesToken(t, p) \/ ErasesTokenId(t, p)
    BY RemoveSteps
  <1>4. CASE s # t
    <2>1. removal'[s] = removal[s] /\ erasing'[s] = erasing[s] /\ PlayersOf(s)' = PlayersOf(s)
      BY <1>3, <1>4 DEF Others
    <2> QED
      BY <1>1, <1>2, <2>1, OwnersSame
  <1>5. CASE s = t
    <2>1. \A p : Belongs(p, s)' <=> Belongs(p, s)
      BY <1>2 DEF Belongs
    <2>2. CASE Throws(t) \/ Copies(t)
      <3>1. UNCHANGED <<players_, erasing>> /\ removal[s] = "commit"
        BY <1>5, <2>2 DEF Throws, Copies
      <3>2. PlayersOf(s)' = PlayersOf(s)
        BY <3>1 DEF PlayersOf
      <3> QED
        BY <1>1, <1>2, <2>1, <3>1, <3>2 DEF OwnersOf
    <2>3. CASE Faults(t) \/ Skips(t)
      <3>1. UNCHANGED <<players_, erasing, removal>>
        BY <2>3 DEF Faults, Skips
      <3>2. PlayersOf(s)' = PlayersOf(s)
        BY <3>1 DEF PlayersOf
      <3> QED
        BY <1>1, <1>2, <3>1, <3>2, OwnersSame
    <2>4. ASSUME NEW p \in Player, Erases(t, p) PROVE OwnersOf(s)'
      <3>1. /\ removal'[s] = "size" /\ p \in PlayersOf(s) /\ p \notin dogs[s]
            /\ PlayersOf(s)' = PlayersOf(s) \ {p} /\ erasing'[s] = {p}
        BY <1>5, <2>4 DEF Erases
      <3> QED
        BY <1>1, <1>2, <2>1, <3>1 DEF OwnersOf
    <2>5. CASE Measures(t) \/ ErasesSession(t) \/ \E p \in Player : ErasesToken(t, p)
      <3>1. /\ UNCHANGED <<players_, erasing>> /\ removal'[s] \notin {"commit", "loop"}
        BY <1>5, <2>5 DEF Measures, ErasesSession, ErasesToken
      <3>2. PlayersOf(s)' = PlayersOf(s)
        BY <3>1 DEF PlayersOf
      <3> QED
        BY <1>1, <1>2, <3>1, <3>2, OwnersSame
    <2>6. CASE ErasesEntry(t)
      <3>1. removal'[s] = "list" /\ UNCHANGED erasing /\ PlayersOf(s)' = {}
        BY <1>5, <2>6 DEF ErasesEntry
      <3> QED
        BY <1>1, <1>2, <2>1, <3>1 DEF OwnersOf
    <2>7. ASSUME NEW p \in Player, ErasesTokenId(t, p) PROVE OwnersOf(s)'
      <3>1. erasing'[s] = {} /\ UNCHANGED players_
        BY <1>5, <2>7 DEF ErasesTokenId
      <3>2. PlayersOf(s)' = PlayersOf(s)
        BY <3>1 DEF PlayersOf
      <3> QED
        BY <1>1, <1>2, <2>1, <3>1, <3>2 DEF OwnersOf
    <2> QED
      BY <1>3, <2>2, <2>3, <2>4, <2>5, <2>6, <2>7
  <1> QED
    BY <1>4, <1>5

-----------------------------------------------------------------------------
(* A removal visits players of the entry, and finds it.                    *)

LEMMA RemovalsSame ==
  ASSUME NEW s \in Session, RemovalOf(s), removal'[s] = removal[s], leaving'[s] = leaving[s],
         PlayersOf(s)' = PlayersOf(s), s \in DOMAIN players_' <=> s \in DOMAIN players_,
         swept \subseteq swept', stalled \subseteq stalled'
  PROVE  RemovalOf(s)'
  BY DEF RemovalOf

LEMMA RemovalsJoin ==
  ASSUME Shapes, Removals, Join
  PROVE  Removals'
  <1> SUFFICES ASSUME NEW s \in Session PROVE RemovalOf(s)'
    BY DEF Removals
  <1>1. RemovalOf(s)
    BY DEF Removals
  <1>2. removal'[s] = removal[s] /\ leaving'[s] = leaving[s] /\ stalled \subseteq stalled'
    BY JoinSteps DEF JoinFrame
  <1>3. CASE Approaches \/ AddsDog \/ AddsTokenId \/ \E t \in Tokens : AddsToken(t)
    <2>1. UNCHANGED <<players_, swept>>
      BY <1>3 DEF Approaches, AddsDog, AddsTokenId, AddsToken
    <2>2. PlayersOf(s)' = PlayersOf(s)
      BY <2>1 DEF PlayersOf
    <2> QED
      BY <1>1, <1>2, <2>1, <2>2, RemovalsSame
  <1>4. CASE AddsPlayer
    <2>1. CASE s # join.session
      <3>1. /\ PlayersOf(s)' = PlayersOf(s) /\ swept \subseteq swept'
            /\ DOMAIN players_' = DOMAIN players_ \cup {join.session}
        BY <1>4, <2>1 DEF AddsPlayer
      <3> QED
        BY <1>1, <1>2, <2>1, <3>1, RemovalsSame
    <2>2. CASE s = join.session
      <3>1. /\ PlayersOf(s)' = PlayersOf(s) \cup {next_player} /\ swept \subseteq swept'
            /\ s \in DOMAIN players_' /\ (removal[s] = "entry" => next_player \in swept')
        BY <1>4, <2>2 DEF AddsPlayer
      <3> QED
        BY <1>1, <1>2, <3>1 DEF RemovalOf
    <2> QED
      BY <2>1, <2>2
  <1> QED
    BY <1>3, <1>4, JoinSteps

LEMMA RemovalsTick ==
  ASSUME Shapes, Owners, Removals, InPlay, Retire \/ Tick
  PROVE  Removals'
  <1> SUFFICES ASSUME NEW s \in Session PROVE RemovalOf(s)'
    BY DEF Removals
  <1>1. RemovalOf(s)
    BY DEF Removals
  <1>2. UNCHANGED <<players_, leaving, swept>>
    BY TickSteps DEF TickFrame
  <1>3. PlayersOf(s)' = PlayersOf(s)
    BY <1>2 DEF PlayersOf
  <1>4. CASE Ticks
    BY <1>1, <1>2, <1>3, <1>4, RemovalsSame DEF Ticks
  <1>5. ASSUME NEW t \in Session, NEW retired \in SUBSET Player, Retires(t, retired)
        PROVE  RemovalOf(s)'
    <2>1. stalled \subseteq stalled' /\ retired \cap Joining \subseteq stalled'
      BY <1>5 DEF Retires
    <2>2. CASE s # t
      <3>1. removal'[s] = removal[s]
        BY <1>5, <2>2 DEF Retires
      <3> QED
        BY <1>1, <1>2, <1>3, <2>1, <3>1, RemovalsSame
    <2>3. CASE s = t
      <3>1. removal'[s] = "commit" /\ leaving[s] = {} /\ retired # {} /\ retired \subseteq dogs[s]
        BY <1>5, <2>3 DEF Retires
      <3>2. PICK p \in retired : p \in dogs[s]
        BY <3>1
      <3>3. p \in PlayersOf(s) \cup swept \/ p \in Joining
        BY <3>2 DEF InPlay, DogsHavePlayers, Joining
      <3>4. s \in DOMAIN players_ \/ swept \cup stalled' # {}
        BY <2>1, <3>2, <3>3 DEF PlayersOf
      <3> QED
        BY <1>2, <3>1, <3>4 DEF RemovalOf
    <2> QED
      BY <2>2, <2>3
  <1> QED
    BY <1>4, <1>5, TickSteps

LEMMA RemovalsRemove ==
  ASSUME Shapes, Removals, Remove
  PROVE  Removals'
  <1> SUFFICES ASSUME NEW s \in Session PROVE RemovalOf(s)'
    BY DEF Removals
  <1>1. RemovalOf(s)
    BY DEF Removals
  <1>2. UNCHANGED <<swept, stalled>>
    BY RemoveSteps DEF RemoveFrame
  <1>3. PICK t \in Session :
           /\ Others(t)
           /\ \/ Throws(t) \/ Copies(t) \/ Faults(t) \/ Skips(t) \/ \E p \in Player : Erases(t, p)
              \/ Measures(t) \/ ErasesEntry(t) \/ ErasesSession(t)
              \/ \E p \in Player : ErasesToken(t, p) \/ ErasesTokenId(t, p)
    BY RemoveSteps
  <1>4. CASE s # t
    <2>1. /\ removal'[s] = removal[s] /\ leaving'[s] = leaving[s] /\ PlayersOf(s)' = PlayersOf(s)
          /\ s \in DOMAIN players_' <=> s \in DOMAIN players_
      BY <1>3, <1>4 DEF Others
    <2> QED
      BY <1>1, <1>2, <2>1, RemovalsSame
  <1>5. CASE s = t
    <2>1. CASE UNCHANGED players_ /\ UNCHANGED leaving
               /\ (removal'[s] \notin {"size", "entry", "commit"} \/ removal'[s] = removal[s])
      <3>1. PlayersOf(s)' = PlayersOf(s)
        BY <2>1 DEF PlayersOf
      <3> QED
        BY <1>1, <1>2, <2>1, <3>1 DEF RemovalOf
    <2>2. CASE Throws(t) \/ ErasesSession(t) \/ \E p \in Player : ErasesToken(t, p) \/ ErasesTokenId(t, p)
      BY <1>5, <2>1, <2>2 DEF Throws, ErasesSession, ErasesToken, ErasesTokenId
    <2>3. CASE Faults(t)
      BY <1>5, <2>1, <2>3 DEF Faults
    <2>4. CASE Copies(t) \/ Skips(t)
      <3>1. /\ UNCHANGED players_ /\ removal'[s] = "loop"
            /\ leaving'[s] \subseteq PlayersOf(s)
        BY <1>1, <1>5, <2>4 DEF Copies, Skips, RemovalOf
      <3>2. PlayersOf(s)' = PlayersOf(s)
        BY <3>1 DEF PlayersOf
      <3> QED
        BY <3>1, <3>2 DEF RemovalOf
    <2>5. ASSUME NEW p \in Player, Erases(t, p) PROVE RemovalOf(s)'
      <3>1. /\ removal'[s] = "size" /\ leaving'[s] = leaving[s] \ {p}
            /\ PlayersOf(s)' = PlayersOf(s) \ {p} /\ s \in DOMAIN players_'
        BY <1>5, <2>5 DEF Erases
      <3> QED
        BY <1>1, <3>1 DEF RemovalOf
    <2>6. CASE Measures(t)
      <3>1. /\ UNCHANGED <<players_, leaving>> /\ s \in DOMAIN players_
            /\ removal'[s] \in {"entry", "token"}
            /\ removal'[s] = "entry" => PlayersOf(s) = {}
        BY <1>5, <2>6 DEF Measures
      <3>2. PlayersOf(s)' = PlayersOf(s)
        BY <3>1 DEF PlayersOf
      <3> QED
        BY <1>1, <3>1, <3>2 DEF RemovalOf
    <2>7. CASE ErasesEntry(t)
      <3>1. removal[s] = "entry" /\ removal'[s] = "list" /\ UNCHANGED leaving /\ PlayersOf(s)' = {}
        BY <1>5, <2>7 DEF ErasesEntry
      <3> QED
        BY <1>1, <3>1 DEF RemovalOf
    <2> QED
      BY <1>3, <2>2, <2>3, <2>4, <2>5, <2>6, <2>7
  <1> QED
    BY <1>4, <1>5

-----------------------------------------------------------------------------
(* The two maps of tokens stay in step.                                    *)

LEMMA TokensSame ==
  ASSUME TokensInStep, UNCHANGED <<tokens, token_of, next_player>>,
         UNCHANGED join \/ /\ join.step \notin {"add token", "add token id"}
                           /\ join'.step \notin {"add token", "add token id"},
         \A s \in Session : removal[s] = "token id" <=> removal'[s] = "token id",
         \A s \in Session : removal[s] = "token id" => erasing'[s] = erasing[s]
  PROVE  TokensInStep'
  BY DEF TokensInStep, TokenMapsAgree

LEMMA TokensJoin ==
  ASSUME Shapes, TokensInStep, Join
  PROVE  TokensInStep'
  <1>1. UNCHANGED <<removal, erasing>>
    BY JoinSteps DEF JoinFrame
  <1>2. /\ next_player \in Nat
        /\ \A p \in DOMAIN token_of : p \in Nat /\ p < next_player
        /\ \A t \in DOMAIN tokens : tokens[t] \in Nat /\ tokens[t] < next_player
    <2>1. /\ Player \subseteq Nat /\ DOMAIN token_of \subseteq Player
          /\ \A t \in DOMAIN tokens : tokens[t] \in Player
      BY ShapesInParts DEF TokenTypes, Player
    <2> QED
      BY <2>1, JoinFacts DEF TokensInStep
  <1>3. CASE Approaches \/ AddsDog
    BY <1>1, <1>3, TokensSame DEF Approaches, AddsDog
  <1>4. CASE AddsPlayer
    <2>1. UNCHANGED <<tokens, token_of>> /\ join'.step = "add token" /\ join.step = "add player"
      BY <1>4 DEF AddsPlayer
    <2>2. next_player' = next_player + 1
      BY <1>4 DEF AddsPlayer
    <2>3. next_player' - 1 = next_player
      BY <1>2, <2>2
    <2>4. /\ \A p \in DOMAIN token_of : p < next_player' /\ p # next_player
          /\ \A t \in DOMAIN tokens : tokens[t] < next_player' /\ tokens[t] # next_player
      BY <1>2, <2>2
    <2>5. TokenMapsAgree'
      BY <1>1, <2>1 DEF TokensInStep, TokenMapsAgree
    <2> QED
      BY <1>1, <2>1, <2>3, <2>4, <2>5 DEF TokensInStep
  <1>5. ASSUME NEW new \in Tokens, AddsToken(new) PROVE TokensInStep'
    <2>1. /\ UNCHANGED <<token_of, next_player>> /\ new \notin DOMAIN tokens
          /\ join.step = "add token" /\ join'.step = "add token id" /\ join'.token = new
      BY <1>5 DEF AddsToken
    <2>2. /\ DOMAIN tokens' = DOMAIN tokens \cup {new} /\ tokens'[new] = next_player - 1
          /\ \A t \in DOMAIN tokens : tokens'[t] = tokens[t]
      <3>1. tokens' = Put(tokens, new, next_player - 1)
        BY <1>5 DEF AddsToken
      <3> QED
        BY <2>1, <3>1 DEF Put
    <2>3. /\ next_player - 1 \notin DOMAIN token_of
          /\ \A t \in DOMAIN tokens : tokens[t] # next_player - 1
      BY <2>1 DEF TokensInStep
    <2>4. next_player - 1 < next_player
      BY <1>2
    <2>5. TokenMapsAgree'
      BY <1>1, <2>1, <2>2, <2>3 DEF TokensInStep, TokenMapsAgree
    <2>6. \A s \in Session : removal[s] = "token id" =>
             \A p \in erasing[s] : p \in DOMAIN token_of /\ \A t \in DOMAIN tokens' : tokens'[t] # p
      BY <2>2, <2>3 DEF TokensInStep
    <2> QED
      BY <1>1, <1>2, <2>1, <2>2, <2>3, <2>4, <2>5, <2>6 DEF TokensInStep
  <1>6. CASE AddsTokenId
    <2>1. /\ UNCHANGED <<tokens, next_player>>
          /\ join.step = "add token id" /\ join'.step \in {"none", "run"}
      BY <1>6 DEF AddsTokenId
    <2>2. /\ DOMAIN token_of' = DOMAIN token_of \cup {next_player - 1}
          /\ token_of'[next_player - 1] = join.token
          /\ \A p \in DOMAIN token_of : token_of'[p] = token_of[p]
      <3>1. token_of' = Put(token_of, next_player - 1, join.token)
        BY <1>6 DEF AddsTokenId
      <3>2. next_player - 1 \notin DOMAIN token_of
        BY <2>1 DEF TokensInStep
      <3> QED
        BY <3>1, <3>2 DEF Put
    <2>3. join.token \in DOMAIN tokens /\ tokens[join.token] = next_player - 1
      BY <2>1 DEF TokensInStep
    <2>4. next_player - 1 < next_player
      BY <1>2
    <2>5. TokenMapsAgree'
      <3>1. \A t \in DOMAIN tokens : tokens[t] \in DOMAIN token_of' /\ token_of'[tokens[t]] = t
        BY <2>1, <2>2 DEF TokensInStep, TokenMapsAgree
      <3>2. \A p \in DOMAIN token_of' :
               \/ token_of'[p] \in DOMAIN tokens /\ tokens[token_of'[p]] = p
               \/ \E s \in Session : removal[s] = "token id" /\ p \in erasing[s]
        BY <2>2, <2>3 DEF TokensInStep, TokenMapsAgree
      <3> QED
        BY <1>1, <2>1, <3>1, <3>2 DEF TokenMapsAgree
    <2>6. \A s \in Session : removal[s] = "token id" =>
             \A p \in erasing[s] : p \in DOMAIN token_of' /\ \A t \in DOMAIN tokens : tokens[t] # p
      BY <2>2 DEF TokensInStep
    <2> QED
      BY <1>1, <1>2, <2>1, <2>2, <2>4, <2>5, <2>6 DEF TokensInStep
  <1> QED
    BY <1>3, <1>4, <1>5, <1>6, JoinSteps

LEMMA TokensTick ==
  ASSUME Shapes, TokensInStep, Retire \/ Tick
  PROVE  TokensInStep'
  <1>1. UNCHANGED <<tokens, token_of, next_player, join, erasing>>
    BY TickSteps DEF TickFrame
  <1>2. \A s \in Session : removal[s] = "token id" <=> removal'[s] = "token id"
    BY TickSteps DEF Ticks, Retires
  <1> QED
    BY <1>1, <1>2, TokensSame

LEMMA TokensRemove ==
  ASSUME Shapes, Owners, TokensInStep, Remove
  PROVE  TokensInStep'
  <1>1. UNCHANGED <<next_player, join>>
    BY RemoveSteps DEF RemoveFrame
  <1>2. PICK s \in Session :
           /\ Others(s)
           /\ \/ Throws(s) \/ Copies(s) \/ Faults(s) \/ Skips(s) \/ \E p \in Player : Erases(s, p)
              \/ Measures(s) \/ ErasesEntry(s) \/ ErasesSession(s)
              \/ \E p \in Player : ErasesToken(s, p) \/ ErasesTokenId(s, p)
    BY RemoveSteps
  <1>3. \A t \in Session \ {s} : removal'[t] = removal[t] /\ erasing'[t] = erasing[t]
    BY <1>2 DEF Others
  <1>4. CASE \/ Throws(s) \/ Copies(s) \/ Faults(s) \/ Skips(s) \/ \E p \in Player : Erases(s, p)
             \/ Measures(s) \/ ErasesEntry(s) \/ ErasesSession(s)
    <2>1. UNCHANGED <<tokens, token_of>>
      BY <1>4 DEF Throws, Copies, Faults, Skips, Erases, Measures, ErasesEntry, ErasesSession
    <2>2. \/ removal'[s] # "token id" /\ removal[s] # "token id"
          \/ removal'[s] = removal[s] /\ erasing'[s] = erasing[s]
      BY <1>4 DEF Throws, Copies, Faults, Skips, Erases, Measures, ErasesEntry, ErasesSession
    <2> QED
      BY <1>1, <1>3, <2>1, <2>2, TokensSame
  (* Who is being removed is in one session, and the only one there.       *)
  <1>5. ASSUME NEW t \in Session, NEW p \in erasing[t], p \in erasing[s]
        PROVE  t = s
    <2>1. OwnersOf(t) /\ OwnersOf(s)
      BY DEF Owners
    <2>2. Belongs(p, t) /\ Belongs(p, s)
      BY <1>5, <2>1 DEF OwnersOf
    <2> QED
      BY <2>2 DEF Belongs
  <1>6. ASSUME NEW p \in Player, ErasesToken(s, p) PROVE TokensInStep'
    <2>1. /\ UNCHANGED <<token_of, erasing>> /\ removal[s] = "token" /\ removal'[s] = "token id"
          /\ p \in erasing[s] /\ p \in DOMAIN token_of
      BY <1>6 DEF ErasesToken
    <2>2. /\ DOMAIN tokens' = DOMAIN tokens \ {token_of[p]}
          /\ \A t \in DOMAIN tokens' : tokens'[t] = tokens[t]
      <3>1. tokens' = Drop(tokens, token_of[p])
        BY <1>6 DEF ErasesToken
      <3> QED
        BY <3>1 DEF Drop
    <2>3. token_of[p] \in DOMAIN tokens /\ tokens[token_of[p]] = p
      BY <1>5, <2>1 DEF TokensInStep, TokenMapsAgree
    <2>4. join.step = "add token id" => join.token # token_of[p]
      BY <2>1, <2>3 DEF TokensInStep
    <2>5. ASSUME NEW t \in DOMAIN tokens' PROVE tokens'[t] # p
      <3>1. t \in DOMAIN tokens /\ tokens'[t] = tokens[t] /\ t # token_of[p]
        BY <2>2
      <3>2. p # next_player - 1 \/ join.step # "add token id"
        BY <2>1 DEF TokensInStep
      <3>3. tokens[t] = p => token_of[p] = t
        BY <3>1, <3>2 DEF TokensInStep, TokenMapsAgree
      <3> QED
        BY <3>1, <3>3
    <2>6. TokenMapsAgree'
      <3>1. \A t \in DOMAIN tokens' :
               \/ tokens'[t] \in DOMAIN token_of /\ token_of[tokens'[t]] = t
               \/ join.step = "add token id" /\ join.token = t /\ tokens'[t] = next_player - 1
        BY <2>2 DEF TokensInStep, TokenMapsAgree
      <3>2. ASSUME NEW q \in DOMAIN token_of
            PROVE  \/ token_of[q] \in DOMAIN tokens' /\ tokens'[token_of[q]] = q
                   \/ \E t \in Session : removal'[t] = "token id" /\ q \in erasing[t]
        <4>1. CASE q = p
          BY <2>1, <4>1
        <4>2. CASE token_of[q] \in DOMAIN tokens /\ tokens[token_of[q]] = q /\ q # p
          BY <2>2, <2>3, <4>2
        <4>3. CASE \E t \in Session : removal[t] = "token id" /\ q \in erasing[t]
          BY <1>3, <2>1, <4>3
        <4> QED
          BY <4>1, <4>2, <4>3 DEF TokensInStep, TokenMapsAgree
      <3> QED
        BY <1>1, <2>1, <3>1, <3>2 DEF TokenMapsAgree
    <2>7. ASSUME NEW t \in Session, removal'[t] = "token id", NEW q \in erasing[t]
          PROVE  q \in DOMAIN token_of /\ \A u \in DOMAIN tokens' : tokens'[u] # q
      <3>1. CASE t = s
        <4>1. q = p
          BY <2>1, <3>1, OneErased
        <4> QED
          BY <2>1, <2>5, <4>1
      <3>2. CASE t # s
        <4>1. removal[t] = "token id"
          BY <1>3, <2>7, <3>2
        <4>2. q \in DOMAIN token_of /\ \A u \in DOMAIN tokens : tokens[u] # q
          BY <4>1 DEF TokensInStep
        <4> QED
          BY <2>2, <4>2
      <3> QED
        BY <3>1, <3>2
    <2>8. /\ \A t \in DOMAIN tokens' : tokens'[t] < next_player /\
                (join.step = "add token" => tokens'[t] # next_player - 1)
          /\ join.step = "add token id" =>
                join.token \in DOMAIN tokens' /\ tokens'[join.token] = next_player - 1
      BY <2>2, <2>4 DEF TokensInStep
    <2> QED
      BY <1>1, <2>1, <2>6, <2>7, <2>8 DEF TokensInStep
  <1>7. ASSUME NEW p \in Player, ErasesTokenId(s, p) PROVE TokensInStep'
    <2>1. /\ UNCHANGED tokens /\ removal[s] = "token id" /\ removal'[s] = "loop"
          /\ p \in erasing[s] /\ erasing'[s] = {}
      BY <1>7 DEF ErasesTokenId
    <2>2. /\ DOMAIN token_of' = DOMAIN token_of \ {p}
          /\ \A q \in DOMAIN token_of' : token_of'[q] = token_of[q]
      <3>1. token_of' = Drop(token_of, p)
        BY <1>7 DEF ErasesTokenId
      <3> QED
        BY <3>1 DEF Drop
    <2>3. \A t \in DOMAIN tokens : tokens[t] # p
      BY <2>1 DEF TokensInStep
    <2>4. \A t \in Session : removal'[t] = "token id" =>
             removal[t] = "token id" /\ erasing'[t] = erasing[t] /\ p \notin erasing[t]
      BY <1>3, <1>5, <2>1
    <2>5. TokenMapsAgree'
      <3>1. \A t \in DOMAIN tokens :
               \/ tokens[t] \in DOMAIN token_of' /\ token_of'[tokens[t]] = t
               \/ join.step = "add token id" /\ join.token = t /\ tokens[t] = next_player - 1
        BY <2>2, <2>3 DEF TokensInStep, TokenMapsAgree
      <3>2. ASSUME NEW q \in DOMAIN token_of'
            PROVE  \/ token_of'[q] \in DOMAIN tokens /\ tokens[token_of'[q]] = q
                   \/ \E t \in Session : removal'[t] = "token id" /\ q \in erasing'[t]
        <4>1. CASE token_of[q] \in DOMAIN tokens /\ tokens[token_of[q]] = q
          BY <2>2, <4>1
        <4>2. ASSUME NEW t \in Session, removal[t] = "token id", q \in erasing[t]
              PROVE  removal'[t] = "token id" /\ q \in erasing'[t]
          <5>1. t # s
            <6>1. q # p
              BY <2>2
            <6> QED
              BY <2>1, <4>2, <6>1, OneErased
          <5> QED
            BY <1>3, <4>2, <5>1
        <4> QED
          BY <2>2, <4>1, <4>2 DEF TokensInStep, TokenMapsAgree
      <3> QED
        BY <1>1, <2>1, <3>1, <3>2 DEF TokenMapsAgree
    <2>6. \A t \in Session : removal'[t] = "token id" =>
             \A q \in erasing'[t] : q \in DOMAIN token_of' /\ \A u \in DOMAIN tokens : tokens[u] # q
      BY <2>2, <2>4 DEF TokensInStep
    <2> QED
      BY <1>1, <2>1, <2>2, <2>5, <2>6 DEF TokensInStep
  <1> QED
    BY <1>2, <1>4, <1>6, <1>7

-----------------------------------------------------------------------------
(* Who plays has a player and a token.                                     *)

LEMMA PeopleFacts ==
  ASSUME Shapes, Owners, TokensInStep
  PROVE  /\ next_player \in Nat
         /\ \A s \in Session : \A p \in PlayersOf(s) \cup erasing[s] :
               p \in 0 .. next_player - 1 /\ p < next_player /\ p # next_player /\ session_of[p] = s
         /\ \A t \in DOMAIN tokens : tokens[t] \in 0 .. next_player - 1
  <1>1. next_player \in Nat
    BY JoinFacts
  <1>2. ASSUME NEW s \in Session, NEW p \in PlayersOf(s) \cup erasing[s]
        PROVE  p \in 0 .. next_player - 1 /\ p < next_player /\ p # next_player /\ session_of[p] = s
    <2>1. Belongs(p, s)
      BY <1>2 DEF Owners, OwnersOf
    <2>2. p \in 0 .. next_player - 1
      BY <2>1 DEF Belongs
    <2> QED
      BY <1>1, <2>1, <2>2, BelongsFacts
  <1>3. ASSUME NEW t \in DOMAIN tokens PROVE tokens[t] \in 0 .. next_player - 1
    <2>1. tokens[t] \in Player /\ tokens[t] < next_player
      BY ShapesInParts DEF TokenTypes, TokensInStep
    <2>2. tokens[t] \in Nat
      BY <2>1 DEF Player
    <2> QED
      BY <1>1, <2>1, <2>2
  <1> QED
    BY <1>1, <1>2, <1>3

LEMMA InPlayJoin ==
  ASSUME Shapes, Owners, TokensInStep, InPlay, Join
  PROVE  InPlay'
  <1>1. UNCHANGED <<removal, erasing, stalled>>
    BY JoinSteps DEF JoinFrame
  <1>2. /\ next_player \in Nat
        /\ \A t \in DOMAIN tokens : tokens[t] \in 0 .. next_player - 1
    BY PeopleFacts
  <1>3. join.step # "none" => join.session \in Session
    BY JoinFacts
  <1>4. Erasing' = Erasing
    BY <1>1 DEF Erasing
  <1>5. /\ TokenLeadsToPlayer /\ DogsHavePlayers /\ PlayersHaveTokens /\ NewcomerPlays
        /\ LeaversHaveTokens
    BY DEF InPlay
  <1>6. ASSUME UNCHANGED players_ PROVE \A s : PlayersOf(s)' = PlayersOf(s)
    BY <1>6 DEF PlayersOf
  <1>7. CASE Approaches
    <2>1. /\ UNCHANGED <<dogs, players_, session_of, swept, tokens, token_of>>
          /\ join.step \notin {"add player", "add token", "add token id"}
          /\ join'.step \notin {"add player", "add token", "add token id"}
          /\ Joining' = Joining
      BY <1>7 DEF Approaches
    <2>2. TokenLeadsToPlayer'
      BY <1>4, <1>5, <1>6, <2>1 DEF TokenLeadsToPlayer
    <2>3. DogsHavePlayers'
      BY <1>5, <1>6, <2>1 DEF DogsHavePlayers
    <2>4. PlayersHaveTokens'
      BY <1>5, <1>6, <2>1 DEF PlayersHaveTokens
    <2>5. NewcomerPlays'
      BY <2>1 DEF NewcomerPlays
    <2>6. LeaversHaveTokens'
      BY <1>1, <1>5, <2>1 DEF LeaversHaveTokens
    <2> QED
      BY <2>2, <2>3, <2>4, <2>5, <2>6 DEF InPlay
  <1>8. CASE AddsDog
    <2>1. /\ UNCHANGED <<players_, next_player, session_of, swept, tokens, token_of>>
          /\ join.step = "add dog" /\ join'.step = "add player" /\ join'.session = join.session
          /\ Joining = {} /\ Joining' = {next_player}
      BY <1>8 DEF AddsDog
    <2>2. /\ next_player \in dogs'[join.session]
          /\ \A s \in Session : dogs'[s] \subseteq dogs[s] \cup {next_player}
      BY <1>3, <1>8 DEF AddsDog
    <2>3. TokenLeadsToPlayer'
      BY <1>4, <1>5, <1>6, <2>1 DEF TokenLeadsToPlayer
    <2>4. DogsHavePlayers'
      BY <1>5, <1>6, <2>1, <2>2 DEF DogsHavePlayers
    <2>5. PlayersHaveTokens'
      BY <1>5, <1>6, <2>1, <2>2 DEF PlayersHaveTokens
    <2>6. NewcomerPlays'
      BY <2>1, <2>2 DEF NewcomerPlays
    <2>7. LeaversHaveTokens'
      BY <1>1, <1>5, <2>1 DEF LeaversHaveTokens
    <2> QED
      BY <2>3, <2>4, <2>5, <2>6, <2>7 DEF InPlay
  <1>9. CASE AddsPlayer
    <2>1. /\ UNCHANGED <<dogs, tokens, token_of>> /\ swept \subseteq swept'
          /\ join.step = "add player" /\ join'.step = "add token" /\ join'.session = join.session
          /\ Joining = {next_player} /\ Joining' = {next_player}
      BY <1>9 DEF AddsPlayer
    <2>2. \A s \in Session :
             /\ PlayersOf(s) \subseteq PlayersOf(s)'
             /\ PlayersOf(s)' \subseteq PlayersOf(s) \cup {next_player}
             /\ s = join.session => next_player \in PlayersOf(s)'
      <3>1. PlayersOf(join.session)' = PlayersOf(join.session) \cup {next_player}
        BY <1>9 DEF AddsPlayer
      <3>2. ASSUME NEW s \in Session, s # join.session PROVE PlayersOf(s)' = PlayersOf(s)
        BY <1>9, <3>2 DEF AddsPlayer
      <3>3. ASSUME NEW s \in Session, s = join.session
            PROVE  PlayersOf(s)' = PlayersOf(s) \cup {next_player}
        BY <2>1, <3>1, <3>3 DEF PlayersOf
      <3> QED
        BY <3>2, <3>3
    <2>3. next_player' - 1 = next_player
      <3>1. next_player' = next_player + 1
        BY <1>9 DEF AddsPlayer
      <3> QED
        BY <1>2, <3>1
    <2>4. TokenLeadsToPlayer'
      <3>1. \A t \in DOMAIN tokens : session_of'[tokens[t]] = session_of[tokens[t]]
        BY <1>2, <1>9 DEF AddsPlayer
      <3>2. \A t \in DOMAIN tokens : session_of[tokens[t]] \in Session
        BY <1>2, ShapesInParts DEF PlayerTypes
      <3>3. ASSUME NEW t \in DOMAIN tokens, NEW s \in Session, s = session_of[tokens[t]]
            PROVE  tokens[t] \in PlayersOf(s)' \cup Erasing \cup swept'
        BY <1>5, <2>1, <2>2, <3>3 DEF TokenLeadsToPlayer
      <3> QED
        BY <1>4, <2>1, <3>1, <3>2, <3>3 DEF TokenLeadsToPlayer
    <2>5. DogsHavePlayers'
      <3>1. ASSUME NEW s \in Session, NEW p \in dogs[s]
            PROVE  p \in PlayersOf(s)' \cup swept'
        <4>1. CASE p = next_player
          <5>1. s = join.session
            <6>1. ~Belongs(p, s)
              BY <1>2, <4>1, BelongsFacts
            <6> QED
              BY <3>1, <6>1 DEF Owners, OwnersOf
          <5> QED
            BY <2>2, <4>1, <5>1
        <4>2. CASE p # next_player
          BY <1>5, <2>1, <2>2, <3>1, <4>2 DEF DogsHavePlayers
        <4> QED
          BY <4>1, <4>2
      <3> QED
        BY <2>1, <3>1 DEF DogsHavePlayers
    <2>6. PlayersHaveTokens'
      BY <1>5, <2>1, <2>2 DEF PlayersHaveTokens
    <2>7. NewcomerPlays'
      <3>1. next_player \in dogs[join.session] \cup stalled
        BY <1>5, <2>1 DEF NewcomerPlays
      <3>2. next_player \in PlayersOf(join.session)'
        BY <1>3, <2>1, <2>2 DEF PlayersOf
      <3> QED
        BY <1>1, <2>1, <2>3, <3>1, <3>2 DEF NewcomerPlays
    <2>8. LeaversHaveTokens'
      BY <1>1, <1>5, <2>1 DEF LeaversHaveTokens
    <2> QED
      BY <2>4, <2>5, <2>6, <2>7, <2>8 DEF InPlay
  <1>10. ASSUME NEW new \in Tokens, AddsToken(new) PROVE InPlay'
    <2>1. /\ UNCHANGED <<dogs, players_, next_player, session_of, swept, token_of>>
          /\ join.step = "add token" /\ join'.step = "add token id" /\ join'.session = join.session
          /\ Joining' = Joining /\ new \notin DOMAIN tokens
      BY <1>10 DEF AddsToken
    <2>2. /\ DOMAIN tokens' = DOMAIN tokens \cup {new} /\ tokens'[new] = next_player - 1
          /\ \A t \in DOMAIN tokens : tokens'[t] = tokens[t]
      <3>1. tokens' = Put(tokens, new, next_player - 1)
        BY <1>10 DEF AddsToken
      <3> QED
        BY <2>1, <3>1 DEF Put
    <2>3. TokenLeadsToPlayer'
      <3>1. session_of[next_player - 1] = join.session
        BY <2>1, JoinFacts
      <3>2. next_player - 1 \in PlayersOf(join.session) \cup Erasing \cup swept
        BY <1>5, <2>1 DEF NewcomerPlays
      <3>3. tokens'[new] \in PlayersOf(session_of[tokens'[new]]) \cup Erasing \cup swept
        BY <2>2, <3>1, <3>2
      <3>4. ASSUME NEW t \in DOMAIN tokens
            PROVE  tokens'[t] \in PlayersOf(session_of[tokens'[t]]) \cup Erasing \cup swept
        BY <1>5, <2>2 DEF TokenLeadsToPlayer
      <3>5. \A t \in DOMAIN tokens' :
               tokens'[t] \in PlayersOf(session_of[tokens'[t]]) \cup Erasing \cup swept
        BY <2>2, <3>3, <3>4
      <3>6. UNCHANGED <<players_, session_of, swept>>
        BY <2>1
      <3> QED
        BY <1>4, <3>5, <3>6 DEF TokenLeadsToPlayer, PlayersOf
    <2>4. DogsHavePlayers'
      BY <1>5, <1>6, <2>1 DEF DogsHavePlayers
    <2>5. PlayersHaveTokens'
      BY <1>5, <1>6, <2>1 DEF PlayersHaveTokens
    <2>6. NewcomerPlays'
      BY <1>1, <1>4, <1>5, <1>6, <2>1 DEF NewcomerPlays
    <2>7. LeaversHaveTokens'
      BY <1>1, <1>5, <2>1 DEF LeaversHaveTokens
    <2> QED
      BY <2>3, <2>4, <2>5, <2>6, <2>7 DEF InPlay
  <1>11. CASE AddsTokenId
    <2>1. /\ UNCHANGED <<dogs, players_, session_of, swept, tokens>>
          /\ join.step = "add token id" /\ join'.step \in {"none", "run"}
          /\ Joining = {next_player - 1} /\ Joining' = {}
      BY <1>11 DEF AddsTokenId
    <2>2. DOMAIN token_of' = DOMAIN token_of \cup {next_player - 1}
      <3>1. token_of' = Put(token_of, next_player - 1, join.token)
        BY <1>11 DEF AddsTokenId
      <3> QED
        BY <3>1 DEF Put
    <2>3. TokenLeadsToPlayer'
      BY <1>4, <1>5, <1>6, <2>1 DEF TokenLeadsToPlayer
    <2>4. DogsHavePlayers'
      BY <1>5, <1>6, <2>1 DEF DogsHavePlayers
    <2>5. PlayersHaveTokens'
      BY <1>5, <1>6, <2>1, <2>2 DEF PlayersHaveTokens
    <2>6. NewcomerPlays'
      BY <2>1 DEF NewcomerPlays
    <2>7. LeaversHaveTokens'
      BY <1>1, <1>5, <2>2 DEF LeaversHaveTokens
    <2> QED
      BY <2>3, <2>4, <2>5, <2>6, <2>7 DEF InPlay
  <1> QED
    BY <1>7, <1>8, <1>9, <1>10, <1>11, JoinSteps

LEMMA InPlayTick ==
  ASSUME Shapes, InPlay, Retire \/ Tick
  PROVE  InPlay'
  <1>1. UNCHANGED <<players_, next_player, session_of, swept, tokens, token_of, join, erasing>>
    BY TickSteps DEF TickFrame
  <1>2. /\ Erasing' = Erasing /\ Joining' = Joining
        /\ \A s : PlayersOf(s)' = PlayersOf(s)
    BY <1>1 DEF Erasing, Joining, PlayersOf
  <1>3. /\ TokenLeadsToPlayer /\ DogsHavePlayers /\ PlayersHaveTokens /\ NewcomerPlays
        /\ LeaversHaveTokens
    BY DEF InPlay
  <1>4. TokenLeadsToPlayer'
    BY <1>1, <1>2, <1>3 DEF TokenLeadsToPlayer
  <1>5. CASE Ticks
    <2>1. UNCHANGED <<dogs, removal, stalled>>
      BY <1>5 DEF Ticks
    <2>2. DogsHavePlayers'
      BY <1>1, <1>2, <1>3, <2>1 DEF DogsHavePlayers
    <2>3. PlayersHaveTokens'
      BY <1>1, <1>2, <1>3, <2>1 DEF PlayersHaveTokens
    <2>4. NewcomerPlays'
      BY <1>1, <1>2, <1>3, <2>1 DEF NewcomerPlays
    <2>5. LeaversHaveTokens'
      BY <1>1, <1>3, <2>1 DEF LeaversHaveTokens
    <2> QED
      BY <1>4, <2>2, <2>3, <2>4, <2>5 DEF InPlay
  <1>6. ASSUME NEW s \in Session, NEW retired \in SUBSET Player, Retires(s, retired)
        PROVE  InPlay'
    <2>1. /\ removal'[s] = "commit" /\ dogs'[s] = dogs[s] \ retired
          /\ \A t \in Session \ {s} : removal'[t] = removal[t] /\ dogs'[t] = dogs[t]
          /\ stalled' = stalled \cup (retired \cap Joining)
      BY <1>6 DEF Retires
    <2>2. \A t \in Session : /\ dogs'[t] \subseteq dogs[t]
                             /\ dogs[t] \cap Joining \subseteq dogs'[t] \cup stalled'
      BY <2>1
    <2>3. DogsHavePlayers'
      BY <1>1, <1>2, <1>3, <2>2 DEF DogsHavePlayers
    <2>4. PlayersHaveTokens'
      BY <1>1, <1>2, <1>3, <2>2 DEF PlayersHaveTokens
    <2>5. NewcomerPlays'
      <3>1. join.step # "none" => join.session \in Session
        BY JoinFacts
      <3>2. CASE join.step = "add player"
        <4>1. next_player \in Joining /\ next_player \in dogs[join.session] \cup stalled
          BY <1>3, <3>2 DEF Joining, NewcomerPlays
        <4>2. next_player \in dogs'[join.session] \cup stalled'
          BY <2>1, <2>2, <3>1, <3>2, <4>1
        <4> QED
          BY <1>1, <3>2, <4>2 DEF NewcomerPlays
      <3>3. CASE join.step \in {"add token", "add token id"}
        <4>1. /\ next_player - 1 \in Joining /\ next_player - 1 \in dogs[join.session] \cup stalled
              /\ next_player - 1 \in PlayersOf(join.session) \cup Erasing \cup swept
          BY <1>3, <3>3 DEF Joining, NewcomerPlays
        <4>2. next_player - 1 \in dogs'[join.session] \cup stalled'
          BY <2>1, <2>2, <3>1, <3>3, <4>1
        <4> QED
          BY <1>1, <1>2, <3>3, <4>1, <4>2 DEF NewcomerPlays
      <3> QED
        BY <1>1, <3>2, <3>3 DEF NewcomerPlays
    <2>6. LeaversHaveTokens'
      BY <1>1, <1>3, <2>1 DEF LeaversHaveTokens
    <2> QED
      BY <1>4, <2>3, <2>4, <2>5, <2>6 DEF InPlay
  <1> QED
    BY <1>5, <1>6, TickSteps

LEMMA InPlayRemove ==
  ASSUME Shapes, Owners, Removals, TokensInStep, InPlay, Remove
  PROVE  InPlay'
  <1>1. UNCHANGED <<dogs, next_player, session_of, join, swept, stalled>>
    BY RemoveSteps DEF RemoveFrame
  <1>2. PICK s \in Session :
           /\ Others(s)
           /\ \/ Throws(s) \/ Copies(s) \/ Faults(s) \/ Skips(s) \/ \E p \in Player : Erases(s, p)
              \/ Measures(s) \/ ErasesEntry(s) \/ ErasesSession(s)
              \/ \E p \in Player : ErasesToken(s, p) \/ ErasesTokenId(s, p)
    BY RemoveSteps
  <1>3. \A t \in Session \ {s} : /\ removal'[t] = removal[t] /\ erasing'[t] = erasing[t]
                                 /\ PlayersOf(t)' = PlayersOf(t)
    BY <1>2 DEF Others
  <1>4. /\ TokenLeadsToPlayer /\ DogsHavePlayers /\ PlayersHaveTokens /\ NewcomerPlays
        /\ LeaversHaveTokens
    BY DEF InPlay
  <1>5. Joining' = Joining
    BY <1>1 DEF Joining
  <1>6. /\ join.step # "none" => join.session \in Session
        /\ \A t \in DOMAIN tokens : session_of[tokens[t]] \in Session
    <2>1. \A t \in DOMAIN tokens : tokens[t] \in 0 .. next_player - 1
      BY PeopleFacts
    <2> QED
      BY <2>1, JoinFacts, ShapesInParts DEF PlayerTypes
  (* Nobody is lost from sight as long as who leaves an entry is erased.    *)
  <1>7. ASSUME \A t \in Session : PlayersOf(t) \subseteq PlayersOf(t)' \cup Erasing' \cup swept,
               Erasing \subseteq Erasing',
               DOMAIN tokens' \subseteq DOMAIN tokens,
               \A t \in DOMAIN tokens' : tokens'[t] = tokens[t]
        PROVE  TokenLeadsToPlayer' /\ NewcomerPlays'
    <2>1. TokenLeadsToPlayer'
      <3>1. ASSUME NEW t \in DOMAIN tokens', NEW u \in Session, u = session_of[tokens[t]]
            PROVE  tokens[t] \in PlayersOf(u)' \cup Erasing' \cup swept
        BY <1>4, <1>7, <3>1 DEF TokenLeadsToPlayer
      <3> QED
        BY <1>1, <1>6, <1>7, <3>1 DEF TokenLeadsToPlayer
    <2>2. NewcomerPlays'
      <3>1. CASE join.step \in {"add token", "add token id"}
        <4>1. ASSUME NEW u \in Session, u = join.session
              PROVE  next_player - 1 \in PlayersOf(u)' \cup Erasing' \cup swept
          BY <1>4, <1>7, <3>1, <4>1 DEF NewcomerPlays
        <4>2. join.session \in Session
          BY <1>6, <3>1
        <4>3. next_player - 1 \in dogs[join.session] \cup stalled
          BY <1>4, <3>1 DEF NewcomerPlays
        <4> QED
          BY <1>1, <3>1, <4>1, <4>2, <4>3 DEF NewcomerPlays
      <3>2. CASE join.step \notin {"add token", "add token id"}
        BY <1>1, <1>4, <3>2 DEF NewcomerPlays
      <3> QED
        BY <3>1, <3>2
    <2> QED
      BY <2>1, <2>2
  <1>8. ASSUME \A t \in Session : PlayersOf(t)' \subseteq PlayersOf(t), UNCHANGED token_of
        PROVE  PlayersHaveTokens'
    BY <1>1, <1>4, <1>5, <1>8 DEF PlayersHaveTokens
  <1>9. ASSUME UNCHANGED <<players_, erasing, token_of>>,
               DOMAIN tokens' \subseteq DOMAIN tokens,
               \A t \in DOMAIN tokens' : tokens'[t] = tokens[t],
               removal'[s] \in {"commit", "loop", "token id"}
                 \/ removal[s] \in {"size", "entry", "list", "token"}
        PROVE  InPlay'
    <2>1. Erasing' = Erasing /\ \A t \in Session : PlayersOf(t)' = PlayersOf(t)
      BY <1>9 DEF Erasing, PlayersOf
    <2>2. TokenLeadsToPlayer' /\ NewcomerPlays'
      BY <1>7, <1>9, <2>1
    <2>3. DogsHavePlayers'
      BY <1>1, <1>4, <2>1 DEF DogsHavePlayers
    <2>4. PlayersHaveTokens'
      BY <1>8, <1>9, <2>1
    <2>5. LeaversHaveTokens'
      BY <1>1, <1>3, <1>4, <1>9 DEF LeaversHaveTokens
    <2> QED
      BY <2>2, <2>3, <2>4, <2>5 DEF InPlay
  <1>10. CASE Throws(s) \/ Copies(s) \/ Faults(s) \/ Skips(s) \/ Measures(s) \/ ErasesSession(s)
    <2>1. UNCHANGED <<players_, tokens, token_of, erasing>>
      BY <1>10 DEF Throws, Copies, Faults, Skips, Measures, ErasesSession
    <2>2. CASE Faults(s)
      <3>1. UNCHANGED removal
        BY <2>2 DEF Faults
      <3>2. Erasing' = Erasing /\ \A t \in Session : PlayersOf(t)' = PlayersOf(t)
        BY <2>1 DEF Erasing, PlayersOf
      <3>3. TokenLeadsToPlayer' /\ NewcomerPlays'
        BY <1>7, <2>1, <3>2
      <3>4. DogsHavePlayers'
        BY <1>1, <1>4, <3>2 DEF DogsHavePlayers
      <3>5. PlayersHaveTokens'
        BY <1>8, <2>1, <3>2
      <3>6. LeaversHaveTokens'
        BY <1>1, <1>4, <2>1, <3>1 DEF LeaversHaveTokens
      <3> QED
        BY <3>3, <3>4, <3>5, <3>6 DEF InPlay
    <2>3. CASE ~Faults(s)
      <3>1. \/ removal'[s] \in {"commit", "loop", "token id"}
            \/ removal[s] \in {"size", "entry", "list", "token"}
        BY <1>10, <2>3 DEF Throws, Copies, Skips, Measures, ErasesSession
      <3> QED
        BY <1>9, <2>1, <3>1
    <2> QED
      BY <2>2, <2>3
  <1>11. ASSUME NEW p \in Player, Erases(s, p) PROVE InPlay'
    <2>1. /\ UNCHANGED <<tokens, token_of>> /\ removal[s] = "loop" /\ removal'[s] = "size"
          /\ p \in PlayersOf(s) /\ p \notin dogs[s]
          /\ PlayersOf(s)' = PlayersOf(s) \ {p} /\ erasing'[s] = {p}
      BY <1>11 DEF Erases
    <2>2. erasing[s] = {}
      BY <2>1 DEF Owners, OwnersOf
    <2>3. p \in Erasing' /\ Erasing \subseteq Erasing'
      BY <1>3, <2>1, <2>2 DEF Erasing
    <2>4. \A t \in Session : /\ PlayersOf(t)' \subseteq PlayersOf(t)
                             /\ PlayersOf(t) \subseteq PlayersOf(t)' \cup Erasing'
      BY <1>3, <2>1, <2>3
    <2>5. TokenLeadsToPlayer' /\ NewcomerPlays'
      BY <1>7, <2>1, <2>3, <2>4
    <2>6. DogsHavePlayers'
      <3>1. ASSUME NEW t \in Session, NEW q \in dogs[t], q \in PlayersOf(t)
            PROVE  q \in PlayersOf(t)'
        BY <1>3, <2>1, <3>1
      <3> QED
        BY <1>1, <1>4, <3>1 DEF DogsHavePlayers
    <2>7. PlayersHaveTokens'
      BY <1>8, <2>1, <2>4
    <2>8. p \in DOMAIN token_of \cup stalled
      <3>1. p # next_player /\ session_of[p] = s
        BY <2>1, PeopleFacts
      <3>2. CASE p \in Joining
        <4>1. join.step \in {"add token", "add token id"} /\ p = next_player - 1
          BY <3>1, <3>2 DEF Joining
        <4>2. session_of[next_player - 1] = join.session
          BY <4>1, JoinFacts
        <4> QED
          BY <1>4, <2>1, <3>1, <4>1, <4>2 DEF NewcomerPlays
      <3> QED
        BY <1>4, <2>1, <3>2 DEF PlayersHaveTokens
    <2>9. LeaversHaveTokens'
      BY <1>1, <1>3, <1>4, <2>1, <2>8 DEF LeaversHaveTokens
    <2> QED
      BY <2>5, <2>6, <2>7, <2>9 DEF InPlay
  <1>12. CASE ErasesEntry(s)
    <2>1. /\ UNCHANGED <<tokens, token_of, erasing>> /\ removal[s] = "entry" /\ removal'[s] = "list"
          /\ PlayersOf(s)' = {}
      BY <1>12 DEF ErasesEntry
    <2>2. PlayersOf(s) \subseteq swept
      BY <2>1 DEF Removals, RemovalOf
    <2>3. Erasing' = Erasing
      BY <2>1 DEF Erasing
    <2>4. \A t \in Session : /\ PlayersOf(t)' \subseteq PlayersOf(t)
                             /\ PlayersOf(t) \subseteq PlayersOf(t)' \cup swept
      BY <1>3, <2>1, <2>2
    <2>5. TokenLeadsToPlayer' /\ NewcomerPlays'
      BY <1>7, <2>1, <2>3, <2>4
    <2>6. DogsHavePlayers'
      BY <1>1, <1>4, <2>4 DEF DogsHavePlayers
    <2>7. PlayersHaveTokens'
      BY <1>8, <2>1, <2>4
    <2>8. LeaversHaveTokens'
      BY <1>1, <1>3, <1>4, <2>1 DEF LeaversHaveTokens
    <2> QED
      BY <2>5, <2>6, <2>7, <2>8 DEF InPlay
  <1>13. ASSUME NEW p \in Player, ErasesToken(s, p) PROVE InPlay'
    <2>1. /\ UNCHANGED <<players_, token_of, erasing>>
          /\ removal'[s] = "token id" /\ tokens' = Drop(tokens, token_of[p])
      BY <1>13 DEF ErasesToken
    <2>2. DOMAIN tokens' \subseteq DOMAIN tokens /\ \A t \in DOMAIN tokens' : tokens'[t] = tokens[t]
      BY <2>1 DEF Drop
    <2> QED
      BY <1>9, <2>1, <2>2
  <1>14. ASSUME NEW p \in Player, ErasesTokenId(s, p) PROVE InPlay'
    <2>1. /\ UNCHANGED <<players_, tokens>> /\ removal[s] = "token id" /\ removal'[s] = "loop"
          /\ p \in erasing[s] /\ erasing'[s] = {}
      BY <1>14 DEF ErasesTokenId
    <2>2. DOMAIN token_of' = DOMAIN token_of \ {p}
      <3>1. token_of' = Drop(token_of, p)
        BY <1>14 DEF ErasesTokenId
      <3> QED
        BY <3>1 DEF Drop
    <2>3. erasing[s] = {p} /\ \A t \in DOMAIN tokens : tokens[t] # p
      <3>1. \A q \in erasing[s] : q = p
        BY <2>1, OneErased
      <3>2. \A t \in DOMAIN tokens : tokens[t] # p
        BY <2>1 DEF TokensInStep
      <3> QED
        BY <2>1, <3>1, <3>2
    <2>4. Erasing \subseteq Erasing' \cup {p}
      BY <1>3, <2>1, <2>3 DEF Erasing
    <2>5. p # next_player /\ session_of[p] = s /\ p \in 0 .. next_player - 1
      BY <2>1, PeopleFacts
    <2>6. /\ \A t \in Session : p \notin PlayersOf(t) \cup dogs[t]
          /\ \A t \in Session \ {s} : p \notin erasing[t]
      <3>1. p \notin PlayersOf(s) /\ p \notin dogs[s]
        BY <2>1, OneErased
      <3>2. ASSUME NEW t \in Session \ {s} PROVE p \notin PlayersOf(t) \cup dogs[t] \cup erasing[t]
        <4>1. ~Belongs(p, t)
          BY <2>5, <3>2 DEF Belongs
        <4> QED
          BY <2>5, <4>1 DEF Owners, OwnersOf
      <3> QED
        BY <3>1, <3>2
    <2>7. \A t \in Session : PlayersOf(t)' = PlayersOf(t)
      BY <2>1 DEF PlayersOf
    <2>8. TokenLeadsToPlayer'
      <3>1. ASSUME NEW t \in DOMAIN tokens, NEW u \in Session, u = session_of[tokens[t]]
            PROVE  tokens[t] \in PlayersOf(u)' \cup Erasing' \cup swept
        BY <1>4, <2>3, <2>4, <2>7, <3>1 DEF TokenLeadsToPlayer
      <3> QED
        BY <1>1, <1>6, <2>1, <3>1 DEF TokenLeadsToPlayer
    <2>9. DogsHavePlayers'
      BY <1>1, <1>4, <2>7 DEF DogsHavePlayers
    <2>10. PlayersHaveTokens'
      BY <1>1, <1>4, <1>5, <2>2, <2>6, <2>7 DEF PlayersHaveTokens
    <2>11. NewcomerPlays'
      <3>1. CASE join.step \in {"add token", "add token id"}
        <4>1. next_player - 1 # p
          BY <2>1, <3>1 DEF TokensInStep
        <4>2. ASSUME NEW u \in Session, u = join.session
              PROVE  next_player - 1 \in PlayersOf(u)' \cup Erasing' \cup swept
          BY <1>4, <2>4, <2>7, <3>1, <4>1, <4>2 DEF NewcomerPlays
        <4>3. join.session \in Session /\ next_player - 1 \in dogs[join.session] \cup stalled
          BY <1>4, <1>6, <3>1 DEF NewcomerPlays
        <4> QED
          BY <1>1, <3>1, <4>2, <4>3 DEF NewcomerPlays
      <3>2. CASE join.step \notin {"add token", "add token id"}
        BY <1>1, <1>4, <3>2 DEF NewcomerPlays
      <3> QED
        BY <3>1, <3>2
    <2>12. LeaversHaveTokens'
      BY <1>1, <1>3, <1>4, <2>1, <2>2, <2>6 DEF LeaversHaveTokens
    <2> QED
      BY <2>8, <2>9, <2>10, <2>11, <2>12 DEF InPlay
  <1> QED
    BY <1>2, <1>10, <1>11, <1>12, <1>13, <1>14

-----------------------------------------------------------------------------
(* A session is listed with its players.                                   *)

LEMMA ListedSame ==
  ASSUME UNCHANGED <<slots, size>> PROVE Listed' = Listed
  BY DEF Listed

LEMMA ListedFacts ==
  ASSUME Shapes, Slots PROVE Listed \subseteq Session
  <1> SUFFICES ASSUME NEW i \in 1 .. size PROVE slots[i] \in Session
    BY DEF Listed
  <1>1. /\ Len(slots) \in Nat /\ size \in Nat /\ size <= Len(slots)
        /\ slots \in [1 .. Len(slots) -> Session \cup {Null}]
    BY SlotsFacts DEF Shapes
  <1>2. i \in 1 .. Len(slots)
    BY <1>1
  <1> QED
    BY <1>1, <1>2 DEF Slots

LEMMA InhabitedJoin ==
  ASSUME Shapes, Slots, Inhabited, Join
  PROVE  Inhabited'
  <1>1. UNCHANGED removal
    BY JoinSteps DEF JoinFrame
  <1>2. /\ join \in JoinRecord /\ next_player \in Nat
        /\ join.step # "none" => join.session \in Session
    BY JoinFacts
  <1>3. ASSUME UNCHANGED <<slots, size, players_>>,
               \/ join.step \notin {"index", "add dog", "add player"}
               \/ /\ join'.step \in {"index", "add dog", "add player"}
                  /\ join'.session = join.session
        PROVE  Inhabited'
    <2>1. Listed' = Listed /\ \A s : PlayersOf(s)' = PlayersOf(s)
      BY <1>3, ListedSame DEF PlayersOf
    <2> QED
      BY <1>1, <1>3, <2>1 DEF Inhabited
  <1>4. CASE \/ \E m \in Maps : JoinGameFound(m) \/ JoinGameNew(m)
             \/ JoinGameUnknown \/ (\E t \in Tokens : JoinAddToken(t)) \/ JoinAddTokenId
             \/ RunSession
    <2>1. UNCHANGED <<slots, size, players_>>
      BY <1>4 DEF JoinGameFound, JoinGameNew, JoinGameUnknown, JoinAddToken, JoinAddTokenId,
                  RunSession, session_vars, player_vars
    <2>2. join.step \notin {"index", "add dog", "add player"}
      BY <1>4, NoJoinFacts DEF JoinGameFound, JoinGameNew, JoinGameUnknown, ApiIsFree,
                               JoinAddToken, JoinAddTokenId, RunSession
    <2> QED
      BY <1>3, <2>1, <2>2
  <1>5. CASE AppendSession
    <2>1. /\ UNCHANGED players_ /\ size' = size + 1 /\ join.step = "append"
      BY <1>5 DEF AppendSession, player_vars
    <2>2. join' = [join EXCEPT !.step = "index"]
      BY <1>5 DEF AppendSession
    <2>3. join'.step = "index" /\ join'.session = join.session
      BY <1>2, <2>2, JoinGoesOn DEF JoinStep
    <2>4. /\ Len(slots) \in Nat /\ size \in Nat /\ size <= Len(slots)
          /\ DOMAIN slots = 1 .. Len(slots) /\ slots \in Seq(Session \cup {Null})
      BY SlotsFacts DEF Shapes, TypeOK
    <2>5. \A i \in 1 .. size' : slots'[i] = join.session \/ (i \in 1 .. size /\ slots'[i] = slots[i])
      <3>1. CASE size = Len(slots)
        <4>1. slots' = Append(slots, join.session)
          BY <1>5, <3>1 DEF AppendSession
        <4>2. /\ Append(slots, join.session)[Len(slots) + 1] = join.session
              /\ \A i \in 1 .. Len(slots) : Append(slots, join.session)[i] = slots[i]
          BY <1>2, <2>1, <2>4, AppendProperties
        <4> QED
          BY <2>1, <2>4, <3>1, <4>1, <4>2
      <3>2. CASE size # Len(slots)
        <4>1. slots' = [slots EXCEPT ![size + 1] = join.session]
          BY <1>5, <3>2 DEF AppendSession
        <4>2. size + 1 \in 1 .. Len(slots)
          <5>1. size \in Nat /\ Len(slots) \in Nat /\ size <= Len(slots)
            BY <2>4
          <5> QED
            BY <3>2, <5>1
        <4>3. \A j \in 1 .. Len(slots) : [slots EXCEPT ![size + 1] = join.session][j] =
                 IF j = size + 1 THEN join.session ELSE slots[j]
          BY <2>4, <4>2
        <4>4. ASSUME NEW i \in 1 .. size + 1 PROVE i \in 1 .. Len(slots) /\ (i \in 1 .. size \/ i = size + 1)
          BY <2>4, <4>2
        <4> QED
          BY <2>1, <4>1, <4>3, <4>4
      <3> QED
        BY <3>1, <3>2
    <2>6. Listed' \subseteq Listed \cup {join.session}
      BY <2>5 DEF Listed
    <2>7. \A s : PlayersOf(s)' = PlayersOf(s)
      BY <2>1 DEF PlayersOf
    <2>8. ASSUME NEW s \in Listed'
          PROVE  \/ PlayersOf(s)' # {} \/ join'.session = s \/ removal[s] \in {"size", "entry", "list"}
      BY <2>1, <2>3, <2>6, <2>7 DEF Inhabited
    <2> QED
      BY <1>1, <2>3, <2>8 DEF Inhabited
  <1>6. CASE IndexSession
    <2>1. UNCHANGED <<slots, size, players_>>
      BY <1>6 DEF IndexSession, player_vars
    <2>2. join' = [join EXCEPT !.step = "add dog"]
      BY <1>6 DEF IndexSession
    <2>3. join'.step = "add dog" /\ join'.session = join.session
      BY <1>2, <2>2, JoinGoesOn DEF JoinStep
    <2> QED
      BY <1>3, <2>1, <2>3
  <1>7. CASE JoinAddDog
    <2>1. UNCHANGED <<slots, size, players_>>
      BY <1>7 DEF JoinAddDog, session_vars, player_vars
    <2>2. join' = [join EXCEPT !.step = "add player"]
      BY <1>7 DEF JoinAddDog
    <2>3. join'.step = "add player" /\ join'.session = join.session
      BY <1>2, <2>2, JoinGoesOn DEF JoinStep
    <2> QED
      BY <1>3, <2>1, <2>3
  <1>8. CASE JoinAddPlayer
    <2>1. UNCHANGED <<slots, size>>
      BY <1>8 DEF JoinAddPlayer, session_vars
    <2>2. players_' = Put(players_, join.session, PlayersOf(join.session) \cup {next_player})
      BY <1>8 DEF JoinAddPlayer
    <2>3. \A s : /\ PlayersOf(s) \subseteq PlayersOf(s)'
                 /\ s = join.session => PlayersOf(s)' # {}
      BY <2>2 DEF PlayersOf, Put
    <2>4. Listed' = Listed
      BY <2>1, ListedSame
    <2> QED
      BY <1>1, <2>3, <2>4 DEF Inhabited
  <1> QED
    BY <1>4, <1>5, <1>6, <1>7, <1>8 DEF Join

LEMMA InhabitedTick ==
  ASSUME Shapes, Slots, Inhabited, Retire \/ Tick
  PROVE  Inhabited'
  <1>1. UNCHANGED <<slots, size, players_, join>>
    BY TickSteps DEF TickFrame
  <1>2. Listed' = Listed /\ \A s : PlayersOf(s)' = PlayersOf(s)
    BY <1>1, ListedSame DEF PlayersOf
  <1>3. CASE Ticks
    <2>1. UNCHANGED removal
      BY <1>3 DEF Ticks
    <2> QED
      BY <1>1, <1>2, <2>1 DEF Inhabited
  <1>4. ASSUME NEW t \in Session, NEW retired \in SUBSET Player, Retires(t, retired)
        PROVE  Inhabited'
    <2>1. /\ removal[t] = "loop"
          /\ \A s \in Session \ {t} : removal'[s] = removal[s]
      BY <1>4 DEF Retires
    <2> QED
      BY <1>1, <1>2, <2>1, ListedFacts DEF Inhabited
  <1> QED
    BY <1>3, <1>4, TickSteps

LEMMA InhabitedRemove ==
  ASSUME Shapes, Slots, OneSlot, Inhabited, Remove
  PROVE  Inhabited' /\ Slots' /\ OneSlot'
  <1>1. UNCHANGED <<join, session_id, index>>
    BY RemoveSteps DEF RemoveFrame
  <1>2. PICK t \in Session :
           /\ Others(t)
           /\ \/ Throws(t) \/ Copies(t) \/ Faults(t) \/ Skips(t) \/ \E p \in Player : Erases(t, p)
              \/ Measures(t) \/ ErasesEntry(t) \/ ErasesSession(t)
              \/ \E p \in Player : ErasesToken(t, p) \/ ErasesTokenId(t, p)
    BY RemoveSteps
  <1>3. /\ Listed \subseteq Session
        /\ \A s \in Session \ {t} : removal'[s] = removal[s] /\ PlayersOf(s)' = PlayersOf(s)
    BY <1>2, ListedFacts DEF Others
  <1>4. ASSUME Listed' \subseteq Listed,
               t \in Listed' =>
                  \/ removal'[t] \in {"size", "entry", "list"}
                  \/ PlayersOf(t)' # {}
                  \/ PlayersOf(t)' = PlayersOf(t) /\ removal[t] \notin {"size", "entry", "list"}
        PROVE  Inhabited'
    BY <1>1, <1>3, <1>4 DEF Inhabited
  <1>5. CASE ErasesSession(t)
    <2>1. EraseSession(t)
      BY <1>5 DEF ErasesSession
    <2>2. Slots' /\ OneSlot' /\ Listed' = Listed \ {t}
      BY <1>1, <2>1, SlotsErase
    <2> QED
      BY <1>4, <2>2
  <1>6. CASE ~ErasesSession(t)
    <2>1. UNCHANGED <<slots, size>>
      BY <1>2, <1>6 DEF Throws, Copies, Faults, Skips, Erases, Measures, ErasesEntry, ErasesToken,
                        ErasesTokenId
    <2>2. Slots' /\ OneSlot'
      BY <1>1, <2>1, SlotsSame
    <2>3. Listed' = Listed
      BY <2>1, ListedSame
    <2>4. CASE Throws(t) \/ Copies(t) \/ Skips(t) \/ \E p \in Player : ErasesToken(t, p) \/ ErasesTokenId(t, p)
      <3>1. UNCHANGED players_ /\ removal[t] \notin {"size", "entry", "list"}
        BY <2>4 DEF Throws, Copies, Skips, ErasesToken, ErasesTokenId
      <3>2. PlayersOf(t)' = PlayersOf(t)
        BY <3>1 DEF PlayersOf
      <3> QED
        BY <1>4, <2>2, <2>3, <3>1, <3>2
    <2>5. CASE Faults(t)
      <3>1. UNCHANGED <<players_, removal>>
        BY <2>5 DEF Faults
      <3>2. PlayersOf(t)' = PlayersOf(t)
        BY <3>1 DEF PlayersOf
      <3> QED
        BY <1>4, <2>2, <2>3, <3>1, <3>2
    <2>6. CASE \/ ErasesEntry(t) \/ \E p \in Player : Erases(t, p)
      <3>1. removal'[t] \in {"size", "list"}
        BY <2>6 DEF ErasesEntry, Erases
      <3> QED
        BY <1>4, <2>2, <2>3, <3>1
    <2>7. CASE Measures(t)
      <3>1. UNCHANGED players_ /\ removal'[t] = IF PlayersOf(t) = {} THEN "entry" ELSE "token"
        BY <2>7 DEF Measures
      <3>2. PlayersOf(t)' = PlayersOf(t)
        BY <3>1 DEF PlayersOf
      <3> QED
        BY <1>4, <2>2, <2>3, <3>1, <3>2
    <2> QED
      BY <1>2, <1>6, <2>4, <2>5, <2>6, <2>7
  <1> QED
    BY <1>5, <1>6

-----------------------------------------------------------------------------
(* What goes wrong has a reason.                                           *)

LEMMA FirstSlot ==
  ASSUME Shapes, OneSlot, join = NoJoin, session_id <= 1
  PROVE  /\ \A m \in DOMAIN index : Found(m) # Null
         /\ \A i \in 1 .. Len(slots) : slots[i] # Null
  <1>1. join.step \notin {"append", "index"}
    BY NoJoinFacts
  <1>2. session_id \in Nat /\ Null \notin Nat
    BY SlotsFacts, ConstantsAssumption DEF Shapes
  <1>3. CASE session_id = 0
    <2>1. DOMAIN index = {} /\ Len(slots) = 0
      BY <1>1, <1>3 DEF OneSlot
    <2> QED
      BY <2>1
  <1>4. CASE session_id = 1
    <2>1. Len(slots) = 1 /\ slots[1] = 0 /\ \A m \in DOMAIN index : index[m] = 1
      BY <1>1, <1>4 DEF OneSlot
    <2>2. \A m \in DOMAIN index : Found(m) = 0
      BY <2>1 DEF Found
    <2> QED
      BY <1>2, <2>1, <2>2
  <1> QED
    BY <1>2, <1>3, <1>4

LEMMA FailuresJoin ==
  ASSUME Shapes, OneSlot, FailuresHaveReasons, Join
  PROVE  FailuresHaveReasons'
  <1>1. UNCHANGED stalled
    BY JoinSteps DEF JoinFrame
  <1>2. swept \subseteq swept'
    BY JoinSteps DEF Approaches, AddsDog, AddsPlayer, AddsToken, AddsTokenId
  <1>3. session_id \in Nat
    BY SlotsFacts DEF Shapes
  <1>4. session_id' \in Nat /\ session_id <= session_id'
    <2>1. session_id' = session_id \/ session_id' = session_id + 1
      BY DEF Join, JoinGameFound, JoinGameNew, JoinGameUnknown, AppendSession, IndexSession,
             JoinAddDog, JoinAddPlayer, JoinAddToken, JoinAddTokenId, RunSession, session_vars
    <2> QED
      BY <1>3, <2>1
  <1>5. \/ UNCHANGED crashed \/ crashed' = crashed \cup {"unknown map"}
        \/ /\ crashed' = crashed \cup {"empty slot"} /\ session_id > 1
    <2>1. ASSUME NEW m \in Maps, JoinGameFound(m), Found(m) = Null
          PROVE  crashed' = crashed \cup {"empty slot"} /\ session_id > 1
      <3>1. join = NoJoin /\ m \in DOMAIN index /\ crashed' = crashed \cup {"empty slot"}
        BY <2>1 DEF JoinGameFound, ApiIsFree, Fail
      <3>2. ~(session_id <= 1)
        BY <2>1, <3>1, FirstSlot
      <3>3. session_id > 1
        BY <1>3, <3>2
      <3> QED
        BY <3>1, <3>3
    <2>2. ASSUME NEW m \in Maps, JoinGameFound(m), Found(m) # Null
          PROVE  UNCHANGED crashed
      BY <2>2 DEF JoinGameFound
    <2>3. JoinGameUnknown => crashed' = crashed \cup {"unknown map"}
      BY DEF JoinGameUnknown, Fail
    <2>4. \/ \E m \in Maps : JoinGameNew(m)
          \/ AppendSession \/ IndexSession \/ JoinAddDog \/ JoinAddPlayer
          \/ \E t \in Tokens : JoinAddToken(t)
          \/ JoinAddTokenId \/ RunSession
          => UNCHANGED crashed
      BY DEF JoinGameNew, AppendSession, IndexSession, JoinAddDog, JoinAddPlayer, JoinAddToken,
             JoinAddTokenId, RunSession
    <2> QED
      BY <2>1, <2>2, <2>3, <2>4 DEF Join
  <1>6. session_id > 1 => session_id' > 1
    BY <1>3, <1>4
  <1> QED
    BY <1>1, <1>2, <1>5, <1>6 DEF FailuresHaveReasons

LEMMA FailuresTick ==
  ASSUME Shapes, OneSlot, FailuresHaveReasons, Retire \/ Tick
  PROVE  FailuresHaveReasons'
  <1>1. UNCHANGED <<session_id, swept>>
    BY TickSteps DEF TickFrame
  <1>2. stalled \subseteq stalled'
    BY TickSteps DEF Ticks, Retires
  <1>3. session_id \in Nat
    BY SlotsFacts DEF Shapes
  <1>4. UNCHANGED crashed \/ (crashed' = crashed \cup {"empty slot"} /\ session_id > 1)
    <2>1. CASE UNCHANGED crashed
      BY <2>1
    <2>2. CASE ~UNCHANGED crashed
      <3>1. /\ crashed' = crashed \cup {"empty slot"} /\ join = NoJoin
            /\ \E i \in 1 .. Len(slots) : slots[i] = Null
        BY <2>2, TickSteps DEF Ticks, Retires
      <3>2. ~(session_id <= 1)
        BY <3>1, FirstSlot
      <3>3. session_id > 1
        BY <1>3, <3>2
      <3> QED
        BY <3>1, <3>3
    <2> QED
      BY <2>1, <2>2
  <1> QED
    BY <1>1, <1>2, <1>4 DEF FailuresHaveReasons

LEMMA FailuresRemove ==
  ASSUME Shapes, Removals, InPlay, FailuresHaveReasons, Remove
  PROVE  FailuresHaveReasons'
  <1>1. UNCHANGED <<session_id, swept, stalled>>
    BY RemoveSteps DEF RemoveFrame
  <1>2. PICK s \in Session :
           /\ Others(s)
           /\ \/ Throws(s) \/ Copies(s) \/ Faults(s) \/ Skips(s) \/ \E p \in Player : Erases(s, p)
              \/ Measures(s) \/ ErasesEntry(s) \/ ErasesSession(s)
              \/ \E p \in Player : ErasesToken(s, p) \/ ErasesTokenId(s, p)
    BY RemoveSteps
  <1>3. RemovalOf(s)
    BY DEF Removals
  <1>4. CASE Throws(s)
    <2>1. \/ crashed' = crashed \cup {"commit"}
          \/ crashed' = crashed \cup {"no entry"} /\ swept \cup stalled # {}
      BY <1>3, <1>4 DEF Throws, RemovalOf
    <2> QED
      BY <1>1, <2>1 DEF FailuresHaveReasons
  <1>5. CASE Faults(s)
    <2>1. crashed' = crashed \cup {"no token"} /\ stalled # {}
      <3>1. \/ /\ crashed' = crashed \cup {"entry gone"}
               /\ \/ ~(leaving[s] \subseteq PlayersOf(s))
                  \/ removal[s] \in {"size", "entry"} /\ s \notin DOMAIN players_
            \/ /\ crashed' = crashed \cup {"no token"}
               /\ removal[s] = "token" /\ ~(erasing[s] \subseteq DOMAIN token_of)
        BY <1>5 DEF Faults
      <3>2. removal[s] = "token" => erasing[s] \subseteq DOMAIN token_of \cup stalled
        BY DEF InPlay, LeaversHaveTokens
      <3> QED
        BY <1>3, <3>1, <3>2 DEF RemovalOf
    <2> QED
      BY <1>1, <2>1 DEF FailuresHaveReasons
  <1>6. CASE ~Throws(s) /\ ~Faults(s)
    <2>1. UNCHANGED crashed
      BY <1>2, <1>6 DEF Copies, Skips, Erases, Measures, ErasesEntry, ErasesSession, ErasesToken,
                        ErasesTokenId
    <2> QED
      BY <1>1, <2>1 DEF FailuresHaveReasons
  <1> QED
    BY <1>4, <1>5, <1>6

-----------------------------------------------------------------------------
(* The invariant is inductive.                                             *)

LEMMA InvInit == Init => Inv
  <1> SUFFICES ASSUME Init PROVE Inv
    OBVIOUS
  <1>1. Shapes /\ Slots /\ OneSlot
    BY ShapesInit, SlotsInit
  <1>2. /\ \A s \in Session : /\ dogs[s] = {} /\ leaving[s] = {} /\ erasing[s] = {}
                              /\ removal[s] = "loop" /\ PlayersOf(s) = {}
        /\ join.step = "none" /\ DOMAIN tokens = {} /\ DOMAIN token_of = {} /\ crashed = {}
    BY NoJoinFacts DEF Init, PlayersOf
  <1>3. Owners /\ Removals
    BY <1>2 DEF Owners, OwnersOf, Removals, RemovalOf
  <1>4. TokensInStep
    BY <1>2 DEF TokensInStep, TokenMapsAgree
  <1>5. InPlay
    BY <1>2 DEF InPlay, TokenLeadsToPlayer, DogsHavePlayers, PlayersHaveTokens, NewcomerPlays,
                LeaversHaveTokens
  <1>6. Inhabited
    <2>1. Listed = {}
      BY DEF Init, Listed
    <2> QED
      BY <2>1 DEF Inhabited
  <1>7. FailuresHaveReasons
    BY <1>2 DEF FailuresHaveReasons
  <1> QED
    BY <1>1, <1>3, <1>4, <1>5, <1>6, <1>7 DEF Inv

LEMMA InvStep == Inv /\ [Next]_vars => Inv'
  <1> SUFFICES ASSUME Inv, [Next]_vars PROVE Inv'
    OBVIOUS
  <1>1. /\ Shapes /\ Slots /\ OneSlot /\ Owners /\ Removals /\ TokensInStep /\ InPlay
        /\ Inhabited /\ FailuresHaveReasons
    BY DEF Inv
  <1>2. CASE Join
    <2>1. Shapes' /\ Slots' /\ OneSlot'
      BY <1>1, <1>2, JoinShapes, SlotsJoin
    <2>2. Owners' /\ Removals' /\ TokensInStep' /\ InPlay'
      BY <1>1, <1>2, OwnersJoin, RemovalsJoin, TokensJoin, InPlayJoin
    <2>3. Inhabited' /\ FailuresHaveReasons'
      BY <1>1, <1>2, InhabitedJoin, FailuresJoin
    <2> QED
      BY <2>1, <2>2, <2>3 DEF Inv
  <1>3. CASE Retire \/ Tick
    <2>1. Shapes' /\ Slots' /\ OneSlot'
      <3>1. Shapes'
        BY <1>1, <1>3, RetireShapes, TickShapes
      <3>2. UNCHANGED <<slots, size, session_id, index, join>>
        BY <1>1, <1>3, TickSteps DEF TickFrame
      <3> QED
        BY <1>1, <3>1, <3>2, SlotsSame
    <2>2. Owners' /\ Removals' /\ TokensInStep' /\ InPlay'
      BY <1>1, <1>3, OwnersTick, RemovalsTick, TokensTick, InPlayTick
    <2>3. Inhabited' /\ FailuresHaveReasons'
      BY <1>1, <1>3, InhabitedTick, FailuresTick
    <2> QED
      BY <2>1, <2>2, <2>3 DEF Inv
  <1>4. CASE Remove
    <2>1. Shapes' /\ Inhabited' /\ Slots' /\ OneSlot'
      BY <1>1, <1>4, RemoveShapes, InhabitedRemove
    <2>2. Owners' /\ Removals' /\ TokensInStep' /\ InPlay'
      BY <1>1, <1>4, OwnersRemove, RemovalsRemove, TokensRemove, InPlayRemove
    <2>3. FailuresHaveReasons'
      BY <1>1, <1>4, FailuresRemove
    <2> QED
      BY <2>1, <2>2, <2>3 DEF Inv
  <1>5. CASE UNCHANGED vars
    <2>1. /\ UNCHANGED <<slots, size, session_id, map_of, index, running, dogs, players_,
                         next_player, session_of, asked, tokens, token_of, join>>
          /\ UNCHANGED <<removal, leaving, erasing, ticker, tick, due, crashed, swept, stalled>>
      BY <1>5 DEF vars
    <2>2. Shapes' /\ Slots' /\ OneSlot'
      <3>1. Shapes'
        BY <1>1, <2>1 DEF Shapes, TypeOK, JoinType
      <3> QED
        BY <1>1, <2>1, <3>1, SlotsSame
    <2>3. Listed' = Listed /\ Joining' = Joining /\ Erasing' = Erasing
          /\ \A s : PlayersOf(s)' = PlayersOf(s)
      BY <2>1 DEF Listed, Joining, Erasing, PlayersOf
    <2>4. Owners' /\ Removals'
      <3> SUFFICES ASSUME NEW s \in Session PROVE OwnersOf(s)' /\ RemovalOf(s)'
        BY DEF Owners, Removals
      <3>1. OwnersOf(s) /\ RemovalOf(s) /\ PlayersOf(s)' = PlayersOf(s)
        BY <1>1, <2>3 DEF Owners, Removals
      <3>2. /\ dogs'[s] \subseteq dogs[s] /\ erasing'[s] = erasing[s]
            /\ removal'[s] = removal[s] /\ leaving'[s] = leaving[s]
            /\ UNCHANGED <<next_player, session_of, join, players_>>
            /\ swept \subseteq swept' /\ stalled \subseteq stalled'
        BY <2>1
      <3>3. OwnersOf(s)'
        BY <3>1, <3>2, OwnersSame
      <3> QED
        BY <3>1, <3>2, <3>3, RemovalsSame
    <2>5. TokensInStep'
      BY <1>1, <2>1, TokensSame
    <2>6. InPlay'
      BY <1>1, <2>1, <2>3 DEF InPlay, TokenLeadsToPlayer, DogsHavePlayers, PlayersHaveTokens,
                              NewcomerPlays, LeaversHaveTokens
    <2>7. Inhabited' /\ FailuresHaveReasons'
      BY <1>1, <2>1, <2>3 DEF Inhabited, FailuresHaveReasons
    <2> QED
      BY <2>2, <2>4, <2>5, <2>6, <2>7 DEF Inv
  <1> QED
    BY <1>2, <1>3, <1>4, <1>5 DEF Next

LEMMA InvHolds == Spec => []Inv
  BY InvInit, InvStep, PTL DEF Spec

-----------------------------------------------------------------------------
(* The containers keep their shapes, and sessions_ never has more elements *)
(* than memory, whatever joins and removals interleave.                    *)
THEOREM TypesHold == Spec => []TypeOK
  <1>1. Inv => TypeOK
    BY DEF Inv, Shapes
  <1> QED
    BY <1>1, InvHolds, PTL

(* The maps of PlayersToken disagree only in the one player between two    *)
(* writes, though each is written in a step of its own.                    *)
THEOREM TokenMapsStayInverse == Spec => []TokenMapsAgree
  <1>1. Inv => TokenMapsAgree
    BY DEF Inv, TokensInStep
  <1> QED
    BY <1>1, InvHolds, PTL

(* A token that is accepted leads to a player in the entry of its session, *)
(* but for one being removed, and those whose entry was erased with the    *)
(* session they joined.                                                    *)
THEOREM TokensLeadToPlayers == Spec => []TokenLeadsToPlayer
  <1>1. Inv => TokenLeadsToPlayer
    BY DEF Inv, InPlay
  <1> QED
    BY <1>1, InvHolds, PTL

(* Whose join is over and whose dog is in play has a token, and a player   *)
(* unless its entry was erased with the session it joined.                 *)
THEOREM DogsStaySteerable == Spec => []DogsCanBeSteered
  <1>1. Inv => DogsCanBeSteered
    <2> SUFFICES ASSUME Inv, NEW s \in Session, NEW p \in dogs[s], p \notin Joining
                 PROVE  /\ p \notin swept => p \in PlayersOf(s)
                        /\ p \in DOMAIN token_of
      BY DEF DogsCanBeSteered
    <2>1. p \in PlayersOf(s) \cup swept
      BY DEF Inv, InPlay, DogsHavePlayers, Joining
    <2>2. p \in DOMAIN token_of
      BY DEF Inv, InPlay, PlayersHaveTokens
    <2> QED
      BY <2>1, <2>2
  <1> QED
    BY <1>1, InvHolds, PTL

(* SaveGame finds the entry of every session listed, but while a session   *)
(* begins or ends.                                                         *)
THEOREM ListedSessionsAreInhabited == Spec => []ListedSessionsHavePlayers
  <1>1. Inv => ListedSessionsHavePlayers
    BY JoinFacts DEF Inv, Inhabited, ListedSessionsHavePlayers
  <1> QED
    BY <1>1, InvHolds, PTL

(* A removal never misses the entry or the player it erases; an entry or a *)
(* token is missing only after somebody joined while the session ended, or *)
(* was retired while joining, and an empty slot is only met in a game that *)
(* has had two sessions.                                                   *)
THEOREM FailuresAreExplained == Spec => []FailuresHaveReasons
  <1>1. Inv => FailuresHaveReasons
    BY DEF Inv
  <1> QED
    BY <1>1, InvHolds, PTL

(* A token that goes on being accepted goes on standing for its player.    *)
THEOREM TokensKeepTheirPlayers == Spec => TokenKeepsItsPlayer
  <1>1. ASSUME Inv, [Next]_vars
        PROVE  \A t \in DOMAIN tokens \cap DOMAIN tokens' : tokens'[t] = tokens[t]
    <2>1. CASE UNCHANGED tokens
      BY <2>1
    <2>2. CASE ~UNCHANGED tokens
      <3>1. Join \/ Remove
        BY <1>1, <2>2 DEF Next, vars, Retire, Tick, RetireDogs, RetireNobody, BeginTick,
                          TickSession, token_vars
      <3>2. CASE Join
        <4>1. PICK new \in Tokens : AddsToken(new)
          BY <1>1, <2>2, <3>2, JoinSteps DEF Inv, Approaches, AddsDog, AddsPlayer, AddsTokenId
        <4>2. new \notin DOMAIN tokens /\ tokens' = Put(tokens, new, next_player - 1)
          BY <4>1 DEF AddsToken
        <4> QED
          BY <4>2 DEF Put
      <3>3. CASE Remove
        BY <2>2, <3>3, <1>1, RemoveSteps
           DEF Inv, Throws, Copies, Faults, Skips, Erases, Measures, ErasesEntry, ErasesSession,
               ErasesToken, ErasesTokenId, Drop
      <3> QED
        BY <3>1, <3>2, <3>3
    <2> QED
      BY <2>1, <2>2
  <1> QED
    BY <1>1, InvHolds, PTL DEF Spec, TokenKeepsItsPlayer
=============================================================================
