----------------------------- MODULE GameClient -----------------------------
(***************************************************************************)
(* The page a player plays on (class GameState of src/static/js/game.js)   *)
(* against the server it polls.                                            *)
(*                                                                         *)
(* The page asks for two things, each at its own pace: the state of the    *)
(* game (players, their bags, lost objects) and the list of players.  A    *)
(* reply is drawn up when the server handles the request and is applied    *)
(* when it arrives; the flags that look as if they kept polls apart are    *)
(* reset in the same callback that sets them, so that polls overlap.       *)
(* Callbacks of the page are atomic: a browser runs them one at a time.    *)
(*                                                                         *)
(* Where objects are drawn, how they turn and how scores are written is    *)
(* left out.  So is the pace: any tick of the page may poll.               *)
(***************************************************************************)
EXTENDS Integers, Sequences, FiniteSets

CONSTANTS
    Player,       \* ids of players, of which the page sees the lesser first
    playerId,     \* the player at this page
    Loot,         \* ids of loot
    MaxStates,    \* bound: states on their way to the page at a time
    MaxLists,     \* bound: lists on their way to the page at a time
    MaxEvents     \* bound: how often anything happens that the page has not started

ASSUME ConstantsAssumption ==
    /\ Player \subseteq Nat /\ playerId \in Player
    /\ IsFiniteSet(Player) /\ IsFiniteSet(Loot) /\ Loot \subseteq Nat
    /\ MaxStates \in Nat \ {0} /\ MaxLists \in Nat \ {0} /\ MaxEvents \in Nat

VARIABLES
    \* The server.
    joined,         \* players_ of the session: whom both replies list
    newcomers,      \* players who have not joined yet
    token,          \* is the token of this page's player accepted?
    bag,            \* player -> loot in the bag of its dog
    unborn,         \* loot the generator has not made yet
    lost,           \* loot that lies on the map
    \* Between the two.
    asking,         \* which of the first two requests the server has not handled
    stateReplies,   \* states on their way to the page, in the order they were made
    listReplies,    \* lists of players on their way to the page
    \* The page.
    page,           \* the game, or the table of records
    stateLoaded,    \* has the first state arrived?
    playersLoaded,  \* has the first list arrived?
    desiredState,   \* the first state, while the list has not arrived
    players,        \* players that have an actor
    current,        \* players of currentState
    held,           \* player -> its data.bag: loot -> object
    lostObjects,    \* loot -> object that hovers on the map
    disappearingLoot, \* loot -> object that is about to vanish
    scene,          \* the objects that are drawn
    \* The history.
    events,         \* how often something has happened from outside
    mishaps         \* what has gone out of the way

server == <<joined, newcomers, token, bag, unborn, lost>>
polls == <<asking, stateReplies, listReplies>>
view == <<stateLoaded, playersLoaded, desiredState, players, current, held,
          lostObjects, disappearingLoot, scene>>

vars == <<server, polls, view, page, events, mishaps>>

(* The ways in which timing, traffic or the server go out of the way:      *)
(*   "late"    a reply is overtaken by one of its kind that was made       *)
(*             later, or a player leaves before the page shows it as it is *)
(*   "shared"  two dogs take one object in the same tick                   *)
Mishap == {"late", "shared"}

Unauthorized == [bags |-> <<>>, lost |-> {}]
NoPlayers == {}

started == stateLoaded /\ playersLoaded

NoObjects == <<>>

(* Objects of the scene are told apart by their loot, by whom they were    *)
(* made for, which is nobody on the map, and by a number.                  *)
Held == UNION {{held[p][l] : l \in DOMAIN held[p]} : p \in Player}
Lying == {lostObjects[l] : l \in DOMAIN lostObjects}
Vanishing == {disappearingLoot[l] : l \in DOMAIN disappearingLoot}
Objects == scene \cup Held \cup Lying \cup Vanishing

Without(s, i) == [k \in 1 .. Len(s) - 1 |-> IF k < i THEN s[k] ELSE s[k + 1]]

-----------------------------------------------------------------------------
(* The page is opened by a player who has just joined; its constructor     *)
(* asks for the state and the list.                                        *)
Init ==
    /\ \E others \in SUBSET (Player \ {playerId}) :
          joined = {playerId} \cup others /\ newcomers = Player \ joined
    /\ token = TRUE
    /\ bag = [p \in Player |-> {}]
    /\ unborn = Loot /\ lost = {}
    /\ asking = {"state", "list"} /\ stateReplies = <<>> /\ listReplies = <<>>
    /\ page = "game"
    /\ stateLoaded = FALSE /\ playersLoaded = FALSE /\ desiredState = Unauthorized
    /\ players = {} /\ current = {}
    /\ held = [p \in Player |-> NoObjects]
    /\ lostObjects = NoObjects /\ disappearingLoot = NoObjects /\ scene = {}
    /\ events = 0 /\ mishaps = {}

-----------------------------------------------------------------------------
(* The game on the server.                                                 *)

Join(p) ==
    /\ p \in newcomers
    /\ newcomers' = newcomers \ {p}
    /\ joined' = joined \cup {p}
    /\ UNCHANGED <<token, bag, unborn, lost, mishaps>>

GenerateLoot(l) ==
    /\ l \in unborn
    /\ unborn' = unborn \ {l}
    /\ lost' = lost \cup {l}
    /\ UNCHANGED <<joined, newcomers, token, bag, mishaps>>

(* A tick looks items up in a snapshot: two dogs may take the same one.    *)
Gather(gatherers, l) ==
    /\ l \in lost
    /\ gatherers \subseteq joined /\ gatherers # {}
    /\ lost' = lost \ {l}
    /\ bag' = [p \in Player |-> IF p \in gatherers THEN bag[p] \cup {l} ELSE bag[p]]
    /\ mishaps' = IF Cardinality(gatherers) > 1 THEN mishaps \cup {"shared"} ELSE mishaps
    /\ UNCHANGED <<joined, newcomers, token, unborn>>

VisitOffice(p) ==
    /\ p \in joined /\ bag[p] # {}
    /\ bag' = [bag EXCEPT ![p] = {}]
    /\ UNCHANGED <<joined, newcomers, token, unborn, lost, mishaps>>

(* A player is retired after seconds of standing still; by then the page   *)
(* has long listed it, and no reply on its way shows its bag otherwise.    *)
Settled(p) ==
    /\ started /\ p \in players \cap current
    /\ DOMAIN held[p] = bag[p]
    /\ \A i \in 1 .. Len(stateReplies) :
          p \in DOMAIN stateReplies[i].bags /\ stateReplies[i].bags[p] = bag[p]

(* The end of a game, in a tick that has taken the dog out of play: the    *)
(* entry of the player is erased, and then the token.                      *)
ErasePlayer(p) ==
    /\ p \in joined
    /\ joined' = joined \ {p}
    /\ bag' = [bag EXCEPT ![p] = {}]
    /\ mishaps' = IF Settled(p) THEN mishaps ELSE mishaps \cup {"late"}
    /\ UNCHANGED <<newcomers, token, unborn, lost>>

EraseToken ==
    /\ token /\ playerId \notin joined
    /\ token' = FALSE
    /\ UNCHANGED <<joined, newcomers, bag, unborn, lost, mishaps>>

Happens == events < MaxEvents /\ events' = events + 1

Play ==
    /\ \/ /\ Happens
          /\ \/ \E p \in Player : Join(p) \/ VisitOffice(p) \/ ErasePlayer(p)
             \/ \E l \in Loot : GenerateLoot(l)
             \/ \E l \in Loot : \E gatherers \in SUBSET Player : Gather(gatherers, l)
       \/ UNCHANGED events /\ EraseToken
    /\ UNCHANGED <<polls, view, page>>

-----------------------------------------------------------------------------
(* The API.  A token that is not accepted any more is answered 401, and so *)
(* is one whose session has nobody left (what else may happen then is the  *)
(* subject of Application).                                                *)
State == IF token /\ joined # {} THEN [bags |-> [p \in joined |-> bag[p]], lost |-> lost]
         ELSE Unauthorized

List == IF token THEN joined ELSE NoPlayers

(* The server handles one of the requests of the constructor.              *)
HandleFirst(kind) ==
    /\ kind \in asking
    /\ asking' = asking \ {kind}
    /\ IF kind = "state"
       THEN stateReplies' = Append(stateReplies, State) /\ UNCHANGED listReplies
       ELSE listReplies' = Append(listReplies, List) /\ UNCHANGED stateReplies
    /\ UNCHANGED <<server, view, page, events, mishaps>>

(* One of them fails.  Nobody repeats it.  (A poll that fails is as good   *)
(* as none: the next one follows.)                                         *)
FirstFails(kind) ==
    /\ kind \in asking
    /\ Happens
    /\ asking' = asking \ {kind}
    /\ UNCHANGED <<server, stateReplies, listReplies, view, page, mishaps>>

-----------------------------------------------------------------------------
(* What the page makes of a state.                                         *)

(* The data.bag that a player of the state goes on with.  A player that    *)
(* comes (back) into the state gets a new one.                             *)
OldBag(p) == IF p \in current THEN held[p] ELSE NoObjects

Abandoned(x) == DOMAIN lostObjects \ x.lost

Lacking(x, p) == IF p \in DOMAIN x.bags THEN x.bags[p] \ DOMAIN OldBag(p) ELSE {}

(* An object that is in a bag now and was abandoned on the map goes to the *)
(* first player that lacks it.                                             *)
Takes(x, p, l) ==
    /\ l \in Abandoned(x) \cap Lacking(x, p)
    /\ \A q \in Player : q < p => l \notin Lacking(x, q)

(* For all others that lack it _createLoot makes a new object.             *)
Creates(x, p, l) == l \in Lacking(x, p) /\ ~Takes(x, p, l)

NewObject(l, whom) ==
    LET used == {o[3] : o \in {x \in Objects : x[1] = l /\ x[2] = whom}}
    IN  <<l, whom, CHOOSE n \in 0 .. Cardinality(used) : n \notin used>>

(* _processLostObjects, _attachLootToPlayers: the bag of a player.         *)
NewBag(x, p) ==
    [l \in x.bags[p] |->
        CASE l \in DOMAIN OldBag(p) -> OldBag(p)[l]
          [] Takes(x, p, l)         -> lostObjects[l]
          [] OTHER                  -> NewObject(l, {p})]

(* _dropLoot, once for each object that lost its place.  The entry is made *)
(* under the id of the loot, so that the last object dropped is kept.      *)
(* Bug: what went into a bag is not taken off the abandoned.               *)
LeftOverTaken(x) == Abandoned(x)

LeftOver(x) == {l \in Abandoned(x) : \A p \in Player : ~Takes(x, p, l)}

Dropping(x, l) == {p \in DOMAIN x.bags : l \in DOMAIN OldBag(p) \ x.bags[p]}

Dropped(x) ==
    [l \in DOMAIN disappearingLoot \cup LeftOver(x) \cup {m \in Loot : Dropping(x, m) # {}} |->
        CASE l \in LeftOver(x)     -> lostObjects[l]
          [] l \notin LeftOver(x) /\ Dropping(x, l) # {} ->
                held[CHOOSE p \in Dropping(x, l) : \A q \in Dropping(x, l) : q <= p][l]
          [] OTHER                 -> disappearingLoot[l]]

(* _applyDesiredState.  The bag of a player who is not in the state any    *)
(* more is still known to the player's actor, if there is one.             *)
ApplyState(x) ==
    /\ lostObjects' = [l \in x.lost |-> IF l \in DOMAIN lostObjects THEN lostObjects[l]
                                        ELSE NewObject(l, {})]
    /\ held' = [p \in Player |-> CASE p \in DOMAIN x.bags -> NewBag(x, p)
                                   [] p \notin DOMAIN x.bags /\ p \in players' -> held[p]
                                   [] OTHER -> NoObjects]
    /\ current' = DOMAIN x.bags
    /\ disappearingLoot' = Dropped(x)
    /\ scene' = scene \cup {lostObjects'[l] : l \in x.lost}
                      \cup UNION {{held'[p][l] : l \in {m \in x.bags[p] : Creates(x, p, m)}} :
                                     p \in DOMAIN x.bags}

(* _updatePlayersList.  The bag of a player who has left goes off the      *)
(* scene with the actor; the state may still have the player.              *)
(* Bug: the objects stay in the scene.                                     *)
UpdatePlayersListOnly(ps) ==
    /\ players' = ps
    /\ held' = [p \in Player |-> IF p \in (players \ ps) \ current THEN NoObjects ELSE held[p]]
    /\ UNCHANGED <<current, scene, lostObjects, disappearingLoot>>

(* Bug: whoever is not in the state is not added.                          *)
UpdatePlayersListOfState(ps) ==
    /\ players' = players \cap ps
    /\ UNCHANGED <<current, scene, held, lostObjects, disappearingLoot>>

UpdatePlayersList(ps) ==
    LET gone == players \ ps
    IN  /\ players' = ps
        /\ held' = [p \in Player |-> IF p \in gone \ current THEN NoObjects ELSE held[p]]
        /\ scene' = scene \ UNION {{held[p][l] : l \in DOMAIN held[p]} : p \in gone}
        /\ UNCHANGED <<current, lostObjects, disappearingLoot>>

(* A reply arrives.  Before both first replies are there nothing is shown: *)
(* _startGame applies the state it finds with the one that comes last.  A  *)
(* state that was refused is dropped without a word.                       *)
Reorders(i) == mishaps' = IF i > 1 THEN mishaps \cup {"late"} ELSE mishaps

ArriveState(i) ==
    /\ i \in 1 .. Len(stateReplies)
    /\ stateReplies' = Without(stateReplies, i)
    /\ Reorders(i)
    /\ LET x == stateReplies[i]
       IN  IF x = Unauthorized
           THEN UNCHANGED view
           ELSE /\ stateLoaded' = TRUE
                /\ UNCHANGED <<players, playersLoaded>>
                /\ IF playersLoaded
                   THEN ApplyState(x) /\ UNCHANGED desiredState
                   ELSE /\ desiredState' = x
                        /\ UNCHANGED <<current, held, lostObjects, disappearingLoot, scene>>
    /\ UNCHANGED <<server, asking, listReplies, page, events>>

ArriveList(i) ==
    /\ i \in 1 .. Len(listReplies)
    /\ listReplies' = Without(listReplies, i)
    /\ Reorders(i)
    /\ LET ps == listReplies[i]
       IN  IF ps = NoPlayers
           THEN page' = "records" /\ UNCHANGED view
           ELSE /\ playersLoaded' = TRUE
                /\ UNCHANGED <<page, stateLoaded>>
                /\ IF stateLoaded /\ ~playersLoaded
                   THEN /\ players' = ps
                        /\ ApplyState(desiredState)
                        /\ desiredState' = Unauthorized
                   ELSE UpdatePlayersList(ps) /\ UNCHANGED desiredState
    /\ UNCHANGED <<server, asking, stateReplies, events>>

(* What has been disappearing for a second goes off the scene.             *)
ProcessDisappearingLoot(due) ==
    /\ due \subseteq DOMAIN disappearingLoot
    /\ disappearingLoot' = [l \in DOMAIN disappearingLoot \ due |-> disappearingLoot[l]]
    /\ scene' = scene \ {disappearingLoot[l] : l \in due}

(* A tick of the page: polls, and the loot that has vanished long enough.  *)
(* How long a request takes to reach the server is made part of how long   *)
(* the reply takes to come back.  A reply that says what the one before it *)
(* says is left out: the page would make nothing of it.                    *)
Says(replies, reply) == \E i \in 1 .. Len(replies) : i = Len(replies) /\ replies[i] = reply

Tick(askState, askList, due) ==
    /\ started
    /\ IF askState
       THEN /\ Len(stateReplies) < MaxStates /\ ~Says(stateReplies, State)
            /\ stateReplies' = Append(stateReplies, State)
       ELSE UNCHANGED stateReplies
    /\ IF askList
       THEN /\ Len(listReplies) < MaxLists /\ ~Says(listReplies, List)
            /\ listReplies' = Append(listReplies, List)
       ELSE UNCHANGED listReplies
    /\ ProcessDisappearingLoot(due)
    /\ UNCHANGED <<server, asking, stateLoaded, playersLoaded,
                   desiredState, players, current, held, lostObjects, page, events, mishaps>>

-----------------------------------------------------------------------------
Next ==
    /\ page = "game"
    /\ \/ Play
       \/ \E kind \in asking : HandleFirst(kind) \/ FirstFails(kind)
       \/ \E i \in 1 .. Len(stateReplies) : ArriveState(i)
       \/ \E i \in 1 .. Len(listReplies) : ArriveList(i)
       \/ \E askState, askList \in BOOLEAN : \E due \in SUBSET DOMAIN disappearingLoot :
             Tick(askState, askList, due)

Spec == Init /\ [][Next]_vars

(* The page ticks with the frames of the browser and polls at a fixed      *)
(* share of the ticks, the server answers what it is asked, and what it    *)
(* has answered arrives.  Nobody has to play.                              *)
OnPage(A) == page = "game" /\ A

Fairness ==
    /\ WF_vars(OnPage(\E due \in SUBSET DOMAIN disappearingLoot : Tick(TRUE, FALSE, due)))
    /\ WF_vars(OnPage(\E due \in SUBSET DOMAIN disappearingLoot : Tick(FALSE, TRUE, due)))
    /\ WF_vars(OnPage(disappearingLoot # NoObjects
                      /\ Tick(FALSE, FALSE, DOMAIN disappearingLoot)))
    /\ WF_vars(OnPage(HandleFirst("state"))) /\ WF_vars(OnPage(HandleFirst("list")))
    /\ WF_vars(OnPage(ArriveState(1))) /\ WF_vars(OnPage(ArriveList(1)))

FairSpec == Spec /\ Fairness

-----------------------------------------------------------------------------
(* Properties.                                                             *)

TypeOK ==
    /\ joined \subseteq Player /\ newcomers \subseteq Player \ joined
    /\ {token, stateLoaded, playersLoaded} \subseteq BOOLEAN
    /\ bag \in [Player -> SUBSET Loot] /\ unborn \subseteq Loot /\ lost \subseteq Loot
    /\ asking \subseteq {"state", "list"}
    /\ Len(stateReplies) \in 0 .. MaxStates /\ Len(listReplies) \in 0 .. MaxLists
    /\ \A x \in {stateReplies[i] : i \in 1 .. Len(stateReplies)} \cup {desiredState} :
          /\ x.lost \subseteq Loot /\ DOMAIN x.bags \subseteq Player
          /\ \A p \in DOMAIN x.bags : x.bags[p] \subseteq Loot
    /\ listReplies \in Seq(SUBSET Player)
    /\ page \in {"game", "records"}
    /\ players \subseteq Player /\ current \subseteq Player
    /\ DOMAIN held = Player /\ \A p \in Player : DOMAIN held[p] \subseteq Loot
    /\ DOMAIN lostObjects \subseteq Loot /\ DOMAIN disappearingLoot \subseteq Loot
    /\ scene \subseteq Loot \X (SUBSET Player) \X Nat
    /\ events \in 0 .. MaxEvents /\ mishaps \subseteq Mishap

(* An object has one place: it lies on the map, is in one bag, or          *)
(* vanishes.  What was abandoned and went into a bag must not be dropped   *)
(* as well (the delete in _attachLootToPlayers), or it would fade from the *)
(* bag a second later.                                                     *)
HasOnePlace ==
    /\ Lying \cap Vanishing = {}
    /\ Held \cap (Lying \cup Vanishing) = {}
    /\ \A p, q \in Player : \A l \in DOMAIN held[p] : \A m \in DOMAIN held[q] :
          held[p][l] = held[q][m] => p = q /\ l = m

(* Nothing stays in the scene that nobody will ever remove: each object is *)
(* known to the map, to a bag or to what vanishes.  That is so unless a    *)
(* reply was overtaken, an object was taken twice, or a player left before *)
(* the page had caught up with it.                                         *)
NoGhosts ==
    mishaps \cap {"late", "shared"} = {} =>
        scene \subseteq Held \cup Lying \cup Vanishing

(* What the dog of a player on the page carries is drawn; deletions of     *)
(* players, which reach into bags by way of shared records, never hit one  *)
(* that is still there.                                                    *)
CarriedLootIsVisible ==
    "late" \notin mishaps =>
        \A p \in players \cap current : \A l \in DOMAIN held[p] : held[p][l] \in scene

(* The page catches up: once the game rests, the players, their bags and   *)
(* the lost objects on a page that has started are those of the server,    *)
(* whatever was overtaken, failed or left before.                          *)
ShowsTheGame ==
    /\ players = joined /\ current = joined
    /\ \A p \in joined : DOMAIN held[p] = bag[p]
    /\ DOMAIN lostObjects = lost
    /\ disappearingLoot = NoObjects

PageShowsTheGame ==
    <>[](page = "game" /\ started /\ token => ShowsTheGame)
=============================================================================
