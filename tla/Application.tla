---------------------------- MODULE Application ----------------------------
(***************************************************************************)
(* The application above the sessions: the vector of sessions and the      *)
(* index that finds the session of a map, the players of each session and  *)
(* the tokens that stand for players (src/src/app/application.cpp,         *)
(* use_cases.cpp and player.cpp).                                          *)
(*                                                                         *)
(* JoinGame runs on the API strand.  The end of a game runs on the strand  *)
(* of the session, and calls back into the application, which removes the  *)
(* players.  Nothing guards the application's containers, so both are cut  *)
(* at every write to one, and their steps interleave.                      *)
(*                                                                         *)
(* A server that was started without a tick period has no tickers: ticks   *)
(* come as requests, each of which loops over sessions_ and dispatches a   *)
(* tick to the strand of every session, where it runs at once, or later if *)
(* the strand is busy (it may also be generating loot).                    *)
(***************************************************************************)
EXTENDS Integers, Sequences, FiniteSets

CONSTANTS
    Maps,          \* the maps of the game
    Tokens,        \* the tokens a generator may come up with
    Null,          \* an empty shared_ptr
    DbMayFail,     \* may committing the records of leavers throw?
    MaxPlayers,    \* bound: how many players ever join
    MaxSessions    \* bound: how many sessions are ever created

ASSUME ConstantsAssumption ==
    /\ Null \notin Nat
    /\ DbMayFail \in BOOLEAN
    /\ MaxPlayers \in Nat /\ MaxSessions \in Nat
    /\ Cardinality(Tokens) > MaxPlayers

VARIABLES
    slots,        \* the memory of the vector sessions_
    size,         \* how many of the slots sessions_ has
    session_id,   \* the next session id
    map_of,       \* session -> its map
    index,        \* map -> slot where its session was put
    running,      \* sessions that are ticked
    dogs,         \* session -> its dogs, named after their players
    players_,     \* session -> its players, where there is an entry
    next_player,  \* the next player id
    session_of,   \* player -> session
    tokens,       \* token -> player
    token_of,     \* player -> token (players_id_to_token)
    join,         \* the JoinGame under way on the API strand
    removal,      \* session -> where the end of its tick is
    leaving,      \* session -> players its RemoveInactivePlayers has yet to visit
    erasing,      \* session -> the player it is removing, if any
    asked,        \* player -> the map that was asked for
    ticker,       \* was the server started with a tick period?
    tick,         \* the loop of TickUseCase::Tick under way on the API strand
    due,          \* sessions for which a dispatched tick has yet to run
    crashed,      \* what has gone wrong: exceptions that escaped, and faults
    swept,        \* players added to an entry that was about to be erased
    stalled       \* players whose dog was retired before their join was over

vars == <<slots, size, session_id, map_of, index, running, dogs, players_, next_player,
          session_of, tokens, token_of, join, removal, leaving, erasing, asked, ticker, tick,
          due, crashed, swept, stalled>>

session_vars == <<slots, size, session_id, map_of, index>>
player_vars == <<players_, next_player, session_of, asked, swept>>
token_vars == <<tokens, token_of>>
loop_vars == <<removal, leaving, erasing>>
tick_vars == <<ticker, tick, due>>

Session == 0 .. MaxSessions - 1
Player == 0 .. MaxPlayers - 1

Put(f, k, v) == [x \in DOMAIN f \cup {k} |-> IF x = k THEN v ELSE f[x]]
Drop(f, k) == [x \in DOMAIN f \ {k} |-> f[x]]

(* Where a join is: what it writes next.  slot is the place of a session   *)
(* made for it, 0 if it has found one.                                     *)
JoinStep == {"append", "index", "add dog", "add player", "add token", "add token id", "run"}

NoJoin == [step |-> "none", session |-> Null, map |-> Null, slot |-> 0, token |-> Null]

(* Where a tick is that has retired somebody: "loop" is the head of the    *)
(* loop of RemoveInactivePlayers, and the rest of the strand's life.       *)
RemovalStep == {"commit", "loop", "size", "entry", "list", "token", "token id"}

(* A loop is at a slot, ends after the last, and waits for the session     *)
(* whose tick it runs in its own thread.                                   *)
NoTick == [at |-> 0, last |-> 0, inline |-> {}]

(* Sessions that sessions_ lists.                                          *)
Listed == {slots[i] : i \in 1 .. size}

PlayersOf(s) == IF s \in DOMAIN players_ THEN players_[s] ELSE {}

-----------------------------------------------------------------------------
Init ==
    /\ slots = <<>> /\ size = 0 /\ session_id = 0
    /\ map_of = <<>> /\ index = <<>>
    /\ running = {}
    /\ dogs = [s \in Session |-> {}] /\ players_ = <<>>
    /\ next_player = 0 /\ session_of = <<>> /\ asked = <<>>
    /\ tokens = <<>> /\ token_of = <<>>
    /\ join = NoJoin
    /\ removal = [s \in Session |-> "loop"]
    /\ leaving = [s \in Session |-> {}] /\ erasing = [s \in Session |-> {}]
    /\ ticker \in BOOLEAN /\ tick = NoTick /\ due = {}
    /\ crashed = {} /\ swept = {} /\ stalled = {}

(* An exception leaves io_context::run of its thread, which ends the       *)
(* process, unless the thread is the main one: that waits for the others,  *)
(* which go on.  A fault, where nothing is dereferenced, is always the end.*)
Exception == {"unknown map", "commit", "no entry"}
Fault == {"empty slot", "entry gone", "no token"}

Alive == crashed \cap Fault = {}

Fail(cause) == crashed' = crashed \cup {cause}

(* The API strand does one thing at a time.                                *)
ApiIsFree == join = NoJoin /\ tick = NoTick

JoinSession(s, m, slot) ==
    join' = [step |-> IF slot = 0 THEN "add dog" ELSE "append",
             session |-> s, map |-> m, slot |-> slot, token |-> Null]

(* FindSessionsByMapId answers with sessions_[index], in or out of range.  *)
(* An index once made is never corrected when sessions are erased, so the  *)
(* slot may hold another session, lie beyond the end of the vector and     *)
(* still hold what was destroyed there, or never have been written.        *)
Found(m) == IF index[m] > Len(slots) THEN Null ELSE slots[index[m]]

JoinGameFound(m) ==
    /\ ApiIsFree /\ next_player < MaxPlayers
    /\ m \in DOMAIN index
    /\ IF Found(m) = Null
       THEN Fail("empty slot") /\ UNCHANGED join
       ELSE JoinSession(Found(m), m, 0) /\ UNCHANGED crashed
    /\ UNCHANGED <<session_vars, running, dogs, player_vars, token_vars, loop_vars>>

(* AddSession makes a session and reads where in sessions_ it will be.     *)
JoinGameNew(m) ==
    /\ ApiIsFree /\ next_player < MaxPlayers
    /\ m \notin DOMAIN index /\ session_id < MaxSessions
    /\ JoinSession(session_id, m, size + 1)
    /\ map_of' = Put(map_of, session_id, m)
    /\ UNCHANGED <<slots, size, session_id, index, running, dogs, player_vars, token_vars,
                   loop_vars, crashed>>

(* A map that the game does not have: JoinGame throws, outside the try of  *)
(* the handler that called it.                                             *)
JoinGameUnknown ==
    /\ ApiIsFree
    /\ Fail("unknown map")
    /\ UNCHANGED <<session_vars, running, dogs, player_vars, token_vars, join, loop_vars>>

(* The session is put at the end of the vector as it is by now ...         *)
AppendSession ==
    /\ join.step = "append"
    /\ slots' = IF size = Len(slots) THEN Append(slots, join.session)
                ELSE [slots EXCEPT ![size + 1] = join.session]
    /\ size' = size + 1
    /\ join' = [join EXCEPT !.step = "index"]
    /\ UNCHANGED <<session_id, map_of, index, running, dogs, player_vars, token_vars,
                   loop_vars, crashed>>

(* ... and indexed where the end was before.                               *)
IndexSession ==
    /\ join.step = "index"
    /\ index' = Put(index, join.map, join.slot)
    /\ session_id' = session_id + 1
    /\ join' = [join EXCEPT !.step = "add dog"]
    /\ UNCHANGED <<slots, size, map_of, running, dogs, player_vars, token_vars, loop_vars,
                   crashed>>

(* JoinGameUseCase::Join: the dog, then the player, then the token.        *)
JoinAddDog ==
    /\ join.step = "add dog"
    /\ dogs' = [dogs EXCEPT ![join.session] = @ \cup {next_player}]
    /\ join' = [join EXCEPT !.step = "add player"]
    /\ UNCHANGED <<session_vars, running, player_vars, token_vars, loop_vars, crashed>>

JoinAddPlayer ==
    /\ join.step = "add player"
    /\ players_' = Put(players_, join.session, PlayersOf(join.session) \cup {next_player})
    /\ session_of' = Put(session_of, next_player, join.session)
    /\ asked' = Put(asked, next_player, join.map)
    /\ next_player' = next_player + 1
    /\ join' = [join EXCEPT !.step = "add token"]
    /\ swept' = IF removal[join.session] = "entry" THEN swept \cup {next_player} ELSE swept
    /\ UNCHANGED <<session_vars, running, dogs, token_vars, loop_vars, crashed>>

(* A token in use is drawn again until a free one comes up.                *)
JoinAddToken(token) ==
    /\ join.step = "add token"
    /\ token \notin DOMAIN tokens
    /\ tokens' = Put(tokens, token, next_player - 1)
    /\ join' = [join EXCEPT !.step = "add token id", !.token = token]
    /\ UNCHANGED <<session_vars, running, dogs, player_vars, token_of, loop_vars, crashed>>

JoinAddTokenId ==
    /\ join.step = "add token id"
    /\ token_of' = Put(token_of, next_player - 1, join.token)
    /\ join' = IF join.slot = 0 THEN NoJoin ELSE [join EXCEPT !.step = "run"]
    /\ UNCHANGED <<session_vars, running, dogs, player_vars, tokens, loop_vars, crashed>>

(* A session that was made for this join starts its tickers.               *)
RunSession ==
    /\ join.step = "run"
    /\ running' = running \cup {join.session}
    /\ join' = NoJoin
    /\ UNCHANGED <<session_vars, dogs, player_vars, token_vars, loop_vars, crashed>>

-----------------------------------------------------------------------------
(* The player of a join that has not come to the end of its writes.        *)
Joining ==
    CASE join.step = "add player" -> {next_player}
      [] join.step \in {"add token", "add token id"} -> {next_player - 1}
      [] OTHER -> {}

(* The tick is over, and with it the loop of RemoveInactivePlayers.        *)
BetweenTicks(s) == removal[s] = "loop" /\ leaving[s] = {}

(* A tick retires some of the dogs (GameSession tells which) ...           *)
RetireDogs(s, retired) ==
    /\ BetweenTicks(s)
    /\ ticker \/ s \in due
    /\ retired # {}
    /\ dogs' = [dogs EXCEPT ![s] = @ \ retired]
    /\ stalled' = stalled \cup (retired \cap Joining)
    /\ removal' = [removal EXCEPT ![s] = "commit"]
    /\ UNCHANGED <<session_vars, running, player_vars, token_vars, join, leaving, erasing,
                   crashed, tick_vars>>

(* ... or, if it was asked for, nobody.                                    *)
RetireNobody(s) ==
    /\ BetweenTicks(s) /\ s \in due
    /\ due' = due \ {s}
    /\ UNCHANGED <<session_vars, running, dogs, player_vars, token_vars, join, loop_vars,
                   crashed, stalled, ticker, tick>>

(* What a tick throws ends it, and a ticker does not re-arm itself then.   *)
(* The loop of a request that runs the tick goes on all the same: the      *)
(* executor keeps the exception for io_context::run.                       *)
Throw(s, cause) ==
    /\ Fail(cause)
    /\ removal' = [removal EXCEPT ![s] = "loop"]
    /\ running' = IF ticker THEN running \ {s} ELSE running
    /\ UNCHANGED leaving

(* The commit throws: the dogs are gone, the players stay.                 *)
CommitFails(s) ==
    /\ DbMayFail
    /\ removal[s] = "commit"
    /\ Throw(s, "commit")
    /\ due' = due \ {s}
    /\ UNCHANGED <<session_vars, dogs, player_vars, token_vars, join, erasing, stalled,
                   ticker, tick>>

(* The records are committed, and RemoveInactivePlayers copies the players *)
(* of the session, which throws if the session has no entry.               *)
CopyPlayers(s) ==
    /\ removal[s] = "commit"
    /\ IF s \in DOMAIN players_
       THEN /\ leaving' = [leaving EXCEPT ![s] = players_[s]]
            /\ removal' = [removal EXCEPT ![s] = "loop"]
            /\ UNCHANGED <<crashed, running>>
       ELSE Throw(s, "no entry")
    /\ due' = due \ {s}
    /\ UNCHANGED <<session_vars, dogs, player_vars, token_vars, join, erasing, stalled,
                   ticker, tick>>

(* A request for a tick.  The loop has fetched the ends of sessions_ when  *)
(* it begins, though ticks that it runs may erase sessions.                *)
BeginTick ==
    /\ ~ticker /\ ApiIsFree /\ size > 0
    /\ tick' = [at |-> 1, last |-> size, inline |-> {}]
    /\ UNCHANGED <<session_vars, running, dogs, player_vars, token_vars, join, loop_vars,
                   crashed, stalled, ticker, due>>

(* A strand that is idle runs the tick in the thread of the loop; to one   *)
(* that is busy it is only handed over.                                    *)
TickSession(inline) ==
    /\ tick # NoTick
    /\ \A s \in tick.inline : BetweenTicks(s) /\ s \notin due
    /\ IF tick.at > tick.last
       THEN tick' = NoTick /\ UNCHANGED <<due, crashed>>
       ELSE LET s == slots[tick.at]
            IN  IF s = Null
                THEN Fail("empty slot") /\ UNCHANGED <<tick, due>>
                ELSE /\ inline => BetweenTicks(s) /\ s \notin due
                     /\ due' = due \cup {s}
                     /\ tick' = [tick EXCEPT !.at = @ + 1,
                                             !.inline = IF inline THEN {s} ELSE {}]
                     /\ UNCHANGED crashed
    /\ UNCHANGED <<session_vars, running, dogs, player_vars, token_vars, join, loop_vars,
                   stalled, ticker>>

-----------------------------------------------------------------------------
(* One turn of the loop of RemoveInactivePlayers.  A player whose dog is   *)
(* in play stays; any other is erased from the session's entry.            *)
(* Bug: the dog is not looked for.                                         *)
RemoveAnyPlayer(s, p) ==
    /\ removal[s] = "loop"
    /\ leaving' = [leaving EXCEPT ![s] = @ \ {p}]
    /\ players_' = [players_ EXCEPT ![s] = @ \ {p}]
    /\ erasing' = [erasing EXCEPT ![s] = {p}]
    /\ removal' = [removal EXCEPT ![s] = "size"]
    /\ UNCHANGED <<session_vars, dogs, next_player, session_of, asked, swept, token_vars,
                   crashed>>

(* Bug: the loop ends with the first player removed.                       *)
RemoveOnePlayer(s, p) ==
    /\ removal[s] = "loop"
    /\ IF p \in dogs[s]
       THEN /\ leaving' = [leaving EXCEPT ![s] = @ \ {p}]
            /\ UNCHANGED <<players_, erasing, removal>>
       ELSE /\ leaving' = [leaving EXCEPT ![s] = {}]
            /\ players_' = [players_ EXCEPT ![s] = @ \ {p}]
            /\ erasing' = [erasing EXCEPT ![s] = {p}]
            /\ removal' = [removal EXCEPT ![s] = "size"]
    /\ UNCHANGED <<session_vars, dogs, next_player, session_of, asked, swept, token_vars,
                   crashed>>

ErasePlayerFromSession(s, p) ==
    /\ removal[s] = "loop"
    /\ IF p \notin dogs[s] /\ p \notin PlayersOf(s)
       THEN Fail("entry gone") /\ UNCHANGED <<players_, loop_vars>>
       ELSE /\ leaving' = [leaving EXCEPT ![s] = @ \ {p}]
            /\ IF p \in dogs[s]
               THEN UNCHANGED <<players_, erasing, removal>>
               ELSE /\ players_' = [players_ EXCEPT ![s] = @ \ {p}]
                    /\ erasing' = [erasing EXCEPT ![s] = {p}]
                    /\ removal' = [removal EXCEPT ![s] = "size"]
            /\ UNCHANGED crashed
    /\ UNCHANGED <<session_vars, dogs, next_player, session_of, asked, swept, token_vars>>

(* The last one takes the session along.                                   *)
(* Bug: off by one, the last but one takes the session along.              *)
CheckSizeOfOne(s) ==
    /\ removal[s] = "size"
    /\ removal' = [removal EXCEPT ![s] =
                      IF Cardinality(PlayersOf(s)) <= 1 THEN "entry" ELSE "token"]
    /\ UNCHANGED <<session_vars, dogs, player_vars, token_vars, leaving, erasing, crashed>>

CheckSize(s) ==
    /\ removal[s] = "size"
    /\ IF s \notin DOMAIN players_
       THEN Fail("entry gone") /\ UNCHANGED removal
       ELSE /\ removal' = [removal EXCEPT ![s] = IF players_[s] = {} THEN "entry" ELSE "token"]
            /\ UNCHANGED crashed
    /\ UNCHANGED <<session_vars, dogs, player_vars, token_vars, leaving, erasing>>

(* The whole entry goes, and with it who was swept: a player added since   *)
(* its size was read.                                                      *)
EraseEntry(s) ==
    /\ removal[s] = "entry"
    /\ IF s \notin DOMAIN players_
       THEN Fail("entry gone") /\ UNCHANGED <<players_, removal>>
       ELSE /\ players_' = Drop(players_, s)
            /\ removal' = [removal EXCEPT ![s] = "list"]
            /\ UNCHANGED crashed
    /\ UNCHANGED <<session_vars, dogs, next_player, session_of, asked, swept, token_vars, leaving,
                   erasing>>

(* vector::erase moves what follows one slot down; the last slot is then   *)
(* empty, unless nothing followed: it still holds what it held.            *)
(* Bug: the session stays listed.                                          *)
EraseNoSession(s) ==
    /\ removal[s] = "list"
    /\ removal' = [removal EXCEPT ![s] = "token"]
    /\ UNCHANGED <<session_vars, dogs, player_vars, token_vars, leaving, erasing, crashed>>

EraseSession(s) ==
    /\ removal[s] = "list"
    /\ IF s \in Listed
       THEN LET k == CHOOSE i \in 1 .. size : slots[i] = s
            IN  /\ slots' = [i \in DOMAIN slots |->
                                 IF i >= k /\ i < size THEN slots[i + 1]
                                 ELSE IF i = size /\ k < size THEN Null ELSE slots[i]]
                /\ size' = size - 1
       ELSE UNCHANGED <<slots, size>>
    /\ removal' = [removal EXCEPT ![s] = "token"]
    /\ UNCHANGED <<session_id, map_of, index, dogs, player_vars, token_vars, leaving, erasing,
                   crashed>>

(* EraseTokenByPlayerId looks for the token of the player and erases it    *)
(* from one map after the other.  A player whose join has not come to the  *)
(* second map yet is not found, and dereferenced all the same.             *)
EraseToken(s, p) ==
    /\ removal[s] = "token"
    /\ IF p \notin DOMAIN token_of
       THEN Fail("no token") /\ UNCHANGED <<tokens, removal>>
       ELSE /\ tokens' = Drop(tokens, token_of[p])
            /\ removal' = [removal EXCEPT ![s] = "token id"]
            /\ UNCHANGED crashed
    /\ UNCHANGED <<session_vars, dogs, player_vars, token_of, leaving, erasing>>

(* Bug: the second map keeps the token.                                    *)
KeepTokenId(s, p) ==
    /\ removal[s] = "token id"
    /\ erasing' = [erasing EXCEPT ![s] = {}]
    /\ removal' = [removal EXCEPT ![s] = "loop"]
    /\ UNCHANGED <<session_vars, dogs, player_vars, token_vars, leaving, crashed>>

EraseTokenId(s, p) ==
    /\ removal[s] = "token id"
    /\ token_of' = Drop(token_of, p)
    /\ erasing' = [erasing EXCEPT ![s] = {}]
    /\ removal' = [removal EXCEPT ![s] = "loop"]
    /\ UNCHANGED <<session_vars, dogs, player_vars, tokens, leaving, crashed>>

-----------------------------------------------------------------------------
Join ==
    /\ \/ \E m \in Maps : JoinGameFound(m) \/ JoinGameNew(m)
       \/ JoinGameUnknown
       \/ AppendSession
       \/ IndexSession
       \/ JoinAddDog
       \/ JoinAddPlayer
       \/ \E token \in Tokens : JoinAddToken(token)
       \/ JoinAddTokenId
       \/ RunSession
    /\ UNCHANGED <<tick_vars, stalled>>

Retire ==
    \E s \in running :
        \/ \E retired \in SUBSET dogs[s] : RetireDogs(s, retired)
        \/ RetireNobody(s)

Tick ==
    \/ BeginTick
    \/ \E inline \in BOOLEAN : TickSession(inline)

RemoveInactivePlayers(s) ==
    /\ \/ \E p \in leaving[s] : ErasePlayerFromSession(s, p)
       \/ CheckSize(s)
       \/ EraseEntry(s)
       \/ EraseSession(s)
       \/ \E p \in erasing[s] : EraseToken(s, p) \/ EraseTokenId(s, p)
    /\ UNCHANGED <<running, join, tick_vars, stalled>>

Remove ==
    \E s \in Session : CommitFails(s) \/ CopyPlayers(s) \/ RemoveInactivePlayers(s)

Next == Alive /\ (Join \/ Retire \/ Tick \/ Remove)

Spec == Init /\ [][Next]_vars

(* A strand goes on with what it has begun.                                *)
FairSpec == Spec /\ WF_vars(Alive /\ Remove)

-----------------------------------------------------------------------------
(* Who is between two steps of a removal.                                  *)
Erasing == UNION {erasing[s] : s \in Session}

(* Properties.                                                             *)

TypeOK ==
    /\ slots \in Seq(Session \cup {Null}) /\ size \in 0 .. Len(slots)
    /\ session_id \in 0 .. MaxSessions
    /\ map_of \in [DOMAIN map_of -> Maps] /\ DOMAIN map_of \subseteq Session
    /\ index \in [DOMAIN index -> Nat \ {0}] /\ DOMAIN index \subseteq Maps
    /\ running \subseteq Session /\ due \subseteq Session
    /\ dogs \in [Session -> SUBSET Player]
    /\ players_ \in [DOMAIN players_ -> SUBSET Player] /\ DOMAIN players_ \subseteq Session
    /\ next_player \in 0 .. MaxPlayers
    /\ session_of \in [0 .. next_player - 1 -> Session]
    /\ asked \in [0 .. next_player - 1 -> Maps]
    /\ tokens \in [DOMAIN tokens -> Player] /\ DOMAIN tokens \subseteq Tokens
    /\ token_of \in [DOMAIN token_of -> Tokens] /\ DOMAIN token_of \subseteq Player
    /\ join \in [step : JoinStep \cup {"none"}, session : Session \cup {Null},
                 map : Maps \cup {Null}, slot : Nat, token : Tokens \cup {Null}]
    /\ removal \in [Session -> RemovalStep]
    /\ leaving \in [Session -> SUBSET Player] /\ erasing \in [Session -> SUBSET Player]
    /\ ticker \in BOOLEAN /\ crashed \subseteq Exception \cup Fault
    /\ tick \in [at : Nat, last : 0 .. Len(slots), inline : SUBSET Session]
    /\ swept \subseteq Player /\ stalled \subseteq Player

(* The two maps of PlayersToken stay each other's inverse, although joins  *)
(* and removals on different strands write one after the other: they       *)
(* differ in the player who is between the two writes, and in nobody else. *)
TokenMapsAgree ==
    /\ \A t \in DOMAIN tokens :
          \/ tokens[t] \in DOMAIN token_of /\ token_of[tokens[t]] = t
          \/ join.step = "add token id" /\ join.token = t /\ tokens[t] = next_player - 1
    /\ \A p \in DOMAIN token_of :
          \/ token_of[p] \in DOMAIN tokens /\ tokens[token_of[p]] = p
          \/ \E s \in Session : removal[s] = "token id" /\ p \in erasing[s]

(* A token that is accepted leads to a player in the entry of its session: *)
(* GetGameState and ListPlayers dereference that entry, and a move is      *)
(* accepted by the state it answers.  The exceptions are a removal that is *)
(* under way, and players whose entry was erased while they joined.        *)
TokenLeadsToPlayer ==
    \A t \in DOMAIN tokens :
        tokens[t] \in PlayersOf(session_of[tokens[t]]) \cup Erasing \cup swept

(* Once its join is over a player can be steered for as long as it is in   *)
(* play: its dog has a player, and the player has a token.  No removal,    *)
(* and no failing commit, takes either away, but for the entry erased with *)
(* a newcomer in it.                                                       *)
DogsCanBeSteered ==
    \A s \in Session :
        /\ dogs[s] \ (Joining \cup swept) \subseteq PlayersOf(s)
        /\ dogs[s] \ Joining \subseteq DOMAIN token_of

(* No session is listed without players: SaveGame takes the value of the   *)
(* entry of each.  The exceptions are the session of a join under way, and *)
(* one whose last player is being removed: a save at that moment throws.   *)
ListedSessionsHavePlayers ==
    \A s \in Listed :
        \/ PlayersOf(s) # {}
        \/ join # NoJoin /\ join.session = s
        \/ removal[s] \in {"size", "entry", "list"}

(* What can go wrong in a handler has a reason.  A removal always finds    *)
(* the entry and the player that it erases; it finds no entry to copy, or  *)
(* no token, only if somebody joined while the session ended, or was       *)
(* retired while joining; and a join finds an empty slot only in a game    *)
(* that has had two sessions.                                              *)
FailuresHaveReasons ==
    /\ "entry gone" \notin crashed
    /\ "no entry" \in crashed => swept \cup stalled # {}
    /\ "no token" \in crashed => stalled # {}
    /\ "empty slot" \in crashed => session_id > 1

(* The README offers a choice of maps: a player plays on the map that was  *)
(* asked for.                                                              *)
JoinsTheChosenMap ==
    \A p \in DOMAIN asked : map_of[session_of[p]] = asked[p]

(* A token stands for one player for as long as it is accepted.            *)
TokenKeepsItsPlayer ==
    [][\A t \in DOMAIN tokens \cap DOMAIN tokens' : tokens'[t] = tokens[t]]_vars

(* When a dog is retired its player's token stops being accepted; the      *)
(* browser takes that as the end of the game.  Only players whose entry    *)
(* was erased, or whose dog was retired before they had one, keep it, and  *)
(* everybody does if a fault ends the process.                             *)
LeaversLoseTheirToken ==
    \A t \in Tokens :
        (t \in DOMAIN tokens /\ tokens[t] \notin dogs[session_of[tokens[t]]]
           /\ tokens[t] \notin swept \cup stalled)
            ~> (t \notin DOMAIN tokens \/ ~Alive)
=============================================================================
