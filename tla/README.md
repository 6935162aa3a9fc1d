# A model of DogStory

TLA+ modules, TLC configurations and TLAPS proofs for the game server in `src/src/` and
the page in `src/static/js/game.js` that plays on it.
The server keeps a game of dogs on maps: players join over an HTTP API, steer their
dogs, gather lost objects, and are retired with a record in a database when they have
been idle for too long. It runs Boost.Asio on as many threads as there are cores,
serialises *some* of its work on strands, and keeps its containers without locks.
That is where most of the questions below come from.

Paths are relative to the repository, which lies in `src/`.

## 1. Inventory

| Component (source) | State | Operations | Hard because |
|---|---|---|---|
| Game session (`app/game_session.*`) | `dogs_`, `lost_objects_`, the two next ids | `AddDog`, `SetDogDirection`, `Tick` (move, gather, retire, signal), `GenerateLoot` | ticks, moves and loot run on the session's strand, joins do not; a tick calls the database and the application in its middle |
| Dog (`model/model.*`) | place, speed, direction, bag, score, idle and play time | `SetSpeed`, `AddItemToBag`, `ClearBag`, `GetPlayTime` | whole seconds against milliseconds; idle time starts anew with every move |
| Road index (`model/model.*`) and `GameSession::MoveDog` | merged fragments per line | `MergeFragments`, `GetRoadsAtPoint`, clamping | overlapping roads, rounding between roads |
| Application (`app/application.*`) | `sessions_`, index map -> slot, next session id | `JoinGame`, `AddSession`, `RemoveInactivePlayers`, `SaveGame`, `RestoreGame` | written from the API strand and from every session's strand, saved from none; the index is never corrected |
| Players, tokens (`app/player.*`) | session -> players, token <-> player | `Add`, `AddPlayer`, erasures | two maps that must agree, up to seven writes per join and five per removal, on different strands |
| Use cases (`app/use_cases.*`) | none | `Join`, `GetGameState`, `ListPlayers`, `Move`, `Tick` | queue lambdas on strands, dereference what the application holds |
| Persistence (`game_data_store/`) | the state file | representations of sessions, players, dogs, objects | crash between steps; ids against keys after a restart |
| Connection pool (`database/connection_pool.h`) | slots, counter, mutex, condition variable | `GetConnection`, `ReturnConnection` | waiting, and notification after the unlock |
| Repository (`database/database.*`) | table `hall_of_fame` | insert in one transaction, read | may throw |
| Loot generator, collision detector (`model/`) | time without loot | `Generate`, `FindGatherEvents` | floating point |
| Ticker (`ticker.*`) | timer, last tick | `Start`, `OnTick`, `ScheduleTick` | throwing handlers, first delta |
| HTTP server, request, API and file handlers, JSON (`web/`, `json/`) | connections | read, dispatch, write | asynchronous loops; conversions |
| Main (`main.cpp`) | | wiring, threads, signals | stop and save |
| Browser client (`static/js/game.js`) | keys that are down; players, bags, lost and vanishing objects, the scene | `keyDown`, `keyUp`, `_pressKey`, `_updateState`, `_applyDesiredState`, `_syncPlayers`, `_updatePlayersList`, `tick` | two polls that overlap and overtake each other, records shared between them; posts nobody repeats |
| Map and drawing (`static/js/game_map.js`, most of `game.js`), three.js and its loaders | tiles, meshes | | not looked at: pure drawing, and third-party code |

**How they interact.** API requests run on one strand, so one join is under way at a
time. A join looks a session up or makes one, then writes the dog into the session, the
player into the application and the token into the token maps: three containers that a
tick of that session reads and writes on another strand. A tick that retires dogs calls
two signals, which commit the records (through the pool) and remove the players, their
session if it is empty, and their tokens. The autosave walks sessions, players and
tokens from a timer on no strand at all. The page posts a move for every change of its
keys, which the API strand hands to the session's strand, and polls the state and the
list of players; a refused list is how it learns that the game is over.

**What makes each correct.** A session: loot is never lost, nor on the map again once gathered
(one object may enter two bags within a tick), bags hold,
nobody overstays, one record per leaver with the right score. The application: a token
leads to its player on the map that was chosen for as long as the dog plays, and no
longer; what is dereferenced is there. (Not all of this is true of the code: see section 3.) The pool: connections are exclusive,
waiting ends. Movement: dogs stay on or beside roads and only go ahead. Persistence:
what was saved comes back as it was. Steering: the dog does what the keys say, and a move
never hurts the server. The page: an object is in one place, nothing stays in the scene
for ever, and the page catches up with the game. The hazards behind these are listed, each at its
line, in `PROJECT.json`.

## 2. Modules

| Module | Models |
|---|---|
| `GameSession` | one session, its dogs and records. `Tick` is cut into phases: `MoveDogs` (moving, snapshot, detection), one `Gather` per event, `EndGather`, `RetireDogs`, `CommitGameRecords` or `CommitFails`. Between any two a join's `AddDog` may fall. The removal of players at the end of a tick touches nothing that a session holds and is in `Application` |
| `PlayerLifecycle` | the abstract promise of a session: you enter once, leave once, and get one record, which says the score you left with |
| `Application` | sessions, index, players, tokens. A join is up to seven steps, the removal of one player up to five, and they interleave with each other and with ticks that come as requests |
| `Steering` | one player from the keyboard to the dog: keys, posts, the API strand, the session's strand with its ticks, its loot and its queue, the end of the game |
| `GameClient` | the page: its two polls against a small game, what it makes of states and lists, its scene |
| `ConnectionPool` | the pool and the threads that query through it |
| `ResourcePool` | the abstract promise of a pool: lend what is free, to one holder |
| `RoadIndex` | the road index, a pure algorithm with a recursive function for the loop |
| `DogMovement` | one dog on the roads of one map, uses `RoadIndex` |
| `HttpServer` | connections and the requests on them: accepting, reading, the API strand, writing, errors, timeouts, exceptions |
| `SavedGame` | saving, crashing and starting again, with ids and keys kept apart |
| `MC...` | small instances for TLC |
| `GameSessionProofs`, `ConnectionPoolProofs`, `ApplicationProofs`, `SteeringProofs`, `GameClientProofs`, `HttpServerProofs`, `SavedGameProofs`, `DogMovementProofs` | the theorems |

The modules meet at the operations they share, each of which one of them models in its
steps and the others by what it does to them: a tick is cut into phases in `GameSession`;
`Application` takes from it that some dogs are retired, and removes their players; `Steering`
needs of both only when the dog and its token go; `GameClient` only what players, bags
and lost objects a reply may show.

Operators with a comment that begins *Bug:* are plausible mistakes in the
definition after them; nothing uses them but the check that each property fails when
the mistake replaces the definition.

### Correspondence

* Names are the code's where they can be: `dogs_`, `lost_objects_`, `players_`,
  `used_connections_`, and an action is called like the function whose step it is.
  `PROJECT.json` ("map") gives the lines of each definition.
* `GameSession` names a dog by its id. `speed_` is told apart as zero or not; `score_`
  and the bag are the *sets* of objects delivered and carried, so that a lost or doubled
  object shows, where a number would hide it. Which dog passes which item in a tick is
  left open: `MoveDogs` chooses any set of pairs of the snapshot and `Gather` takes them
  in any order. A standing dog also gathers (its gatherer has length), so it may be in a
  pair too.
* `GameSession` compares times as the code does, cut down to whole seconds of
  `MsPerSecond` milliseconds each. `live_time_` stops counting at `MaxLive`, which an
  assumption keeps beyond every idle time.
* `Application` keeps the *memory* of the vector `sessions_` (`slots`) besides its
  `size`: the code reads beyond the end after an erasure. An emptied slot is `Null`; the
  last slot of a vector that shrank to nothing still shows the destroyed pointer's
  session, which its tickers keep alive. Reading there is undefined behaviour, and this
  is the outcome that the build gives.
* `Application` cuts joins and removals at every write that another strand can see. A join
  reads the size of `sessions_` (`JoinGameNew`, `application.cpp:91`), appends
  (`AppendSession`, 96), indexes (`IndexSession`, 97-105), and writes the dog, the player,
  the token and the player's token (`JoinAddDog`, `JoinAddPlayer`, `JoinAddToken`,
  `JoinAddTokenId`); a session that is new then starts to tick (`RunSession`). A removal
  copies the players (`CopyPlayers`, 252) and for each whose dog is gone erases the player
  (`ErasePlayerFromSession`, 257), looks at the size (`CheckSize`, 258), and, where it is
  zero, erases the entry (`EraseEntry`, 259) and the session (`EraseSession`, 260-266);
  then both halves of the token (`EraseToken`, `EraseTokenId`, `player.cpp:90`, 91).
* A search and the write or the dereference right after it in one container count as one
  step: `find` and `emplace` in `Players::Add`, the loop that finds the session to erase,
  the reading of a session's dogs (255) with the erasure of the player (257), as a dog never
  comes back. The index and the next session id are only used on the API strand. Two
  operations of one container that overlap in time are a data race with no outcome to reason
  about, so the models say nothing of it: what they find is wrong even if each operation were
  locked.
* Requests that only read, and the autosave, change none of this and are no actions. What
  they take for granted are invariants: `TokenLeadsToPlayer` for `GetGameState` and
  `ListPlayers`, `ListedSessionsHavePlayers` for `SaveGame`. Where one of them names an
  exception, a request or a save at that moment dereferences nothing.
* A server started without a tick period has no tickers. Then `TickUseCase::Tick` loops
  over `sessions_` on the API strand: `BeginTick` fetches the ends of the vector, as a
  range `for` does, and `TickSession` takes one session, whose tick it runs *inline* if
  the strand is idle and leaves in `due` if it is busy. The loop waits for an inline tick
  and reads the next slot after it.
* Exceptions. What a tick throws does not reach `ApiHandler::Tick`, even if the tick runs
  inline: the executor of an `io_context` keeps it and `io_context::run` throws it, so the
  loop goes on (`Throw`). This, like all of Boost, is external. An exception that leaves
  `io_context::run` ends the process if it does so in one of the workers of
  `main.cpp:26-35`. In the main thread it unwinds `RunWorkers`, which waits for the workers:
  the game goes on, without what the exception interrupted. So `crashed` records an exception
  (`Exception`) and the model goes on, and a dereferenced nothing (`Fault`) is the end of it
  (`Alive`). The outcome where the process ends needs no step: a behaviour may stop.
  `HttpServer` has both (`HandlerThrows`, `HandlerThrowsInMain`).
* `swept` and `stalled` only record. The first are players added between the look at the size
  of an entry and its erasure, the second players retired before their own join was over. The
  second takes a whole retirement time, which a tick by request may carry.
* `Steering` counts time in ticks and lets a tick be seen in three places: at its
  beginning, which moves the dog, after `EndTick`, which takes it out of the session,
  and after the player has been removed. A dispatched move runs at once or is queued
  (`Dispatch`); a queued one refers to an action that is gone, so `RunQueued` takes any
  value at all. `mishaps` records what has gone out of the way, so that the properties
  can say precisely when they do not hold. The player is one whose join is over and whose
  entry was not swept away: `Application` has the others.
* `GameClient` keeps two kinds of replies on their way. A reply is drawn up when the
  server handles its request and may arrive in any order. Objects of the scene are told
  apart by their loot, by whom they were made for (nobody on the map, or the player whose
  bag lacked one) and by a number that no object in use has, as the page tells them apart
  by reference: what is shared and what is copied shows. `data.bag` is `held`, one per player: `_addPlayer` and
  `_applyDesiredState` take care that the actor and the state share the record, and the
  model follows that sharing. `UpdatePlayersList` takes the bag of a player who left
  off the scene; `ApplyState` gives a player who comes back a new one.
* `SavedGame` tells an object's or a dog's own id from the key it is stored under, which
  differ after a restart. A dog is called by a name that never changes. Its score is all
  it has gathered. An `unordered_map` is written in any order (`Orders`).
* `HttpServer` records for each connection which operations are in flight and from which
  requests the responses it got were made. A handler on the API strand is two steps: it
  stores the request in the shared member, and later makes the response from there and
  sends it by the session it holds. That the strand is idle and the handler runs in the
  reading thread is no different from being queued and begun at once. A session is there
  as long as something holds it (`Holders`).
* `DogMovement` counts places in tenths of a coordinate, so that half a road's width
  (0.4) and the ways made are whole numbers; `std::round` is modelled as it rounds,
  halves away from zero. `RoadIndex` leaves open which of two fragments that begin
  together is merged first, as `std::sort` does.

## 3. Runs

| Run | Question | Bounds | Result |
|---|---|---|---|
| `session_safety` | Do loot, bags, times, players and records stay right through joins inside a tick and failing commits? | 2 dogs, 3 objects, bags of 2, one office, seconds of 2 ms, ticks of 1 and 2 ms, retirement after 1 s | holds, 0.8 million states |
| `session_records` | Does everybody who leaves or idles get a record, and does the session implement `PlayerLifecycle`? | 2 dogs, 1 object, fair ticks, database works | holds |
| `steering` | Does the dog obey the keys, do moves harm nobody, do idlers see the records? | 2 keys, 4 presses, 2 posts under way, retirement after 2 idle ticks | holds |
| `game_client` | Does the page show the game, without ghosts? | 2 players, 1 object, 2 states and 1 list under way, 4 events | holds, half a million states |
| `app_one_map` | Does every leaver lose the token? | 1 map, 3 players, 4 tokens, ticks by timer or by request, database works | holds, 0.3 million states |
| `app_two_maps` | Do the containers agree, and has what fails one of the known reasons? | 2 maps, 3 players, 4 tokens, 2 sessions, commits may fail | holds, 1.1 million states |
| `app_wrong_map` | README: a choice of maps | 2 maps, 3 players, 2 sessions | violated |
| `http_server` | Do responses match requests, and do sessions go on or go away? | 2 clients, 3 requests each | holds |
| `pool_contention` | Exclusive connections, no lost wakeup, and an implementation of `ResourcePool`? | 4 threads, 2 connections | holds |
| `dog_movement` | Does the index answer right and do dogs stay beside roads? | every map of 1 to 3 of 6 roads; ways of 0.3 and 0.7 | holds |
| `saved_game` | Does a restart bring everything back under fresh ids? | 3 dogs over all runs, 2 objects a run, any number of saves and crashes | holds |
| `saved_game_ids` | A test: a restored dog has its id | the same | violated |

**Why the bounds are enough.** Two dogs and three objects let two dogs meet one item in
a tick, fill a bag, pass an item in vain and visit the office in any order, and one dog
retire while another joins. Ticks of half a second and of a second land on the
retirement time and beyond it. Three players over two maps let a session end, the other
move into its slot, and a map be joined again; with one map they let a second join fall
between any two steps of the removal of the first, and a third find what is left. With a
token more than players one can come back. Four threads and two connections
let two threads wait while two return in either order. Two clients can meet
on the strand in any order, and three requests keep a connection twice. The six roads contain a pair that
overlaps, one inside another, two that touch, crossing ones, ones that only end near
each other. Three dogs can be restored in all orders with gaps among the ids. Four presses let two keys go down and up
over one another, or one get stuck and be pressed again; two posts overtake each other.
On the page one object can be made, taken, carried and delivered, and meanwhile a player
come or leave, with two states that arrive in the wrong order around a list. The
sessions and pools of every other size are what the proofs are for.

**Deadlock** is checked wherever it means something: a session can always tick, a dog
move, and a thread query. `Application`, `HttpServer`, `SavedGame`, `Steering` and
`GameClient` bound what comes from outside and have states where nothing is left to do
(everybody has left; every connection has closed; the state file is a mere beginning;
the page shows the records), so their runs say `CHECK_DEADLOCK FALSE`. Symmetry is used on tokens only, in runs without
liveness.

**What the violations show** (details in `PROJECT.json`, "findings"):
1. The index of a map survives its session and leads into another map's session, or to
   the ended one, which is joined again, unlisted, and never saved.
2. After a restart dogs and objects are stored under keys that are not their ids.

**What the exceptions show.** A model may do more than the runs let it, and some properties
have to name exceptions. Each of these is something that the code does:
* `DbMayFail = TRUE` in the instance of `session_records`: `NobodyLeavesUnrecorded` is
  violated. Records are taken, dogs erased (`game_session.cpp:257`), and only then the
  records committed (262); a failing database loses them.
* `MovesDoNoHarm` and `KeysSteer` without their exceptions: a move that meets a busy
  strand reads an action that is gone, and one that meets a dog just retired throws on
  the strand. Either may end the process.
* `NoGhosts` without its exceptions: an older state that arrives after a newer one, two
  dogs that take one object, or a player who leaves before the page has shown it leave
  an object in the scene that nothing removes.
* `DogsCanBeSteered` without `swept`: a player is added between the look at the size of the
  entry (`application.cpp:258`) and its erasure (259). It plays on without an entry. When it is
  retired, 252 takes the value of an empty optional, and its token is accepted for ever:
  that is why `LeaversLoseTheirToken` and `TokenLeadsToPlayer` except it too. One map, two
  players and a database that works are enough.
* `TokenLeadsToPlayer` without `Erasing`: while the last player is being removed the token is
  still accepted and the entry is gone; a request at that moment dereferences an empty
  optional (`use_cases.cpp:18`, 100).
* `ListedSessionsHavePlayers` without the join under way: a session is listed (96) before its
  first player is there. Without the removal: it is listed until 264 though its entry went at
  259. An autosave that comes then takes the value of an empty optional (171).
* `FailuresHaveReasons` without `stalled`: a player retired during its own join makes 252 throw,
  or 89 of `player.cpp` dereference the end of a map. With two sessions a join, or the loop of a
  tick by request, meets an emptied slot.
* A join of a map that does not exist throws out of its handler (`application.cpp:73`, called at
  `api_handler.cpp:98` after the `try`), though the handler has an answer for it (101). The model
  has it, `JoinGameUnknown`. A malformed move does the same (`api_handler.cpp:203`); `Steering`
  leaves it out, as it leaves out the text of requests, and the page sends none.

**Fairness.** `GameSession`: weak fairness of `Tick`, because the ticker re-arms itself
after each tick (`ticker.cpp:36-44`) and a strand goes on with a tick it has begun. No
player has to do anything. The ticker does not re-arm after a throw, so fairness is only assumed where
the database does not fail. `Application`: weak fairness of `Alive /\ Remove`, the loop a
strand is in, as long as the process lives. `ConnectionPool`: each thread that can run runs on and queries end; not
that spurious wakeups happen or that threads come back. `HttpServer`: what the server
has begun ends. A read ends at the latest when the 30 seconds of `expires_after` are over
(`http_server.cpp:25`), a write by the same clock, a handler on the strand as a call that
returns. A client need not send anything. `Steering`: what either strand has begun goes
on, posts arrive and the page polls (weak); a queued move and a tick get the session's
strand although loot may always come in between (strong), because its queue is first in,
first out. Nobody has to press a key. `GameClient`: the page ticks with the frames of the
browser and polls at a fixed share of the ticks, what it asks is answered and the answer
arrives; nobody has to play.

## 4. Proofs

Checked by `tlapm`, from the named assumptions on constants in each module (capacities and
times are naturals, offices are not object ids, `MaxLive` is out of the way; for the pool,
finitely many threads and any capacity, zero included; for the page, finitely many players
and objects; for movement, finite maps of straight roads).

**`GameSessionProofs`.** The invariants of a session are proved in four layers, each
inductive together with those before it:
1. `TypeInv`: types, and ids below the counters. Freshness of new ids, on which all else
   rests, follows from it.
2. `LootInv`: what dogs have gathered is off the map, events only name snapshot items, bags
   are finite and within capacity. `GatheredIsOffMap` alone is not inductive: an event of
   this tick may name an item that was taken meanwhile, so one needs to know that a new
   object cannot get that id.
3. `RecordInv`: records committed and in hand are of different dogs, all gone, and are in
   hand only while committing. This is what makes one record per dog survive a failing
   commit.
4. `IdleInv`: idle times stay within one tick of the limit by phase, and below live times,
   so that the division into seconds keeps the order (`WholeSeconds`).

From them: `GatheredStaysOffMap`, `BagsNeverOverflow`, `OneRecordEach`,
`EveryLeaverRecorded` (commits do not fail), `NobodyOverstays` (retirement time not zero),
`PlayTimesCoverIdleTimes`, and the action properties `WorthNeverShrinks` and
`LootOnlyMovesIntoBags`.

The same module proves `SessionImplementsLifecycle`: every step of a session is one of
`PlayerLifecycle` or a stutter. `FinalScores` turns a set of records into a function, which
needs that records are one per dog; retiring maps to `Leave`, a commit to `Record`, a failed
one to `LoseRecords`. The fairness of `PlayerLifecycle` is TLC's part.

**`ConnectionPoolProofs`**: the inductive `Inv` says which slot is empty, that busy threads
and free slots hold different connections, and that the counter is the number of busy
threads. From it exclusiveness and the refinement; `NoLostWakeup` needs a counting argument
per action, since a return adds a free connection and a thread about to notify in one step,
while a notification removes the thread and, if anybody waits, wakes one.

**`ApplicationProofs`**: any number of maps, players, sessions and tokens, with failing
commits, exceptions and both kinds of ticks, every write a step of its own. No part of `Inv`
is inductive alone:
* `Shapes` (types, and what a join needs for its next write), `Slots` (no session is listed
  twice, no slot in use is empty) and `OneSlot` (until there is a second session nothing moves
  in the vector, which is why one map never meets an empty slot).
* `Owners`: whoever is in an entry, in play, or on the way out of a session has that session
  as its own, and who is on the way out is in neither. So an erasure in one session touches
  nobody of another.
* `Removals`: a removal has yet to visit only players of the entry, and when it is about to
  erase the entry everybody in it was swept there. So it never misses what it erases
  ("entry gone" in `FailuresHaveReasons`), although the look at the size and the erasure are
  two steps.
* `TokensInStep`: `TokenMapsAgree`, with what a join and a removal have written so far.
* `InPlay`: a token leads to a player, a dog has a player or was swept, an entry has tokens,
  the newcomer of a join plays or was retired meanwhile, and who is erased without a token was.
* `Inhabited` and `FailuresHaveReasons`.

From it the types, the five invariants of `app_two_maps`, and `TokenKeepsItsPlayer`.

**`SteeringProofs`**: any keys, any number of presses and posts. `HarmInv`: a dog is gone
while its token is accepted only as long as the strand is busy removing the player, so a
move found by its token meets an idle strand only with the dog there, unless the player was
removed in between (`late`) or the move waits (`queued`). `ObeyInv`: the last post, or the
move in hand when there is none, or else the dog, is at what `getLastKey` says.

**`HttpServerProofs`**: any clients. `OneHolder`: a connection is open just when an
operation is in flight, or a handler is queued or begun, and never more than one of these;
the handler that has begun is that of the request in the shared member. `InOrder`: whatever
is queued, begun or being written answers the request that was read last, the only one
without an answer. From them `HeldByOne` and `AnswersMatchRequests`.

**`SavedGameProofs`**: any number of dogs, objects, saves and restarts. `Counters` (next ids
are past what is in use, in the game and in the file), `Names` (one dog, one player),
`Sessions` (a listed session has players, a process that is down holds nothing) and `Files`
(a game that is saved or being saved has players, of whom no two share a name or a token).
Restoring writes dogs in any order: `OrdersAreOnto` shows that an order of a finite set
reaches each of its members, and `GreatestExists` that the greatest id, past which the
counter is set, exists.

**`DogMovementProofs`**: any finite maps of straight roads, any unit, width of road (under
half a coordinate on each side) and ways; that roads are straight is what the constructors
of `Road` grant (`MapsAssumption`). There are three parts.
1. *The index.* The loop of `MergeFragments` keeps `Merged`: the fragments made so far are
   apart from each other and in order, each road so far is within one, and they reach
   nowhere that no road does. This is recursion over data, and an induction rule cannot be
   used here. Instead the set of rounds after which it fails is a set of naturals, which has
   a least member if it has any, and a round keeps what the one before it left
   (`NoneIsBad`). That a line can be sorted at all, so that the `CHOOSE` in `Sorted` means
   something, is shown in the same way (`OrderExists`). From both follows `IndexIsRight`.
2. *Rounding.* `RoundFacts` bounds how far `std::round` goes from a place, halves away from
   zero on both sides of it; `RoundOnto` shows that a place up to half a width beyond the
   end of a stretch is rounded back onto it. That is the reason for `2 * HalfWidth < Unit`.
3. *The dog.* `NeverStranded` and `StaysBesideRoads` are not inductive: a dog may be found a
   road and be beside another. `Inv` says that one stretch that the index finds from the
   dog's rounded place also spans the dog, half a width beyond its ends included (`OnRoad`).
   Of each axis `MoveAlong` says that within the borders of the box a dog on a stretch of
   that line stays on it, and one that is not comes upon a stretch or is found from where it
   was. From it `DogNeverStranded`, `DogBesideRoads` and `DogMovesAhead`.

**`GameClientProofs`**: any number of players, objects and events, any bounds on replies.
There are three layers.
1. `Inv`: types; a request of the constructor is not repeated, so that its reply finds room
   (`AskedOnce`); before both first replies are there nothing is shown (`Blank`); an object
   is filed under its loot and has one place (`Places`). `HasOnePlace` is inductive with
   these, because an object that is made is not in use (`NewObjectFacts`, a count of the
   finitely many objects there are) and only the first player that lacks it takes one from
   the map.
2. `Visible`, for `CarriedLootIsVisible`. The lists on their way *fade*: whoever is missing
   from one of them though the one before had the player is missing from all later ones and
   has left. A player of the state is drawn, or has left and is in no list any more.
3. `Ghostless`, for `NoGhosts`. The states on their way fade likewise, players and objects
   (`StatesFade`): from what the page shows over each reply to the game itself, an object
   goes from the map into one bag and then out of the game, and never back. So what vanishes
   will not be shown again (`VanishingIsSpent`), no object is dropped while another of the
   same loot is dropped or vanishing, and the entry that `_dropLoot` makes never takes the
   place of another. `Leavers` follows a player who has left until the list has taken the
   objects off the scene and a state has made the page forget the bag, whichever comes
   first. Each of the exceptions in `NoGhosts` is needed: without it fading fails.

**Only model-checked**: the liveness properties (`IdleDogsAreRecorded`,
`IdlersSeeTheRecords`, `PageShowsTheGame`, `LeaversLoseTheirToken`,
`EveryRequestIsAnswered`, `SilentClientsAreDropped`, `SomebodyIsServed`) and the fairness of
`PlayerLifecycle` in `ImplementsLifecycle`, which need fairness and `ENABLED`. Every other
property of a run that passes is stated by a theorem.

## 5. Not modelled

* Vendored JavaScript: three.js, its loaders, controls and utilities are about 46 of the
  47 thousand lines of JavaScript in the repository. They are third-party code, unchanged,
  and have no part in the game's logic, so the modelled lines are a small share of all.
* In `game.js`: where things are drawn and how they turn and glide (`_interpolate...`,
  `MovingObject`, the camera), scores and names, building the map, loading of models.
  `game_map.js`: tiles, made once, to draw roads.
* Sockets and buffers; parsing, files and JSON; SQL; logging; arguments.
* The probability of loot and the geometry of gathering: floating point, abstracted to
  any number up to the shortage and any set of encounters. So the first delta of the loot
  ticker, which a shadowed member makes wrong (`ticker.cpp:15`), makes no difference here.
* Idle and play time over a restart, which the state file does not have.
* Two operations of one unlocked container that overlap (see above).
* The pool's users beyond the length of a query. The current `main` opens as many
  connections as it has threads, so its threads never actually wait in the pool; the class
  promises more, and that is what is modelled.

## 6. What is left

* One module that composes `GameSession` with `Application`, so that the dogs that retire
  come from the sessions and a restart has their times. Its state space is the product of two
  that are already large; the interface between them is one call at the end of a tick.
