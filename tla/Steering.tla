----------------------------- MODULE Steering -----------------------------
(***************************************************************************)
(* How a key comes to move a dog: the page posts a move for every change   *)
(* of its keys (class KeyState of src/static/js/game.js), the API strand   *)
(* finds the player of the token and dispatches the move to the strand of  *)
(* the session (MovePlayerUseCase::Move in src/src/app/use_cases.cpp),     *)
(* where ticks move the dog, generate loot, and at last retire the dog.    *)
(*                                                                         *)
(* A strand that is idle runs the move at once, in the thread of the API.  *)
(* One that is busy queues a function that refers to the caller's action,  *)
(* which is gone when the function runs: it reads whatever lies there.  An *)
(* exception on a strand leaves io_context::run and ends the process.      *)
(*                                                                         *)
(* Others play in the same session.  That nobody does, so that the session *)
(* ends with the player, is in Application.                                *)
(***************************************************************************)
EXTENDS Integers, Sequences, SequencesExt

CONSTANTS
    Key,          \* the keys of the arrows
    Stop,         \* the move that is posted when no key is pressed
    Garbage,      \* what is no move at all
    None,         \* nothing in hand
    RetireAfter,  \* the retirement time, in ticks
    MaxPresses,   \* bound: how often a key goes down or up
    MaxPosts      \* bound: posts on their way, and moves in the queue of the strand

ASSUME ConstantsAssumption ==
    /\ Stop \notin Key /\ {Garbage, None} \cap (Key \cup {Stop}) = {}
    /\ RetireAfter \in Nat \ {0} /\ MaxPresses \in Nat /\ MaxPosts \in Nat \ {0}

VARIABLES
    held,         \* the keys that are down, in the order they went down
    pressedKeys,  \* the keys that the page takes for down
    posts,        \* moves on their way to the server, in the order they were posted
    action,       \* the move whose player the API strand has found, if any
    strand,       \* what the strand of the session is at
    queue,        \* how many moves wait for the strand
    heading,      \* direction of the dog
    moving,       \* is its speed not zero?
    inactive,     \* its inactive_time_
    dog,          \* is the dog in the session?
    token,        \* is the token of its player accepted?
    page,         \* the game, or the table of records
    running,      \* has the process not ended?
    presses,      \* how often a key went down or up
    mishaps       \* what has gone out of the way

keys == <<held, pressedKeys, presses>>
dogs_ == <<heading, moving, inactive, dog>>
vars == <<keys, posts, action, strand, queue, dogs_, token, page, running, mishaps>>

Move == Key \cup {Stop}

(* "astray"  a post was lost, or overtaken by a later one                  *)
(* "queued"  a move met a busy strand, and none has met an idle one since  *)
(* "late"    the dog was retired between the search for its player and the *)
(*           dispatch of the move                                          *)
Mishap == {"astray", "queued", "late"}

Init ==
    /\ held = <<>> /\ pressedKeys = <<>> /\ presses = 0
    /\ posts = <<>> /\ action = None
    /\ strand = "idle" /\ queue = 0
    /\ heading \in Key /\ moving = FALSE /\ inactive = 0
    /\ dog = TRUE /\ token = TRUE
    /\ page = "game" /\ running = TRUE
    /\ mishaps = {}

-----------------------------------------------------------------------------
(* The keyboard and the page.                                              *)

getLastKey(pressed) == IF pressed = <<>> THEN Stop ELSE Last(pressed)

(* splice at indexOf, for a key that is there.                             *)
Release(pressed, k) ==
    RemoveAt(pressed, CHOOSE index \in 1 .. Len(pressed) : pressed[index] = k)

PressKey(pressed) ==
    /\ pressedKeys' = pressed
    /\ posts' = Append(posts, getLastKey(pressed))

Press ==
    /\ page = "game" /\ presses < MaxPresses /\ Len(posts) < MaxPosts
    /\ presses' = presses + 1
    /\ UNCHANGED <<action, strand, queue, dogs_, token, page, running, mishaps>>

(* A key that is held repeats itself, which the page does not mind.        *)
KeyDown(k) ==
    /\ Press
    /\ held' = IF Contains(held, k) THEN held ELSE Append(held, k)
    /\ IF Contains(pressedKeys, k)
       THEN UNCHANGED <<pressedKeys, posts>>
       ELSE PressKey(Append(pressedKeys, k))

(* The key pressed last of those still down takes over.                    *)
(* Bug: the dog stops, though another key is down.                         *)
KeyUpStops(k) ==
    /\ Press
    /\ Contains(held, k)
    /\ held' = Release(held, k)
    /\ pressedKeys' = Release(pressedKeys, k)
    /\ posts' = IF Contains(pressedKeys, k) THEN Append(posts, Stop) ELSE posts

KeyUp(k) ==
    /\ Press
    /\ Contains(held, k)
    /\ held' = Release(held, k)
    /\ IF Contains(pressedKeys, k)
       THEN PressKey(Release(pressedKeys, k))
       ELSE UNCHANGED <<pressedKeys, posts>>

(* A key goes up while the page does not have the focus.                   *)
KeyUpUnseen(k) ==
    /\ Press
    /\ Contains(held, k)
    /\ held' = Release(held, k)
    /\ UNCHANGED <<pressedKeys, posts>>

(* The list of players is polled; a token that is not accepted any more    *)
(* ends the game.  (The reply to a post does not: nobody looks at it.)     *)
SyncPlayers ==
    /\ page = "game" /\ running
    /\ ~token
    /\ page' = "records"
    /\ UNCHANGED <<keys, posts, action, strand, queue, dogs_, token, running, mishaps>>

-----------------------------------------------------------------------------
(* The API strand.                                                         *)

(* Nobody repeats a post that failed.                                      *)
PostFails(i) ==
    /\ posts' = RemoveAt(posts, i)
    /\ mishaps' = mishaps \cup {"astray"}
    /\ UNCHANGED <<keys, action, strand, queue, dogs_, token, page, running>>

(* GetPlayerAction checks the token, then Move finds the player by it.     *)
(* A token that is not found is as good as none, there and here.           *)
GetPlayerAction(i) ==
    /\ running /\ action = None
    /\ posts' = RemoveAt(posts, i)
    /\ action' = IF token THEN posts[i] ELSE None
    /\ mishaps' = IF i > 1 THEN mishaps \cup {"astray"} ELSE mishaps
    /\ UNCHANGED <<keys, strand, queue, dogs_, token, page, running>>

(* Player::Move and SetDogDirection, which throw for what is no move and   *)
(* for a dog that is not in the session.                                   *)
SetDogDirection(move) ==
    IF dog /\ move \in Move
    THEN /\ heading' = IF move = Stop THEN heading ELSE move
         /\ moving' = (move # Stop)
         /\ inactive' = IF move = Stop THEN inactive ELSE 0
         /\ UNCHANGED <<dog, running>>
    ELSE running' = FALSE /\ UNCHANGED dogs_

Busy == strand # "idle" \/ queue > 0

Dispatch ==
    /\ running /\ action # None
    /\ action' = None
    /\ IF Busy
       THEN /\ queue < MaxPosts
            /\ queue' = queue + 1
            /\ mishaps' = mishaps \cup {"queued"}
            /\ UNCHANGED <<dogs_, running>>
       ELSE /\ SetDogDirection(action)
            /\ mishaps' = mishaps \ {"queued"}
            /\ UNCHANGED queue
    /\ UNCHANGED <<keys, posts, strand, token, page>>

-----------------------------------------------------------------------------
(* The strand of the session.                                              *)

(* A move from the queue: the action it refers to is gone.                 *)
RunQueued ==
    /\ running /\ strand = "idle" /\ queue > 0
    /\ queue' = queue - 1
    /\ \E move \in Move \cup {Garbage} : SetDogDirection(move)
    /\ UNCHANGED <<keys, posts, action, strand, token, page, mishaps>>

(* A tick moves the dog, which stops by itself at the end of its road.     *)
BeginTick ==
    /\ running /\ strand = "idle"
    /\ strand' = "tick"
    /\ moving' \in {FALSE, moving /\ dog}
    /\ inactive' = IF dog /\ ~moving' /\ inactive < RetireAfter THEN inactive + 1 ELSE inactive
    /\ UNCHANGED <<keys, posts, action, queue, heading, dog, token, page, running, mishaps>>

(* It retires the dog that has been inactive for too long.                 *)
(* Bug: the strand is free again before the player is removed.             *)
EndTickFree ==
    /\ running /\ strand = "tick"
    /\ dog' = (dog /\ (moving \/ inactive < RetireAfter))
    /\ strand' = "idle"
    /\ UNCHANGED <<keys, posts, action, queue, heading, moving, inactive, token, page,
                   running, mishaps>>

EndTick ==
    /\ running /\ strand = "tick"
    /\ dog' = (dog /\ (moving \/ inactive < RetireAfter))
    /\ strand' = IF dog /\ ~dog' THEN "retire" ELSE "idle"
    /\ UNCHANGED <<keys, posts, action, queue, heading, moving, inactive, token, page,
                   running, mishaps>>

(* The record is committed and the player removed, in the same tick.       *)
(* Bug: the token stays accepted.                                          *)
RemoveInactivePlayerOnly ==
    /\ running /\ strand = "retire"
    /\ strand' = "idle"
    /\ mishaps' = IF action = None THEN mishaps ELSE mishaps \cup {"late"}
    /\ UNCHANGED <<keys, posts, action, queue, dogs_, token, page, running>>

RemoveInactivePlayer ==
    /\ running /\ strand = "retire"
    /\ token' = FALSE
    /\ strand' = "idle"
    /\ mishaps' = IF action = None THEN mishaps ELSE mishaps \cup {"late"}
    /\ UNCHANGED <<keys, posts, action, queue, dogs_, page, running>>

(* The ticker of the loot keeps the strand busy as well.                   *)
GenerateLoot ==
    /\ running
    /\ \/ strand = "idle" /\ strand' = "loot"
       \/ strand = "loot" /\ strand' = "idle"
    /\ UNCHANGED <<keys, posts, action, queue, dogs_, token, page, running, mishaps>>

-----------------------------------------------------------------------------
Next ==
    \/ \E k \in Key : KeyDown(k) \/ KeyUp(k) \/ KeyUpUnseen(k)
    \/ SyncPlayers
    \/ \E i \in 1 .. Len(posts) : PostFails(i) \/ GetPlayerAction(i)
    \/ Dispatch
    \/ RunQueued
    \/ BeginTick
    \/ EndTick
    \/ RemoveInactivePlayer
    \/ GenerateLoot

Spec == Init /\ [][Next]_vars

(* What the API strand or the strand of the session has begun goes on,     *)
(* posts arrive, ticks follow one another, and the page polls.  Nobody has *)
(* to press a key.                                                         *)
FairSpec ==
    /\ Spec
    /\ WF_vars(SyncPlayers)
    /\ WF_vars(posts # <<>> /\ GetPlayerAction(1)) /\ WF_vars(Dispatch)
    /\ SF_vars(RunQueued) /\ SF_vars(BeginTick) /\ WF_vars(EndTick)
    /\ WF_vars(RemoveInactivePlayer)
    /\ WF_vars(strand = "loot" /\ GenerateLoot)

-----------------------------------------------------------------------------
(* Properties.                                                             *)

(* The page takes no key for pressed twice.                                *)
TypeOK ==
    /\ held \in Seq(Key) /\ pressedKeys \in Seq(Key) /\ IsInjective(pressedKeys)
    /\ posts \in Seq(Move) /\ Len(posts) <= MaxPosts
    /\ action \in Move \cup {None}
    /\ strand \in {"idle", "tick", "retire", "loot"} /\ queue \in 0 .. MaxPosts
    /\ heading \in Key /\ {moving, dog, token, running} \subseteq BOOLEAN
    /\ inactive \in 0 .. RetireAfter
    /\ page \in {"game", "records"}
    /\ presses \in 0 .. MaxPresses /\ mishaps \subseteq Mishap

(* A key that is pressed at the end of a game does no harm: that the token *)
(* is withdrawn before the strand is free keeps moves from dogs that are   *)
(* gone.  The exceptions are the code's: a move that waits for the strand  *)
(* and one whose player was found just before.  These may end the process. *)
MovesDoNoHarm ==
    mishaps \cap {"queued", "late"} = {} => running

(* A dog does what the keys say once their posts are through, also when    *)
(* keys are pressed and let go over one another, and after a key that got  *)
(* stuck was pressed again: it heads where the last key points, or stands  *)
(* if no key is down.  (The end of a road may stop it.)  Only posts that   *)
(* go astray and the move that was queued last are not obeyed.             *)
Obeys(move) == IF move = Stop THEN ~moving ELSE heading = move

KeysSteer ==
    dog /\ mishaps = {} /\ posts = <<>> /\ action = None /\ held = pressedKeys
        => Obeys(getLastKey(held))

(* README: the game ends by itself for who does nothing, and the records   *)
(* appear: whoever has let go of the keys comes to see them, unless posts  *)
(* went astray or a move ended the process.                                *)
IdlersSeeTheRecords ==
    (mishaps = {} /\ pressedKeys = <<>> /\ posts = <<>> /\ action = None)
        ~> (page = "records" \/ pressedKeys # <<>> \/ mishaps # {})
=============================================================================
