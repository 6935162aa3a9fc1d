-------------------------- MODULE SteeringProofs --------------------------
(***************************************************************************)
(* Proofs about Steering, for any keys and any number of presses.          *)
(***************************************************************************)
EXTENDS Steering, SequenceTheorems, TLAPS

-----------------------------------------------------------------------------
(* Sequences.                                                              *)

LEMMA RemoveAtFacts ==
  ASSUME NEW S, NEW s \in Seq(S), NEW i \in 1 .. Len(s)
  PROVE  /\ RemoveAt(s, i) \in Seq(S)
         /\ Len(RemoveAt(s, i)) = Len(s) - 1
         /\ \A j \in 1 .. Len(s) - 1 :
               RemoveAt(s, i)[j] = IF j < i THEN s[j] ELSE s[j + 1]
  <1> DEFINE a == SubSeq(s, 1, i - 1)
             b == SubSeq(s, i + 1, Len(s))
  <1>1. Len(s) \in Nat /\ \A j \in 1 .. Len(s) : s[j] \in S
    BY ElementOfSeq, LenProperties
  <1>2. a \in Seq(S) /\ Len(a) = i - 1 /\ \A j \in 1 .. i - 1 : a[j] = s[j]
    <2>1. \A j \in 1 .. i - 1 : s[j] \in S
      BY <1>1
    <2>2. /\ SubSeq(s, 1, i - 1) \in Seq(S)
          /\ Len(SubSeq(s, 1, i - 1)) = IF 1 <= i - 1 THEN i - 1 - 1 + 1 ELSE 0
          /\ \A j \in 1 .. i - 1 - 1 + 1 : SubSeq(s, 1, i - 1)[j] = s[1 + j - 1]
      BY <1>1, <2>1, SubSeqProperties, SMT
    <2> QED
      BY <1>1, <2>2
  <1>3. /\ b \in Seq(S) /\ Len(b) = Len(s) - i
        /\ \A j \in 1 .. Len(s) - i : b[j] = s[i + j]
    <2>1. \A j \in i + 1 .. Len(s) : s[j] \in S
      BY <1>1
    <2>2. /\ SubSeq(s, i + 1, Len(s)) \in Seq(S)
          /\ Len(SubSeq(s, i + 1, Len(s))) =
                IF i + 1 <= Len(s) THEN Len(s) - (i + 1) + 1 ELSE 0
          /\ \A j \in 1 .. Len(s) - (i + 1) + 1 :
                SubSeq(s, i + 1, Len(s))[j] = s[i + 1 + j - 1]
      BY <1>1, <2>1, SubSeqProperties, SMT
    <2> QED
      BY <1>1, <2>2
  <1>4. /\ a \o b \in Seq(S)
        /\ Len(a \o b) = Len(a) + Len(b)
        /\ \A j \in 1 .. Len(a) + Len(b) :
              (a \o b)[j] = IF j <= Len(a) THEN a[j] ELSE b[j - Len(a)]
    BY <1>2, <1>3, ConcatProperties
  <1> HIDE DEF a, b
  <1>5. RemoveAt(s, i) = a \o b
    BY DEF RemoveAt, a, b
  <1>6. Len(a \o b) = Len(s) - 1
    BY <1>1, <1>2, <1>3, <1>4
  <1>7. ASSUME NEW j \in 1 .. Len(s) - 1
        PROVE  (a \o b)[j] = IF j < i THEN s[j] ELSE s[j + 1]
    <2>1. j \in 1 .. Len(a) + Len(b)
      BY <1>1, <1>2, <1>3
    <2>2. CASE j < i
      BY <2>1, <2>2, <1>1, <1>2, <1>4
    <2>3. CASE j >= i
      <3>1. ~(j <= Len(a)) /\ j - Len(a) = j - i + 1 /\ j - i + 1 \in 1 .. Len(s) - i
        BY <2>3, <1>1, <1>2
      <3>2. (a \o b)[j] = b[j - i + 1]
        BY <2>1, <3>1, <1>4
      <3>3. b[j - i + 1] = s[i + (j - i + 1)]
        BY <3>1, <1>3
      <3>4. i + (j - i + 1) = j + 1 /\ ~(j < i)
        BY <2>3, <1>1
      <3> QED
        BY <3>2, <3>3, <3>4
    <2>4. j < i \/ j >= i
      BY <1>1
    <2> QED
      BY <2>2, <2>3, <2>4
  <1> QED
    BY <1>4, <1>5, <1>6, <1>7

LEMMA LastOfAppend ==
  ASSUME NEW S, NEW s \in Seq(S), NEW e \in S
  PROVE  Append(s, e) \in Seq(S) /\ Append(s, e) # <<>> /\ Last(Append(s, e)) = e
  BY AppendProperties, LenProperties DEF Last

(* What is left of the posts when one is taken ends as they did, unless it *)
(* was the last.                                                           *)
LEMMA TakeFirst ==
  ASSUME NEW S, NEW s \in Seq(S), Len(s) > 0
  PROVE  /\ RemoveAt(s, 1) = <<>> => s[1] = Last(s)
         /\ RemoveAt(s, 1) # <<>> => Last(RemoveAt(s, 1)) = Last(s)
  <1>1. Len(s) \in Nat /\ 1 \in 1 .. Len(s)
    BY LenProperties
  <1>2. /\ RemoveAt(s, 1) \in Seq(S)
        /\ Len(RemoveAt(s, 1)) = Len(s) - 1
        /\ \A j \in 1 .. Len(s) - 1 : RemoveAt(s, 1)[j] = IF j < 1 THEN s[j] ELSE s[j + 1]
    BY <1>1, RemoveAtFacts
  <1>3. ASSUME RemoveAt(s, 1) = <<>> PROVE s[1] = Last(s)
    <2>1. Len(RemoveAt(s, 1)) = 0
      BY <1>3
    <2>2. Len(s) = 1
      BY <1>1, <1>2, <2>1
    <2> QED
      BY <2>2 DEF Last
  <1>4. ASSUME RemoveAt(s, 1) # <<>> PROVE Last(RemoveAt(s, 1)) = Last(s)
    <2>1. Len(s) - 1 \in 1 .. Len(s) - 1
      BY <1>1, <1>2, <1>4, EmptySeq
    <2>2. RemoveAt(s, 1)[Len(s) - 1] = s[Len(s) - 1 + 1]
      BY <1>1, <1>2, <2>1
    <2> QED
      BY <1>1, <1>2, <2>2 DEF Last
  <1> QED
    BY <1>3, <1>4

LEMMA LastKeyIsAMove ==
  ASSUME NEW pressed \in Seq(Key)
  PROVE  getLastKey(pressed) \in Move
  <1>1. CASE pressed = <<>>
    BY <1>1 DEF getLastKey, Move
  <1>2. CASE pressed # <<>>
    <2>1. Len(pressed) \in 1 .. Len(pressed)
      BY <1>2, EmptySeq, LenProperties
    <2>2. pressed[Len(pressed)] \in Key
      BY <2>1, ElementOfSeq
    <2> QED
      BY <1>2, <2>2 DEF getLastKey, Last, Move
  <1> QED
    BY <1>1, <1>2

LEMMA ReleaseFacts ==
  ASSUME NEW pressed \in Seq(Key), NEW k \in Key, Contains(pressed, k)
  PROVE  /\ Release(pressed, k) \in Seq(Key)
         /\ IsInjective(pressed) => IsInjective(Release(pressed, k))
  <1> DEFINE i == CHOOSE index \in 1 .. Len(pressed) : pressed[index] = k
  <1>1. i \in 1 .. Len(pressed) /\ pressed[i] = k
    BY DEF Contains
  <1> HIDE DEF i
  <1>2. /\ RemoveAt(pressed, i) \in Seq(Key)
        /\ Len(RemoveAt(pressed, i)) = Len(pressed) - 1
        /\ \A j \in 1 .. Len(pressed) - 1 :
              RemoveAt(pressed, i)[j] = IF j < i THEN pressed[j] ELSE pressed[j + 1]
    BY <1>1, RemoveAtFacts
  <1>3. Release(pressed, k) = RemoveAt(pressed, i)
    BY DEF Release, i
  <1>4. /\ Len(pressed) \in Nat /\ DOMAIN pressed = 1 .. Len(pressed)
        /\ DOMAIN RemoveAt(pressed, i) = 1 .. Len(pressed) - 1
    BY <1>2, LenProperties
  <1>5. ASSUME IsInjective(pressed) PROVE IsInjective(RemoveAt(pressed, i))
    <2> SUFFICES ASSUME NEW a \in 1 .. Len(pressed) - 1, NEW b \in 1 .. Len(pressed) - 1,
                        RemoveAt(pressed, i)[a] = RemoveAt(pressed, i)[b]
                 PROVE  a = b
      BY <1>4 DEF IsInjective
    <2> DEFINE old(j) == IF j < i THEN j ELSE j + 1
    <2>1. /\ old(a) \in 1 .. Len(pressed) /\ old(b) \in 1 .. Len(pressed)
          /\ RemoveAt(pressed, i)[a] = pressed[old(a)]
          /\ RemoveAt(pressed, i)[b] = pressed[old(b)]
      BY <1>1, <1>2, <1>4
    <2>2. old(a) = old(b)
      BY <1>4, <1>5, <2>1 DEF IsInjective
    <2> QED
      BY <1>1, <1>4, <2>2
  <1> QED
    BY <1>2, <1>3, <1>5

-----------------------------------------------------------------------------
(* Every variable keeps its type, and the page takes no key for pressed    *)
(* twice.                                                                  *)
LEMMA TypeInit == Init => TypeOK
  <1> SUFFICES ASSUME Init PROVE TypeOK
    OBVIOUS
  <1>1. /\ held \in Seq(Key) /\ pressedKeys \in Seq(Key) /\ posts \in Seq(Move)
        /\ Len(posts) = 0
    BY EmptySeq DEF Init
  <1>2. IsInjective(pressedKeys)
    BY DEF Init, IsInjective
  <1>3. Len(posts) <= MaxPosts /\ queue \in 0 .. MaxPosts
    BY <1>1, ConstantsAssumption DEF Init
  <1>4. inactive \in 0 .. RetireAfter /\ presses \in 0 .. MaxPresses
    BY ConstantsAssumption DEF Init
  <1>5. /\ heading \in Key /\ {moving, dog, token, running} \subseteq BOOLEAN
        /\ strand \in {"idle", "tick", "retire", "loot"}
        /\ page \in {"game", "records"} /\ mishaps \subseteq Mishap
        /\ action \in Move \cup {None}
    BY DEF Init
  <1> QED
    BY <1>1, <1>2, <1>3, <1>4, <1>5 DEF TypeOK

LEMMA PressKeyType ==
  ASSUME TypeOK, NEW pressed \in Seq(Key), IsInjective(pressed),
         Len(posts) < MaxPosts, PressKey(pressed)
  PROVE  /\ pressedKeys' \in Seq(Key) /\ IsInjective(pressedKeys')
         /\ posts' \in Seq(Move) /\ Len(posts') <= MaxPosts
         /\ posts' # <<>> /\ Last(posts') = getLastKey(pressedKeys')
  <1>1. getLastKey(pressed) \in Move
    BY LastKeyIsAMove
  <1>2. posts' = Append(posts, getLastKey(pressed)) /\ pressedKeys' = pressed
    BY DEF PressKey
  <1>3. /\ posts \in Seq(Move) /\ Len(posts) \in Nat
    BY LenProperties DEF TypeOK
  <1>4. /\ posts' \in Seq(Move) /\ posts' # <<>> /\ Last(posts') = getLastKey(pressed)
        /\ Len(posts') = Len(posts) + 1
    BY <1>1, <1>2, <1>3, LastOfAppend, AppendProperties
  <1> QED
    BY <1>2, <1>3, <1>4, ConstantsAssumption

(* After an event of the keyboard the last post says what the last key is, *)
(* or nothing has changed.                                                 *)
LEMMA KeyFacts ==
  ASSUME TypeOK, NEW k \in Key, KeyDown(k) \/ KeyUp(k) \/ KeyUpUnseen(k)
  PROVE  /\ held' \in Seq(Key) /\ pressedKeys' \in Seq(Key) /\ IsInjective(pressedKeys')
         /\ posts' \in Seq(Move) /\ Len(posts') <= MaxPosts
         /\ \/ UNCHANGED <<pressedKeys, posts>>
            \/ posts' # <<>> /\ Last(posts') = getLastKey(pressedKeys')
         /\ presses' \in 0 .. MaxPresses
         /\ UNCHANGED <<action, strand, queue, dogs_, token, page, running, mishaps>>
  <1>1. Press
    BY DEF KeyDown, KeyUp, KeyUpUnseen
  <1>2. /\ presses' \in 0 .. MaxPresses /\ Len(posts) < MaxPosts
        /\ UNCHANGED <<action, strand, queue, dogs_, token, page, running, mishaps>>
    BY <1>1, ConstantsAssumption DEF Press, TypeOK
  <1>3. CASE KeyDown(k)
    <2>1. held' \in Seq(Key)
      BY <1>3, AppendProperties DEF KeyDown, TypeOK
    <2>2. CASE Contains(pressedKeys, k)
      BY <1>2, <1>3, <2>1, <2>2 DEF KeyDown, TypeOK
    <2>3. CASE ~Contains(pressedKeys, k)
      <3>1. Append(pressedKeys, k) \in Seq(Key)
        BY AppendProperties DEF TypeOK
      <3>2. IsInjective(Append(pressedKeys, k))
        <4>1. /\ pressedKeys \in Seq(Key) /\ IsInjective(pressedKeys)
              /\ Len(pressedKeys) \in Nat
              /\ DOMAIN pressedKeys = 1 .. Len(pressedKeys)
          BY LenProperties DEF TypeOK
        <4>2. /\ DOMAIN Append(pressedKeys, k) = 1 .. Len(pressedKeys) + 1
              /\ \A i \in 1 .. Len(pressedKeys) : Append(pressedKeys, k)[i] = pressedKeys[i]
              /\ Append(pressedKeys, k)[Len(pressedKeys) + 1] = k
          BY <3>1, <4>1, AppendProperties, LenProperties
        <4>3. \A i \in 1 .. Len(pressedKeys) : pressedKeys[i] # k
          BY <2>3 DEF Contains
        <4>4. ASSUME NEW a \in 1 .. Len(pressedKeys) + 1, NEW b \in 1 .. Len(pressedKeys) + 1,
                     Append(pressedKeys, k)[a] = Append(pressedKeys, k)[b]
              PROVE  a = b
          BY <4>1, <4>2, <4>3, <4>4 DEF IsInjective
        <4> QED
          BY <4>2, <4>4 DEF IsInjective
      <3>3. PressKey(Append(pressedKeys, k))
        BY <1>3, <2>3 DEF KeyDown
      <3> QED
        BY <1>2, <2>1, <3>1, <3>2, <3>3, PressKeyType
    <2> QED
      BY <2>2, <2>3
  <1>4. CASE KeyUp(k)
    <2>1. held' \in Seq(Key)
      BY <1>4, ReleaseFacts DEF KeyUp, TypeOK
    <2>2. CASE ~Contains(pressedKeys, k)
      BY <1>2, <1>4, <2>1, <2>2 DEF KeyUp, TypeOK
    <2>3. CASE Contains(pressedKeys, k)
      <3>1. /\ Release(pressedKeys, k) \in Seq(Key)
            /\ IsInjective(Release(pressedKeys, k))
        BY <2>3, ReleaseFacts DEF TypeOK
      <3>2. PressKey(Release(pressedKeys, k))
        BY <1>4, <2>3 DEF KeyUp
      <3> QED
        BY <1>2, <2>1, <3>1, <3>2, PressKeyType
    <2> QED
      BY <2>2, <2>3
  <1>5. CASE KeyUpUnseen(k)
    BY <1>2, <1>5, ReleaseFacts DEF KeyUpUnseen, TypeOK
  <1> QED
    BY <1>3, <1>4, <1>5

LEMMA TakePostType ==
  ASSUME TypeOK, NEW i \in 1 .. Len(posts)
  PROVE  /\ posts[i] \in Move
         /\ RemoveAt(posts, i) \in Seq(Move) /\ Len(RemoveAt(posts, i)) <= MaxPosts
  <1>1. /\ posts \in Seq(Move) /\ Len(posts) \in Nat /\ Len(posts) <= MaxPosts
        /\ posts[i] \in Move
    BY ElementOfSeq, LenProperties DEF TypeOK
  <1>2. RemoveAt(posts, i) \in Seq(Move) /\ Len(RemoveAt(posts, i)) = Len(posts) - 1
    BY <1>1, RemoveAtFacts
  <1> QED
    BY <1>1, <1>2, ConstantsAssumption

LEMMA SetDogDirectionType ==
  ASSUME TypeOK, NEW move, SetDogDirection(move)
  PROVE  /\ heading' \in Key /\ {moving', dog', running'} \subseteq BOOLEAN
         /\ inactive' \in 0 .. RetireAfter
         /\ dog' = dog
  <1>1. /\ heading \in Key /\ {moving, dog, running} \subseteq BOOLEAN
        /\ inactive \in 0 .. RetireAfter
    BY DEF TypeOK
  <1>2. CASE dog /\ move \in Move
    BY <1>1, <1>2, ConstantsAssumption DEF SetDogDirection, Move
  <1>3. CASE ~(dog /\ move \in Move)
    BY <1>1, <1>3 DEF SetDogDirection, dogs_
  <1> QED
    BY <1>2, <1>3

LEMMA TypeStep == TypeOK /\ [Next]_vars => TypeOK'
  <1> SUFFICES ASSUME TypeOK, [Next]_vars PROVE TypeOK'
    OBVIOUS
  <1>1. ASSUME NEW k \in Key, KeyDown(k) \/ KeyUp(k) \/ KeyUpUnseen(k) PROVE TypeOK'
    BY <1>1, KeyFacts DEF TypeOK, dogs_
  <1>2. CASE SyncPlayers
    BY <1>2 DEF SyncPlayers, TypeOK, keys, dogs_
  <1>3. ASSUME NEW i \in 1 .. Len(posts), PostFails(i) PROVE TypeOK'
    <2>1. RemoveAt(posts, i) \in Seq(Move) /\ Len(RemoveAt(posts, i)) <= MaxPosts
      BY TakePostType
    <2> QED
      BY <1>3, <2>1 DEF PostFails, TypeOK, keys, dogs_, Mishap
  <1>4. ASSUME NEW i \in 1 .. Len(posts), GetPlayerAction(i) PROVE TypeOK'
    <2>1. /\ RemoveAt(posts, i) \in Seq(Move) /\ Len(RemoveAt(posts, i)) <= MaxPosts
          /\ posts[i] \in Move
      BY TakePostType
    <2>2. posts' \in Seq(Move) /\ Len(posts') <= MaxPosts
      BY <1>4, <2>1 DEF GetPlayerAction
    <2>3. action' \in Move \cup {None} /\ mishaps' \subseteq Mishap
      BY <1>4, <2>1 DEF GetPlayerAction, TypeOK, Mishap
    <2> QED
      BY <1>4, <2>2, <2>3 DEF GetPlayerAction, TypeOK, keys, dogs_
  <1>5. CASE Dispatch
    <2>1. CASE Busy
      <3>1. queue' \in 0 .. MaxPosts
        BY <1>5, <2>1, ConstantsAssumption DEF Dispatch, TypeOK
      <3> QED
        BY <1>5, <2>1, <3>1 DEF Dispatch, TypeOK, keys, dogs_, Mishap
    <2>2. CASE ~Busy
      <3>1. SetDogDirection(action)
        BY <1>5, <2>2 DEF Dispatch
      <3>2. /\ heading' \in Key /\ {moving', dog', running'} \subseteq BOOLEAN
            /\ inactive' \in 0 .. RetireAfter
        BY <3>1, SetDogDirectionType
      <3> QED
        BY <1>5, <2>2, <3>2 DEF Dispatch, TypeOK, keys
    <2> QED
      BY <2>1, <2>2
  <1>6. CASE RunQueued
    <2>1. queue' \in 0 .. MaxPosts
      BY <1>6, ConstantsAssumption DEF RunQueued, TypeOK
    <2>2. /\ heading' \in Key /\ {moving', dog', running'} \subseteq BOOLEAN
          /\ inactive' \in 0 .. RetireAfter
      <3>1. PICK move : SetDogDirection(move)
        BY <1>6 DEF RunQueued
      <3> QED
        BY <3>1, SetDogDirectionType
    <2> QED
      BY <1>6, <2>1, <2>2 DEF RunQueued, TypeOK, keys
  <1>7. CASE BeginTick
    <2>1. inactive' \in 0 .. RetireAfter
      BY <1>7, ConstantsAssumption DEF BeginTick, TypeOK
    <2>2. moving' \in BOOLEAN
      BY <1>7 DEF BeginTick
    <2> QED
      BY <1>7, <2>1, <2>2 DEF BeginTick, TypeOK, keys
  <1>8. CASE EndTick
    BY <1>8 DEF EndTick, TypeOK, keys
  <1>9. CASE RemoveInactivePlayer
    BY <1>9 DEF RemoveInactivePlayer, TypeOK, keys, dogs_, Mishap
  <1>10. CASE GenerateLoot
    BY <1>10 DEF GenerateLoot, TypeOK, keys, dogs_
  <1>11. CASE UNCHANGED vars
    BY <1>11 DEF vars, TypeOK, keys, dogs_
  <1> QED
    BY <1>1, <1>2, <1>3, <1>4, <1>5, <1>6, <1>7, <1>8, <1>9, <1>10, <1>11 DEF Next

(* Types hold, and no key is taken for pressed twice, whatever the order   *)
(* in which keys go down, go up, and go up unseen.                         *)
THEOREM TypesHold == Spec => []TypeOK
  <1> QED
    BY TypeInit, TypeStep, PTL DEF Spec

-----------------------------------------------------------------------------
(* Moves do no harm.  The dog is gone only with its token, except while    *)
(* the strand removes the player; so a move that was found with a token    *)
(* reaches an idle strand with its dog there, unless the player was        *)
(* removed in between or the move waits in the queue.                      *)
HarmInv ==
    /\ ~dog /\ token => strand = "retire"
    /\ strand = "retire" => ~dog
    /\ dog => token
    /\ ~dog /\ action # None => strand = "retire" \/ "late" \in mishaps
    /\ queue > 0 => "queued" \in mishaps
    /\ MovesDoNoHarm

LEMMA HarmInit == Init => HarmInv
  BY ConstantsAssumption DEF Init, HarmInv, MovesDoNoHarm

LEMMA HarmStep == TypeOK /\ HarmInv /\ [Next]_vars => HarmInv'
  <1> SUFFICES ASSUME TypeOK, HarmInv, [Next]_vars PROVE HarmInv'
    OBVIOUS
  <1>1. ASSUME NEW k \in Key, KeyDown(k) \/ KeyUp(k) \/ KeyUpUnseen(k) PROVE HarmInv'
    BY <1>1, KeyFacts DEF HarmInv, MovesDoNoHarm, dogs_
  <1>2. CASE SyncPlayers
    BY <1>2 DEF SyncPlayers, HarmInv, MovesDoNoHarm, dogs_
  <1>3. ASSUME NEW i \in 1 .. Len(posts), PostFails(i) PROVE HarmInv'
    BY <1>3 DEF PostFails, HarmInv, MovesDoNoHarm, dogs_
  <1>4. ASSUME NEW i \in 1 .. Len(posts), GetPlayerAction(i) PROVE HarmInv'
    <2>1. /\ action' # None => token
          /\ mishaps \cap {"queued", "late"} = mishaps' \cap {"queued", "late"}
          /\ UNCHANGED <<strand, queue, dog, token, running>>
      BY <1>4 DEF GetPlayerAction, dogs_
    <2>2. /\ "queued" \in mishaps <=> "queued" \in mishaps'
          /\ "late" \in mishaps <=> "late" \in mishaps'
      BY <2>1
    <2> QED
      BY <2>1, <2>2 DEF HarmInv, MovesDoNoHarm
  <1>5. CASE Dispatch
    <2>1. CASE Busy
      BY <1>5, <2>1 DEF Dispatch, HarmInv, MovesDoNoHarm, dogs_
    <2>2. CASE ~Busy
      <3>1. /\ strand # "retire" /\ queue = 0 /\ action \in Move
            /\ SetDogDirection(action) /\ mishaps' = mishaps \ {"queued"}
            /\ action' = None /\ running /\ UNCHANGED <<strand, token, queue>>
        BY <1>5, <2>2 DEF Dispatch, Busy, TypeOK
      <3>2. CASE dog
        <4>1. dog' /\ running'
          BY <3>1, <3>2 DEF SetDogDirection
        <4> QED
          BY <3>1, <3>2, <4>1 DEF HarmInv, MovesDoNoHarm
      <3>3. CASE ~dog
        <4>1. dog' = dog /\ action # None
          BY <1>5, <3>1, SetDogDirectionType DEF Dispatch
        <4>2. "late" \in mishaps
          BY <3>1, <3>3, <4>1 DEF HarmInv
        <4>3. "late" \in mishaps'
          BY <3>1, <4>2
        <4> QED
          BY <3>1, <3>3, <4>1, <4>3 DEF HarmInv, MovesDoNoHarm
      <3> QED
        BY <3>2, <3>3 DEF TypeOK
    <2> QED
      BY <2>1, <2>2
  <1>6. CASE RunQueued
    <2>1. PICK move : SetDogDirection(move)
      BY <1>6 DEF RunQueued
    <2>2. dog' = dog /\ "queued" \in mishaps
      BY <1>6, <2>1, SetDogDirectionType DEF RunQueued, HarmInv
    <2> QED
      BY <1>6, <2>2 DEF RunQueued, HarmInv, MovesDoNoHarm, TypeOK
  <1>7. CASE BeginTick
    BY <1>7 DEF BeginTick, HarmInv, MovesDoNoHarm
  <1>8. CASE EndTick
    BY <1>8 DEF EndTick, HarmInv, MovesDoNoHarm
  <1>9. CASE RemoveInactivePlayer
    BY <1>9 DEF RemoveInactivePlayer, HarmInv, MovesDoNoHarm, dogs_
  <1>10. CASE GenerateLoot
    BY <1>10 DEF GenerateLoot, HarmInv, MovesDoNoHarm, dogs_
  <1>11. CASE UNCHANGED vars
    BY <1>11 DEF vars, HarmInv, MovesDoNoHarm, dogs_
  <1> QED
    BY <1>1, <1>2, <1>3, <1>4, <1>5, <1>6, <1>7, <1>8, <1>9, <1>10, <1>11 DEF Next

(* A move ends the process only if it had to wait for the strand, or its   *)
(* player was removed between the search for it and the dispatch.          *)
THEOREM MovesAreHarmless == Spec => []MovesDoNoHarm
  <1>1. HarmInv => MovesDoNoHarm
    BY DEF HarmInv
  <1> QED
    BY <1>1, TypeInit, TypeStep, HarmInit, HarmStep, PTL DEF Spec

-----------------------------------------------------------------------------
(* Keys steer.  The last post, or the move in hand when there is none, is  *)
(* what the last key says; once both are through, the dog obeys it.        *)
ObeyInv ==
    "astray" \notin mishaps =>
        LET last == getLastKey(pressedKeys)
        IN  /\ posts # <<>> => Last(posts) = last
            /\ dog /\ posts = <<>> /\ action # None => action = last
            /\ dog /\ posts = <<>> /\ action = None /\ "queued" \notin mishaps /\ running
                  => Obeys(last)

LEMMA ObeyInit == Init => ObeyInv
  BY DEF Init, ObeyInv, Obeys, getLastKey

LEMMA ObeyStep == TypeOK /\ HarmInv /\ ObeyInv /\ [Next]_vars => ObeyInv'
  <1> SUFFICES ASSUME TypeOK, HarmInv, ObeyInv, [Next]_vars PROVE ObeyInv'
    OBVIOUS
  <1>1. ASSUME NEW k \in Key, KeyDown(k) \/ KeyUp(k) \/ KeyUpUnseen(k) PROVE ObeyInv'
    <2>1. /\ \/ UNCHANGED <<pressedKeys, posts>>
             \/ posts' # <<>> /\ Last(posts') = getLastKey(pressedKeys')
          /\ UNCHANGED <<action, dogs_, running, mishaps>>
      BY <1>1, KeyFacts
    <2> QED
      BY <2>1 DEF ObeyInv, Obeys, dogs_
  <1>2. CASE SyncPlayers
    BY <1>2 DEF SyncPlayers, ObeyInv, Obeys, keys, dogs_
  <1>3. ASSUME NEW i \in 1 .. Len(posts), PostFails(i) PROVE ObeyInv'
    BY <1>3 DEF PostFails, ObeyInv
  <1>4. ASSUME NEW i \in 1 .. Len(posts), GetPlayerAction(i) PROVE ObeyInv'
    <2> SUFFICES ASSUME i = 1, "astray" \notin mishaps PROVE ObeyInv'
      BY <1>4 DEF GetPlayerAction, ObeyInv
    <2>1. posts \in Seq(Move) /\ Len(posts) > 0 /\ posts # <<>>
      BY <1>4, EmptySeq, LenProperties DEF TypeOK
    <2>2. /\ RemoveAt(posts, 1) = <<>> => posts[1] = Last(posts)
          /\ RemoveAt(posts, 1) # <<>> => Last(RemoveAt(posts, 1)) = Last(posts)
      BY <2>1, TakeFirst
    <2>3. /\ posts' = RemoveAt(posts, 1) /\ action' = IF token THEN posts[1] ELSE None
          /\ UNCHANGED <<keys, dogs_, running, mishaps>>
      BY <1>4 DEF GetPlayerAction
    <2>4. posts[1] # None
      BY TakePostType, ConstantsAssumption, <1>4 DEF Move
    <2>5. ~(dog /\ action' = None)
      BY <2>3, <2>4 DEF HarmInv
    <2> QED
      BY <2>1, <2>2, <2>3, <2>5 DEF ObeyInv, keys, dogs_
  <1>5. CASE Dispatch
    <2>1. CASE Busy
      BY <1>5, <2>1 DEF Dispatch, ObeyInv, keys, dogs_
    <2>2. CASE ~Busy
      <3>1. /\ SetDogDirection(action) /\ action \in Move /\ action # None
            /\ mishaps' = mishaps \ {"queued"} /\ action' = None
            /\ UNCHANGED <<pressedKeys, posts>>
        BY <1>5, <2>2 DEF Dispatch, TypeOK, keys
      <3>2. CASE dog
        <4>1. IF action = Stop THEN ~moving' ELSE heading' = action
          BY <3>1, <3>2 DEF SetDogDirection
        <4>2. SUFFICES ASSUME "astray" \notin mishaps' PROVE ObeyInv'
          BY DEF ObeyInv
        <4>3. "astray" \notin mishaps
          BY <3>1, <4>2
        <4> QED
          BY <3>1, <3>2, <4>1, <4>3 DEF ObeyInv, Obeys
      <3>3. CASE ~dog
        BY <3>1, <3>3 DEF SetDogDirection, ObeyInv, dogs_
      <3> QED
        BY <3>2, <3>3 DEF TypeOK
    <2> QED
      BY <2>1, <2>2
  <1>6. CASE RunQueued
    <2>1. PICK move : SetDogDirection(move)
      BY <1>6 DEF RunQueued
    <2>2. dog' = dog /\ "queued" \in mishaps
      BY <1>6, <2>1, SetDogDirectionType DEF RunQueued, HarmInv
    <2> QED
      BY <1>6, <2>2 DEF RunQueued, ObeyInv, keys
  <1>7. CASE BeginTick
    BY <1>7 DEF BeginTick, ObeyInv, Obeys, keys
  <1>8. CASE EndTick
    BY <1>8 DEF EndTick, ObeyInv, Obeys, keys
  <1>9. CASE RemoveInactivePlayer
    BY <1>9 DEF RemoveInactivePlayer, ObeyInv, Obeys, keys, dogs_
  <1>10. CASE GenerateLoot
    BY <1>10 DEF GenerateLoot, ObeyInv, Obeys, keys, dogs_
  <1>11. CASE UNCHANGED vars
    BY <1>11 DEF vars, ObeyInv, Obeys, keys, dogs_
  <1> QED
    BY <1>1, <1>2, <1>3, <1>4, <1>5, <1>6, <1>7, <1>8, <1>9, <1>10, <1>11 DEF Next

(* Once the posts are through the dog heads where the last key points, or  *)
(* stands if no key is down, whatever the keys did in between.             *)
THEOREM DogsObeyTheKeys == Spec => []KeysSteer
  <1>1. HarmInv /\ ObeyInv => KeysSteer
    BY DEF HarmInv, ObeyInv, KeysSteer, MovesDoNoHarm
  <1> QED
    BY <1>1, TypeInit, TypeStep, HarmInit, HarmStep, ObeyInit, ObeyStep, PTL DEF Spec
=============================================================================
