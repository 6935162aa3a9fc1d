-------------------------- MODULE HttpServerProofs --------------------------
(***************************************************************************)
(* Proofs about HttpServer, for any number of clients and requests: a      *)
(* session that is open is held exactly once, and responses answer their   *)
(* requests in order.                                                      *)
(***************************************************************************)
EXTENDS HttpServer, SequenceTheorems, FiniteSetTheorems, TLAPS

(* The strand of the API, at index i, and whether it has a request of c.   *)
Waits(c) == \E i \in 1 .. Len(strand) : strand[i].client = c
Handled(c) == \E r \in handling : r.client = c

(* The request that is being answered is the one that was read last, and   *)
(* the only one without an answer.                                         *)
IsLast(r) == r.number = incoming[r.client] /\ Len(answers[r.client]) = incoming[r.client] - 1

OneHolder ==
    /\ \A c \in Client : \A o, p \in in_flight[c] : o = p
    /\ handling \subseteq {request_}
    /\ \A i, j \in 1 .. Len(strand) : strand[i].client = strand[j].client => i = j
    /\ \A c \in Client : in_flight[c] # {} => ~Handled(c) /\ ~Waits(c)
    /\ \A c \in Client : ~(Handled(c) /\ Waits(c))
    /\ \A c \in Client : state[c] = "open" <=> in_flight[c] # {} \/ Handled(c) \/ Waits(c)

InOrder ==
    /\ \A c \in Client : state[c] = "waiting" => incoming[c] = 0 /\ Len(answers[c]) = 0
    /\ \A c \in Client : \A op \in in_flight[c] :
          IF op.kind = "read" THEN op = ReadOperation /\ Len(answers[c]) = incoming[c]
                              ELSE IsLast(op.response_to) /\ op.response_to.client = c
    /\ \A r \in handling : IsLast(r)
    /\ \A i \in 1 .. Len(strand) : IsLast(strand[i])
    /\ AnswersMatchRequests

Inv == TypeOK /\ OneHolder /\ InOrder

-----------------------------------------------------------------------------
LEMMA Operations ==
  /\ ReadOperation \in Operation /\ ReadOperation.kind = "read"
  /\ \A r \in Request : /\ WriteOperation(r) \in Operation /\ WriteOperation(r).kind = "write"
                        /\ WriteOperation(r).response_to = r
  /\ \A op \in Operation : op.kind # "read" => op.kind = "write" /\ op.response_to \in Request
  BY DEF Operation, ReadOperation, WriteOperation

LEMMA StrandAppend ==
  ASSUME strand \in Seq(Request), NEW r \in Request
  PROVE  /\ Len(strand) \in Nat
         /\ Append(strand, r) \in Seq(Request)
         /\ Len(Append(strand, r)) = Len(strand) + 1
         /\ \A i \in 1 .. Len(strand) : Append(strand, r)[i] = strand[i]
         /\ Append(strand, r)[Len(strand) + 1] = r
  BY AppendProperties, LenProperties

LEMMA StrandHeadTail ==
  ASSUME strand \in Seq(Request), strand # <<>>
  PROVE  /\ Len(strand) \in Nat /\ Len(strand) > 0
         /\ Head(strand) \in Request /\ Head(strand) = strand[1]
         /\ Tail(strand) \in Seq(Request) /\ Len(Tail(strand)) = Len(strand) - 1
         /\ \A i \in 1 .. Len(strand) - 1 : Tail(strand)[i] = strand[i + 1]
  BY HeadTailProperties, LenProperties, EmptySeq, ElementOfSeq

LEMMA AnswersAppend ==
  ASSUME NEW s \in Seq(Request), NEW r \in Request
  PROVE  /\ Len(s) \in Nat /\ DOMAIN s = 1 .. Len(s)
         /\ Append(s, r) \in Seq(Request)
         /\ Len(Append(s, r)) = Len(s) + 1
         /\ DOMAIN Append(s, r) = 1 .. Len(s) + 1
         /\ \A i \in 1 .. Len(s) : Append(s, r)[i] = s[i]
         /\ Append(s, r)[Len(s) + 1] = r
  <1>1. /\ Append(s, r) \in Seq(Request) /\ Len(Append(s, r)) = Len(s) + 1
        /\ \A i \in 1 .. Len(s) : Append(s, r)[i] = s[i]
        /\ Append(s, r)[Len(s) + 1] = r
    BY AppendProperties
  <1> QED
    BY <1>1, LenProperties

-----------------------------------------------------------------------------
(* Every variable keeps its type.                                          *)
LEMMA TypeInit == Init => TypeOK
  BY ConstantsAssumption, EmptySeq DEF Init, TypeOK

(* What happens to the operations in flight.                               *)
LEMMA ContinueType ==
  ASSUME TypeOK, NEW c \in Client, NEW op, NEW next \in SUBSET Operation,
         Continue(c, op, next)
  PROVE  /\ in_flight' \in [Client -> SUBSET Operation]
         /\ in_flight'[c] = (in_flight[c] \ {op}) \cup next
         /\ \A d \in Client \ {c} : in_flight'[d] = in_flight[d]
  BY DEF Continue, TypeOK

(* What the main thread lets go when a handler throws in it.               *)
LEMMA LetGo ==
  ASSUME TypeOK, OneHolder, NEW c \in Client, ThrowInMain(c)
  PROVE  /\ in_flight' \in [Client -> SUBSET Operation]
         /\ state[c] = "open" /\ state' = [state EXCEPT ![c] = "failed"]
         /\ in_flight'[c] = {} /\ ~Handled(c)' /\ ~Waits(c)
         /\ handling' \subseteq handling
         /\ \A d \in Client \ {c} : /\ in_flight'[d] = in_flight[d]
                                    /\ Handled(d)' <=> Handled(d)
         /\ UNCHANGED <<running, accepting, incoming, answers, strand, request_>>
  <1> USE Operations
  <1>1. /\ state' = [state EXCEPT ![c] = "failed"]
        /\ UNCHANGED <<running, accepting, incoming, answers, strand, request_>>
    BY DEF ThrowInMain, HandlerThrowsInMain
  <1>2. CASE /\ ReadOperation \in in_flight[c] /\ Continue(c, ReadOperation, {})
             /\ UNCHANGED handling
    <2>1. in_flight[c] = {ReadOperation} /\ ~Handled(c) /\ ~Waits(c) /\ state[c] = "open"
      BY <1>2 DEF OneHolder
    <2>2. /\ in_flight' \in [Client -> SUBSET Operation]
          /\ in_flight'[c] = {} /\ \A d \in Client \ {c} : in_flight'[d] = in_flight[d]
      BY <1>2, <2>1, ContinueType
    <2> QED
      BY <1>1, <1>2, <2>1, <2>2 DEF Handled
  <1>3. ASSUME NEW r \in handling, r.client = c, handling' = handling \ {r},
               UNCHANGED in_flight
        PROVE  /\ in_flight' \in [Client -> SUBSET Operation] /\ state[c] = "open"
               /\ in_flight'[c] = {} /\ ~Handled(c)' /\ ~Waits(c)
               /\ \A d \in Client \ {c} : Handled(d)' <=> Handled(d)
    <2>1. handling = {r} /\ handling' = {}
      BY <1>3 DEF OneHolder
    <2>2. Handled(c) /\ \A d \in Client \ {c} : ~Handled(d)
      BY <1>3, <2>1 DEF Handled
    <2>3. in_flight[c] = {} /\ ~Waits(c) /\ state[c] = "open"
      BY <2>2 DEF OneHolder
    <2> QED
      BY <1>3, <2>1, <2>2, <2>3 DEF Handled, TypeOK
  <1> QED
    BY <1>1, <1>2, <1>3 DEF ThrowInMain, HandlerThrowsInMain

LEMMA TypeStep == TypeOK /\ OneHolder /\ [Next]_vars => TypeOK'
  <1> SUFFICES ASSUME TypeOK, OneHolder, [Next]_vars PROVE TypeOK'
    OBVIOUS
  <1> USE Operations
  <1>1. CASE Accept
    <2>1. PICK c \in Client : OnAccept(c)
      BY <1>1 DEF Accept
    <2> QED
      BY <2>1 DEF OnAccept, TypeOK, api_vars
  <1>2. CASE AcceptError
    BY <1>2 DEF AcceptError, OnAcceptError, TypeOK, session_vars, api_vars
  <1>3. ASSUME NEW c \in Client, Read(c) PROVE TypeOK'
    <2>1. PICK api \in BOOLEAN, keep_alive \in BOOLEAN : OnRead(c, api, keep_alive)
      BY <1>3 DEF Read
    <2> DEFINE r == [client |-> c, number |-> incoming[c] + 1, keep_alive |-> keep_alive]
    <2>2. /\ incoming' \in [Client -> 0 .. MaxRequests]
          /\ r \in Request /\ r.client = c
      BY <2>1, ConstantsAssumption DEF OnRead, TypeOK, Request
    <2>3. HandleRequest(r, api) /\ UNCHANGED <<running, accepting, state, answers>>
      BY <2>1 DEF OnRead
    <2> HIDE DEF r
    <2>4. CASE api
      <3>1. in_flight' \in [Client -> SUBSET Operation]
        BY <2>2, <2>3, <2>4, ContinueType DEF HandleRequest
      <3>2. strand' \in Seq(Request)
        BY <2>2, <2>3, <2>4, StrandAppend DEF HandleRequest, TypeOK
      <3> QED
        BY <2>2, <2>3, <2>4, <3>1, <3>2 DEF HandleRequest, TypeOK
    <2>5. CASE ~api
      <3>1. in_flight' \in [Client -> SUBSET Operation]
        BY <2>2, <2>3, <2>5, ContinueType DEF HandleRequest
      <3> QED
        BY <2>2, <2>3, <2>5, <3>1 DEF HandleRequest, TypeOK, api_vars
    <2> QED
      BY <2>4, <2>5
  <1>4. ASSUME NEW c \in Client, EndOfStream(c) \/ ReadError(c) PROVE TypeOK'
    <2>1. in_flight' \in [Client -> SUBSET Operation]
      BY <1>4, ContinueType DEF EndOfStream, OnEndOfStream, ReadError, OnReadError
    <2> QED
      BY <1>4, <2>1
      DEF EndOfStream, OnEndOfStream, ReadError, OnReadError, TypeOK, api_vars
  <1>5. ASSUME NEW c \in Client, Written(c) PROVE TypeOK'
    <2>1. PICK op \in in_flight[c] : OnWrite(c, op) \/ OnWriteError(c, op)
      BY <1>5 DEF Written
    <2>2. op.kind = "write" /\ op.response_to \in Request
      BY <2>1 DEF OnWrite, OnWriteError, TypeOK
    <2>3. in_flight' \in [Client -> SUBSET Operation]
      BY <2>1, ContinueType DEF OnWrite, OnWriteError
    <2>4. answers' \in [Client -> Seq(Request)]
      <3>1. answers[c] \in Seq(Request)
        BY DEF TypeOK
      <3>2. Append(answers[c], op.response_to) \in Seq(Request)
        BY <2>2, <3>1, AnswersAppend
      <3> QED
        BY <2>1, <3>2 DEF OnWrite, OnWriteError, TypeOK
    <2>5. state' \in [Client -> {"waiting", "open", "closed", "failed"}]
      BY <2>1 DEF OnWrite, OnWriteError, TypeOK
    <2> QED
      BY <2>1, <2>3, <2>4, <2>5 DEF OnWrite, OnWriteError, TypeOK, api_vars
  <1>6. CASE Begin
    BY <1>6, StrandHeadTail DEF Begin, BeginApiRequest, TypeOK, session_vars
  <1>7. CASE End
    <2>1. PICK r \in handling : EndApiRequest(r)
      BY <1>7 DEF End
    <2>2. request_ \in Request /\ r \in Request
      BY DEF OneHolder, TypeOK
    <2>3. r.client \in Client /\ WriteOperation(request_) \in Operation
      BY <2>2 DEF Request
    <2>4. in_flight' \in [Client -> SUBSET Operation]
      BY <2>1, <2>3 DEF EndApiRequest, TypeOK
    <2> QED
      BY <2>1, <2>4 DEF EndApiRequest, TypeOK
  <1>8. CASE Throw
    BY <1>8 DEF Throw, HandlerThrows, TypeOK, session_vars, api_vars
  <1>9. CASE UNCHANGED vars
    BY <1>9 DEF vars, TypeOK, session_vars, api_vars
  <1>10. ASSUME NEW c \in Client, ThrowInMain(c) PROVE TypeOK'
    BY <1>10, LetGo DEF TypeOK
  <1> QED
    BY <1>1, <1>2, <1>3, <1>4, <1>5, <1>6, <1>7, <1>8, <1>9, <1>10 DEF Next

-----------------------------------------------------------------------------
(* An open session is held once, a closed one not at all.                  *)
LEMMA HolderInit == Init => OneHolder
  BY DEF Init, OneHolder, Handled, Waits

LEMMA HolderStep == TypeOK /\ OneHolder /\ [Next]_vars => OneHolder'
  <1> SUFFICES ASSUME TypeOK, OneHolder, [Next]_vars PROVE OneHolder'
    OBVIOUS
  <1> USE Operations
  <1>1. CASE Accept
    <2>1. PICK c \in Client : OnAccept(c)
      BY <1>1 DEF Accept
    <2>2. in_flight[c] = {} /\ ~Handled(c) /\ ~Waits(c)
      BY <2>1 DEF OnAccept, OneHolder
    <2>3. /\ in_flight'[c] = {ReadOperation} /\ state'[c] = "open"
          /\ \A d \in Client \ {c} : in_flight'[d] = in_flight[d] /\ state'[d] = state[d]
          /\ UNCHANGED api_vars
      BY <2>1 DEF OnAccept, TypeOK
    <2>4. \A d \in Client : (Handled(d)' <=> Handled(d)) /\ (Waits(d)' <=> Waits(d))
      BY <2>3 DEF Handled, Waits, api_vars
    <2> QED
      BY <2>2, <2>3, <2>4 DEF OneHolder, api_vars
  <1>2. CASE AcceptError
    BY <1>2 DEF AcceptError, OnAcceptError, OneHolder, Handled, Waits, session_vars, api_vars
  <1>3. ASSUME NEW c \in Client, Read(c) PROVE OneHolder'
    <2>1. PICK api \in BOOLEAN, keep_alive \in BOOLEAN : OnRead(c, api, keep_alive)
      BY <1>3 DEF Read
    <2> DEFINE r == [client |-> c, number |-> incoming[c] + 1, keep_alive |-> keep_alive]
    <2>2. r \in Request /\ r.client = c
      BY <2>1, ConstantsAssumption DEF OnRead, TypeOK, Request
    <2>3. /\ HandleRequest(r, api) /\ UNCHANGED state
          /\ ReadOperation \in in_flight[c]
      BY <2>1 DEF OnRead
    <2> HIDE DEF r
    <2>4. in_flight[c] = {ReadOperation} /\ state[c] = "open" /\ ~Handled(c) /\ ~Waits(c)
      BY <2>3 DEF OneHolder
    <2>5. CASE api
      <3>1. /\ in_flight'[c] = {} /\ \A d \in Client \ {c} : in_flight'[d] = in_flight[d]
            /\ strand' = Append(strand, r) /\ UNCHANGED <<handling, request_>>
        BY <2>2, <2>3, <2>4, <2>5, ContinueType DEF HandleRequest
      <3>2. /\ Len(strand) \in Nat /\ Len(strand') = Len(strand) + 1
            /\ \A i \in 1 .. Len(strand) : strand'[i] = strand[i]
            /\ strand'[Len(strand) + 1] = r
        BY <2>2, <3>1, StrandAppend DEF TypeOK
      <3>3. Waits(c)' /\ \A d \in Client \ {c} : Waits(d)' <=> Waits(d)
        BY <2>2, <3>2 DEF Waits
      <3>4. \A d \in Client : Handled(d)' <=> Handled(d)
        BY <3>1 DEF Handled
      <3>5. \A i, j \in 1 .. Len(strand') : strand'[i].client = strand'[j].client => i = j
        BY <2>2, <2>4, <3>2 DEF OneHolder, Waits
      <3> QED
        BY <2>3, <2>4, <3>1, <3>3, <3>4, <3>5 DEF OneHolder
    <2>6. CASE ~api
      <3>1. /\ in_flight'[c] = {WriteOperation(r)}
            /\ \A d \in Client \ {c} : in_flight'[d] = in_flight[d]
            /\ UNCHANGED api_vars
        BY <2>2, <2>3, <2>4, <2>6, ContinueType DEF HandleRequest
      <3> QED
        BY <2>3, <2>4, <3>1 DEF OneHolder, Handled, Waits, api_vars
    <2> QED
      BY <2>5, <2>6
  <1>4. ASSUME NEW c \in Client, EndOfStream(c) \/ ReadError(c) PROVE OneHolder'
    <2>1. /\ ReadOperation \in in_flight[c] /\ Continue(c, ReadOperation, {})
          /\ UNCHANGED api_vars
          /\ state' = [state EXCEPT ![c] = "closed"] \/ state' = [state EXCEPT ![c] = "failed"]
      BY <1>4 DEF EndOfStream, OnEndOfStream, ReadError, OnReadError
    <2>2. /\ in_flight'[c] = in_flight[c] \ {ReadOperation}
          /\ \A d \in Client \ {c} : in_flight'[d] = in_flight[d]
      BY <2>1, ContinueType
    <2>3. in_flight'[c] = {} /\ ~Handled(c) /\ ~Waits(c)
      BY <2>1, <2>2 DEF OneHolder
    <2>4. state'[c] # "open" /\ \A d \in Client \ {c} : state'[d] = state[d]
      BY <2>1 DEF TypeOK
    <2> QED
      BY <2>1, <2>2, <2>3, <2>4 DEF OneHolder, Handled, Waits, api_vars
  <1>5. ASSUME NEW c \in Client, Written(c) PROVE OneHolder'
    <2>1. PICK op \in in_flight[c] : OnWrite(c, op) \/ OnWriteError(c, op)
      BY <1>5 DEF Written
    <2>2. in_flight[c] = {op} /\ ~Handled(c) /\ ~Waits(c) /\ state[c] = "open"
      BY <2>1 DEF OneHolder
    <2>3. /\ \A d \in Client \ {c} : in_flight'[d] = in_flight[d] /\ state'[d] = state[d]
          /\ \/ in_flight'[c] = {ReadOperation} /\ state'[c] = "open"
             \/ in_flight'[c] = {} /\ state'[c] # "open"
          /\ UNCHANGED api_vars
      <3>1. CASE OnWrite(c, op) /\ op.response_to.keep_alive
        <4>1. Continue(c, op, {ReadOperation}) /\ UNCHANGED state /\ UNCHANGED api_vars
          BY <3>1 DEF OnWrite
        <4> QED
          BY <2>2, <4>1, ContinueType
      <3>2. CASE OnWrite(c, op) /\ ~op.response_to.keep_alive
        <4>1. /\ Continue(c, op, {}) /\ state' = [state EXCEPT ![c] = "closed"]
              /\ UNCHANGED api_vars
          BY <3>2 DEF OnWrite
        <4>2. in_flight'[c] = {} /\ \A d \in Client \ {c} : in_flight'[d] = in_flight[d]
          BY <2>2, <4>1, ContinueType
        <4>3. state'[c] = "closed" /\ \A d \in Client \ {c} : state'[d] = state[d]
          BY <4>1 DEF TypeOK
        <4> QED
          BY <4>1, <4>2, <4>3
      <3>3. CASE OnWriteError(c, op)
        <4>1. /\ Continue(c, op, {}) /\ state' = [state EXCEPT ![c] = "failed"]
              /\ UNCHANGED api_vars
          BY <3>3 DEF OnWriteError
        <4>2. in_flight'[c] = {} /\ \A d \in Client \ {c} : in_flight'[d] = in_flight[d]
          BY <2>2, <4>1, ContinueType
        <4>3. state'[c] = "failed" /\ \A d \in Client \ {c} : state'[d] = state[d]
          BY <4>1 DEF TypeOK
        <4> QED
          BY <4>1, <4>2, <4>3
      <3> QED
        BY <2>1, <3>1, <3>2, <3>3
    <2> QED
      BY <2>2, <2>3 DEF OneHolder, Handled, Waits, api_vars
  <1>6. CASE Begin
    <2>1. /\ strand # <<>> /\ handling = {} /\ handling' = {Head(strand)}
          /\ request_' = Head(strand) /\ strand' = Tail(strand)
          /\ UNCHANGED <<in_flight, state>>
      BY <1>6 DEF Begin, BeginApiRequest, session_vars
    <2>2. /\ Len(strand) \in Nat /\ Len(strand) > 0
          /\ Head(strand) = strand[1] /\ Len(strand') = Len(strand) - 1
          /\ \A i \in 1 .. Len(strand) - 1 : strand'[i] = strand[i + 1]
      BY <2>1, StrandHeadTail DEF TypeOK
    <2>3. \A i, j \in 1 .. Len(strand') : strand'[i].client = strand'[j].client => i = j
      BY <2>2 DEF OneHolder
    <2>4. \A c \in Client : /\ Handled(c)' <=> strand[1].client = c
                            /\ Waits(c)' <=> Waits(c) /\ strand[1].client # c
      <3> SUFFICES ASSUME NEW c \in Client
                   PROVE  /\ Handled(c)' <=> strand[1].client = c
                          /\ Waits(c)' <=> Waits(c) /\ strand[1].client # c
        OBVIOUS
      <3>1. Handled(c)' <=> strand[1].client = c
        BY <2>1, <2>2 DEF Handled
      <3>2. ASSUME Waits(c)' PROVE Waits(c) /\ strand[1].client # c
        <4>1. PICK i \in 1 .. Len(strand) - 1 : strand'[i].client = c
          BY <2>2, <3>2 DEF Waits
        <4>2. i + 1 \in 1 .. Len(strand) /\ strand[i + 1].client = c /\ i + 1 # 1
          BY <2>2, <4>1
        <4> QED
          BY <2>2, <4>2 DEF Waits, OneHolder
      <3>3. ASSUME Waits(c), strand[1].client # c PROVE Waits(c)'
        <4>1. PICK i \in 1 .. Len(strand) : strand[i].client = c
          BY <3>3 DEF Waits
        <4>2. i - 1 \in 1 .. Len(strand) - 1 /\ strand'[i - 1] = strand[i - 1 + 1]
          BY <2>2, <3>3, <4>1
        <4>3. i - 1 + 1 = i
          BY <4>1
        <4> QED
          BY <2>2, <4>1, <4>2, <4>3 DEF Waits
      <3> QED
        BY <3>1, <3>2, <3>3
    <2>5. \A c \in Client : ~Handled(c) /\ (strand[1].client = c => Waits(c))
      BY <2>1, <2>2 DEF Handled, Waits
    <2> QED
      BY <2>1, <2>2, <2>3, <2>4, <2>5 DEF OneHolder
  <1>7. CASE End
    <2>1. PICK r \in handling : EndApiRequest(r)
      BY <1>7 DEF End
    <2>2. r \in Request /\ r = request_ /\ handling' = {} /\ r.client \in Client
      BY <2>1 DEF EndApiRequest, OneHolder, TypeOK, Request
    <2>3. Handled(r.client) /\ \A d \in Client \ {r.client} : ~Handled(d)
      BY <2>2 DEF Handled, OneHolder
    <2>4. in_flight[r.client] = {} /\ ~Waits(r.client) /\ state[r.client] = "open"
      BY <2>2, <2>3 DEF OneHolder
    <2>5. /\ in_flight'[r.client] = {WriteOperation(request_)}
          /\ \A d \in Client \ {r.client} : in_flight'[d] = in_flight[d]
          /\ UNCHANGED <<state, strand>>
      BY <2>1, <2>2, <2>4 DEF EndApiRequest, TypeOK
    <2>6. \A d \in Client : ~Handled(d)' /\ (Waits(d)' <=> Waits(d))
      BY <2>2, <2>5 DEF Handled, Waits
    <2> QED
      BY <2>2, <2>3, <2>4, <2>5, <2>6 DEF OneHolder
  <1>8. CASE Throw
    BY <1>8 DEF Throw, HandlerThrows, OneHolder, Handled, Waits, session_vars, api_vars
  <1>9. CASE UNCHANGED vars
    BY <1>9 DEF vars, OneHolder, Handled, Waits, session_vars, api_vars
  <1>10. ASSUME NEW c \in Client, ThrowInMain(c) PROVE OneHolder'
    <2>1. state'[c] = "failed" /\ \A d \in Client \ {c} : state'[d] = state[d]
      BY <1>10, LetGo DEF TypeOK
    <2>2. \A d \in Client : Waits(d)' <=> Waits(d)
      BY <1>10, LetGo DEF Waits
    <2> QED
      BY <1>10, <2>1, <2>2, LetGo DEF OneHolder
  <1> QED
    BY <1>1, <1>2, <1>3, <1>4, <1>5, <1>6, <1>7, <1>8, <1>9, <1>10 DEF Next

-----------------------------------------------------------------------------
(* Answers come in the order of the requests.                              *)
LEMMA OrderInit == Init => InOrder
  <1> SUFFICES ASSUME Init PROVE InOrder
    OBVIOUS
  <1>1. \A c \in Client : Len(answers[c]) = 0 /\ incoming[c] = 0 /\ DOMAIN answers[c] = {}
    BY DEF Init
  <1>2. Len(strand) = 0
    BY DEF Init
  <1> QED
    BY <1>1, <1>2 DEF Init, InOrder, AnswersMatchRequests

LEMMA OrderStep == TypeOK /\ OneHolder /\ InOrder /\ [Next]_vars => InOrder'
  <1> SUFFICES ASSUME TypeOK, OneHolder, InOrder, [Next]_vars PROVE InOrder'
    OBVIOUS
  <1> USE Operations
  <1>1. CASE Accept
    <2>1. PICK c \in Client : OnAccept(c)
      BY <1>1 DEF Accept
    <2>2. /\ in_flight'[c] = {ReadOperation} /\ state'[c] = "open" /\ state[c] = "waiting"
          /\ \A d \in Client \ {c} : in_flight'[d] = in_flight[d] /\ state'[d] = state[d]
          /\ UNCHANGED <<incoming, answers, api_vars>>
      BY <2>1 DEF OnAccept, TypeOK
    <2>3. Len(answers[c]) = incoming[c]
      BY <2>2 DEF InOrder
    <2> QED
      BY <2>2, <2>3 DEF InOrder, IsLast, AnswersMatchRequests, api_vars
  <1>2. CASE AcceptError
    BY <1>2 DEF AcceptError, OnAcceptError, InOrder, IsLast, AnswersMatchRequests,
                session_vars, api_vars
  <1>3. ASSUME NEW c \in Client, Read(c) PROVE InOrder'
    <2>1. PICK api \in BOOLEAN, keep_alive \in BOOLEAN : OnRead(c, api, keep_alive)
      BY <1>3 DEF Read
    <2>2. PICK r \in Request :
             /\ r = [client |-> c, number |-> incoming[c] + 1, keep_alive |-> keep_alive]
             /\ r.client = c /\ r.number = incoming[c] + 1
      <3>1. incoming[c] + 1 \in 1 .. MaxRequests
        BY <2>1, ConstantsAssumption DEF OnRead, TypeOK
      <3>2. [client |-> c, number |-> incoming[c] + 1, keep_alive |-> keep_alive] \in Request
        BY <3>1 DEF Request
      <3> QED
        BY <3>2
    <2>3. /\ HandleRequest(r, api) /\ UNCHANGED <<state, answers>>
          /\ ReadOperation \in in_flight[c]
          /\ incoming' = [incoming EXCEPT ![c] = @ + 1]
      BY <2>1, <2>2 DEF OnRead
    <2>4. /\ in_flight[c] = {ReadOperation} /\ state[c] = "open" /\ ~Handled(c) /\ ~Waits(c)
          /\ Len(answers[c]) = incoming[c]
      BY <2>3 DEF OneHolder, InOrder
    <2>5. /\ incoming'[c] = incoming[c] + 1 /\ incoming[c] \in Nat
          /\ \A d \in Client \ {c} : incoming'[d] = incoming[d]
      BY <2>3 DEF TypeOK
    <2>6. IsLast(r)'
      BY <2>2, <2>3, <2>4, <2>5 DEF IsLast
    <2>7. \A q \in Request : q.client # c /\ IsLast(q) => IsLast(q)'
      BY <2>3, <2>5 DEF IsLast, Request
    <2>8. \A q \in handling : q \in Request /\ q.client # c
      BY <2>4 DEF Handled, TypeOK
    <2>9. \A i \in 1 .. Len(strand) : strand[i] \in Request /\ strand[i].client # c
      BY <2>4, ElementOfSeq DEF Waits, TypeOK
    <2>10. \A d \in Client \ {c} : \A op \in in_flight[d] :
              IF op.kind = "read" THEN op = ReadOperation /\ Len(answers'[d]) = incoming'[d]
                                  ELSE IsLast(op.response_to)' /\ op.response_to.client = d
      <3> SUFFICES ASSUME NEW d \in Client \ {c}, NEW op \in in_flight[d]
                   PROVE  IF op.kind = "read"
                          THEN op = ReadOperation /\ Len(answers'[d]) = incoming'[d]
                          ELSE IsLast(op.response_to)' /\ op.response_to.client = d
        OBVIOUS
      <3>1. CASE op.kind = "read"
        BY <2>3, <2>5, <3>1 DEF InOrder
      <3>2. CASE op.kind # "read"
        <4>1. op.response_to \in Request /\ op.response_to.client = d /\ IsLast(op.response_to)
          BY <3>2 DEF InOrder, TypeOK
        <4> QED
          BY <2>7, <3>2, <4>1
      <3> QED
        BY <3>1, <3>2
    <2>11. /\ AnswersMatchRequests'
           /\ \A d \in Client : state'[d] = "waiting" => incoming'[d] = 0 /\ Len(answers'[d]) = 0
      BY <2>3, <2>4, <2>5 DEF InOrder, AnswersMatchRequests
    <2>12. CASE api
      <3>1. /\ in_flight'[c] = {} /\ \A d \in Client \ {c} : in_flight'[d] = in_flight[d]
            /\ strand' = Append(strand, r) /\ UNCHANGED <<handling, request_>>
        BY <2>2, <2>3, <2>4, <2>12, ContinueType DEF HandleRequest
      <3>2. /\ Len(strand) \in Nat /\ Len(strand') = Len(strand) + 1
            /\ \A i \in 1 .. Len(strand) : strand'[i] = strand[i]
            /\ strand'[Len(strand) + 1] = r
        BY <2>2, <3>1, StrandAppend DEF TypeOK
      <3>3. \A i \in 1 .. Len(strand') : IsLast(strand[i])'
        <4> SUFFICES ASSUME NEW i \in 1 .. Len(strand') PROVE IsLast(strand[i])'
          OBVIOUS
        <4>1. CASE i = Len(strand) + 1
          BY <2>6, <3>2, <4>1
        <4>2. CASE i \in 1 .. Len(strand)
          BY <2>7, <2>9, <3>2, <4>2 DEF InOrder
        <4> QED
          BY <3>2, <4>1, <4>2
      <3>4. \A q \in handling' : IsLast(q)'
        BY <2>7, <2>8, <3>1 DEF InOrder
      <3> QED
        BY <2>10, <2>11, <3>1, <3>3, <3>4 DEF InOrder
    <2>13. CASE ~api
      <3>1. /\ in_flight'[c] = {WriteOperation(r)}
            /\ \A d \in Client \ {c} : in_flight'[d] = in_flight[d]
            /\ UNCHANGED api_vars
        BY <2>2, <2>3, <2>4, <2>13, ContinueType DEF HandleRequest
      <3>2. /\ \A q \in handling' : IsLast(q)'
            /\ \A i \in 1 .. Len(strand') : IsLast(strand[i])'
        BY <2>7, <2>8, <2>9, <3>1 DEF InOrder, api_vars
      <3>3. \A op \in in_flight'[c] : /\ op.kind # "read"
                                      /\ IsLast(op.response_to)' /\ op.response_to.client = c
        BY <2>2, <2>6, <3>1
      <3> QED
        BY <2>10, <2>11, <3>1, <3>2, <3>3 DEF InOrder
    <2> QED
      BY <2>12, <2>13
  <1>4. ASSUME NEW c \in Client, EndOfStream(c) \/ ReadError(c) PROVE InOrder'
    <2>1. /\ Continue(c, ReadOperation, {}) /\ UNCHANGED <<incoming, answers, api_vars>>
          /\ state' = [state EXCEPT ![c] = "closed"] \/ state' = [state EXCEPT ![c] = "failed"]
      BY <1>4 DEF EndOfStream, OnEndOfStream, ReadError, OnReadError
    <2>2. \A d \in Client : in_flight'[d] \subseteq in_flight[d]
      BY <2>1, ContinueType
    <2>3. \A d \in Client : state'[d] = "waiting" => state[d] = "waiting"
      BY <2>1 DEF TypeOK
    <2> QED
      BY <2>1, <2>2, <2>3 DEF InOrder, IsLast, AnswersMatchRequests, api_vars
  <1>5. ASSUME NEW c \in Client, Written(c) PROVE InOrder'
    <2>1. PICK op \in in_flight[c] : OnWrite(c, op) \/ OnWriteError(c, op)
      BY <1>5 DEF Written
    <2>2. /\ in_flight[c] = {op} /\ op.kind = "write" /\ op.response_to \in Request
          /\ state[c] = "open" /\ ~Handled(c) /\ ~Waits(c)
      BY <2>1 DEF OneHolder, OnWrite, OnWriteError, TypeOK
    <2>3. /\ op.response_to.client = c /\ op.response_to.number = incoming[c]
          /\ Len(answers[c]) = incoming[c] - 1 /\ incoming[c] \in Nat
      <3>1. IsLast(op.response_to) /\ op.response_to.client = c
        BY <2>2 DEF InOrder
      <3> QED
        BY <3>1 DEF IsLast, TypeOK
    <2>4. CASE OnWriteError(c, op)
      <3>1. /\ Continue(c, op, {}) /\ UNCHANGED <<incoming, answers, api_vars>>
            /\ state' = [state EXCEPT ![c] = "failed"]
        BY <2>4 DEF OnWriteError
      <3>2. \A d \in Client : in_flight'[d] \subseteq in_flight[d]
        BY <3>1, ContinueType
      <3>3. \A d \in Client : state'[d] = "waiting" => state[d] = "waiting"
        BY <3>1 DEF TypeOK
      <3> QED
        BY <3>1, <3>2, <3>3 DEF InOrder, IsLast, AnswersMatchRequests, api_vars
    <2>5. CASE OnWrite(c, op)
      <3>1. /\ answers' = [answers EXCEPT ![c] = Append(@, op.response_to)]
            /\ UNCHANGED <<incoming, api_vars>>
            /\ Continue(c, op, {ReadOperation}) \/ Continue(c, op, {})
            /\ state' = [state EXCEPT ![c] = "closed"] \/ UNCHANGED state
        BY <2>5 DEF OnWrite
      <3>2. /\ in_flight'[c] \subseteq {ReadOperation}
            /\ \A d \in Client \ {c} : in_flight'[d] = in_flight[d]
        BY <2>2, <3>1, ContinueType
      <3>3. /\ answers'[c] = Append(answers[c], op.response_to) /\ answers[c] \in Seq(Request)
            /\ \A d \in Client \ {c} : answers'[d] = answers[d]
        BY <3>1 DEF TypeOK
      <3>4. /\ Len(answers'[c]) = incoming[c]
            /\ DOMAIN answers'[c] = 1 .. incoming[c] /\ DOMAIN answers[c] = 1 .. incoming[c] - 1
            /\ \A i \in 1 .. incoming[c] - 1 : answers'[c][i] = answers[c][i]
            /\ answers'[c][incoming[c]] = op.response_to
        BY <2>2, <2>3, <3>3, AnswersAppend
      <3>5. AnswersMatchRequests'
        <4> SUFFICES ASSUME NEW d \in Client, NEW i \in DOMAIN answers'[d]
                     PROVE  answers'[d][i].client = d /\ answers'[d][i].number = i
          BY DEF AnswersMatchRequests
        <4>1. CASE d # c
          BY <3>3, <4>1 DEF InOrder, AnswersMatchRequests
        <4>2. CASE d = c /\ i = incoming[c]
          BY <2>3, <3>4, <4>2
        <4>3. CASE d = c /\ i # incoming[c]
          <5>1. i \in 1 .. incoming[c] - 1
            BY <2>3, <3>4, <4>3
          <5> QED
            BY <3>4, <4>3, <5>1 DEF InOrder, AnswersMatchRequests
        <4> QED
          BY <4>1, <4>2, <4>3
      <3>6. \A d \in Client : state'[d] = "waiting" => state[d] = "waiting" /\ d # c
        BY <2>2, <3>1 DEF TypeOK
      <3>7. \A q \in Request : q.client # c /\ IsLast(q) => IsLast(q)'
        BY <3>1, <3>3 DEF IsLast, Request
      <3>8. /\ \A q \in handling' : IsLast(q)'
            /\ \A i \in 1 .. Len(strand') : IsLast(strand[i])'
        <4>1. \A q \in handling : q \in Request /\ q.client # c
          BY <2>2 DEF Handled, TypeOK
        <4>2. \A i \in 1 .. Len(strand) : strand[i] \in Request /\ strand[i].client # c
          BY <2>2, ElementOfSeq DEF Waits, TypeOK
        <4> QED
          BY <3>1, <3>7, <4>1, <4>2 DEF InOrder, api_vars
      <3>9. \A d \in Client : \A o \in in_flight'[d] :
               IF o.kind = "read" THEN o = ReadOperation /\ Len(answers'[d]) = incoming'[d]
                                  ELSE IsLast(o.response_to)' /\ o.response_to.client = d
        <4> SUFFICES ASSUME NEW d \in Client, NEW o \in in_flight'[d]
                     PROVE  IF o.kind = "read"
                            THEN o = ReadOperation /\ Len(answers'[d]) = incoming'[d]
                            ELSE IsLast(o.response_to)' /\ o.response_to.client = d
          OBVIOUS
        <4>1. CASE d = c
          BY <3>1, <3>2, <3>4, <4>1
        <4>2. CASE d # c /\ o.kind = "read"
          BY <3>1, <3>2, <3>3, <4>2 DEF InOrder
        <4>3. CASE d # c /\ o.kind # "read"
          <5>1. /\ o.response_to \in Request /\ o.response_to.client = d
                /\ IsLast(o.response_to)
            BY <3>2, <4>3 DEF InOrder, TypeOK
          <5> QED
            BY <3>7, <4>3, <5>1
        <4> QED
          BY <4>1, <4>2, <4>3
      <3> QED
        BY <3>1, <3>3, <3>5, <3>6, <3>8, <3>9 DEF InOrder
    <2> QED
      BY <2>1, <2>4, <2>5
  <1>6. CASE Begin
    <2>1. /\ strand # <<>> /\ handling' = {Head(strand)} /\ strand' = Tail(strand)
          /\ UNCHANGED session_vars
      BY <1>6 DEF Begin, BeginApiRequest
    <2>2. /\ Len(strand) \in Nat /\ Len(strand) > 0
          /\ Head(strand) = strand[1] /\ Len(strand') = Len(strand) - 1
          /\ \A i \in 1 .. Len(strand) - 1 : strand'[i] = strand[i + 1]
      BY <2>1, StrandHeadTail DEF TypeOK
    <2>3. \A q : IsLast(q)' <=> IsLast(q)
      BY <2>1 DEF IsLast, session_vars
    <2>4. \A q \in handling' : IsLast(q)'
      BY <2>1, <2>2, <2>3 DEF InOrder
    <2>5. ASSUME NEW i \in 1 .. Len(strand') PROVE IsLast(strand[i])'
      <3>1. i + 1 \in 1 .. Len(strand) /\ strand'[i] = strand[i + 1]
        BY <2>2
      <3>2. IsLast(strand[i + 1])
        BY <3>1 DEF InOrder
      <3> QED
        BY <2>1, <3>1, <3>2 DEF IsLast, session_vars
    <2> QED
      BY <2>1, <2>3, <2>4, <2>5 DEF InOrder, AnswersMatchRequests, session_vars
  <1>7. CASE End
    <2>1. PICK r \in handling : EndApiRequest(r)
      BY <1>7 DEF End
    <2>2. r \in Request /\ r = request_ /\ r.client \in Client
      BY <2>1 DEF OneHolder, TypeOK, Request
    <2>3. in_flight[r.client] = {}
      BY <2>1, <2>2 DEF OneHolder, Handled
    <2>4. /\ in_flight'[r.client] = {WriteOperation(r)}
          /\ \A d \in Client \ {r.client} : in_flight'[d] = in_flight[d]
          /\ handling' \subseteq handling
          /\ UNCHANGED <<state, incoming, answers, strand>>
      BY <2>1, <2>2, <2>3 DEF EndApiRequest, TypeOK
    <2>5. IsLast(r)
      BY <2>1 DEF InOrder
    <2>6. \A op \in in_flight'[r.client] :
             op.kind # "read" /\ op.response_to = r
      BY <2>2, <2>4
    <2> QED
      BY <2>4, <2>5, <2>6 DEF InOrder, IsLast, AnswersMatchRequests
  <1>8. CASE Throw
    BY <1>8 DEF Throw, HandlerThrows, InOrder, IsLast, AnswersMatchRequests,
                session_vars, api_vars
  <1>9. CASE UNCHANGED vars
    BY <1>9 DEF vars, InOrder, IsLast, AnswersMatchRequests, session_vars, api_vars
  <1>10. ASSUME NEW c \in Client, ThrowInMain(c) PROVE InOrder'
    <2>1. \A d \in Client : state'[d] = "waiting" => state[d] = "waiting"
      BY <1>10, LetGo DEF TypeOK
    <2>2. \A d \in Client : in_flight'[d] \subseteq in_flight[d]
      BY <1>10, LetGo
    <2>3. /\ handling' \subseteq handling /\ UNCHANGED <<incoming, answers, strand>>
      BY <1>10, LetGo
    <2> QED
      BY <2>1, <2>2, <2>3 DEF InOrder, IsLast, AnswersMatchRequests
  <1> QED
    BY <1>1, <1>2, <1>3, <1>4, <1>5, <1>6, <1>7, <1>8, <1>9, <1>10 DEF Next

-----------------------------------------------------------------------------
LEMMA InvInit == Init => Inv
  BY TypeInit, HolderInit, OrderInit DEF Inv

LEMMA InvStep == Inv /\ [Next]_vars => Inv'
  BY TypeStep, HolderStep, OrderStep DEF Inv

LEMMA InvHolds == Spec => []Inv
  BY InvInit, InvStep, PTL DEF Spec

(* Every variable of the server keeps its type.                            *)
THEOREM TypesHold == Spec => []TypeOK
  <1>1. Inv => TypeOK
    BY DEF Inv
  <1> QED
    BY <1>1, InvHolds, PTL

(* A session whose connection is open has one operation or handler that    *)
(* keeps it, neither none nor two; one whose connection is not has none.   *)
THEOREM SessionsAreHeldByOne == Spec => []HeldByOne
  <1>1. Inv => HeldByOne
    <2> SUFFICES ASSUME Inv, NEW c \in Client
                 PROVE  IF state[c] = "open" THEN Cardinality(Holders(c)) = 1
                                             ELSE Holders(c) = {}
      BY DEF HeldByOne
    <2> USE DEF Inv
    <2>1. \A j \in DOMAIN strand : j \in 1 .. Len(strand)
      BY LenProperties DEF TypeOK
    <2>2. CASE state[c] # "open"
      BY <2>1, <2>2 DEF OneHolder, Holders, Handled, Waits
    <2>3. CASE state[c] = "open"
      <3>1. \E h : Holders(c) = {h}
        <4>1. CASE in_flight[c] # {}
          <5>1. PICK op : in_flight[c] = {op}
            BY <4>1 DEF OneHolder
          <5>2. ~Handled(c) /\ ~Waits(c)
            BY <4>1 DEF OneHolder
          <5>3. Holders(c) = {op}
            BY <2>1, <5>1, <5>2 DEF Holders, Handled, Waits
          <5> QED
            BY <5>3
        <4>2. CASE Handled(c)
          <5>1. in_flight[c] = {} /\ ~Waits(c)
            BY <4>2 DEF OneHolder
          <5>2. {r \in handling : r.client = c} = {request_}
            BY <4>2 DEF OneHolder, Handled
          <5>3. Holders(c) = {request_}
            BY <2>1, <5>1, <5>2 DEF Holders, Waits
          <5> QED
            BY <5>3
        <4>3. CASE Waits(c)
          <5>1. PICK i \in 1 .. Len(strand) : strand[i].client = c
            BY <4>3 DEF Waits
          <5>2. in_flight[c] = {} /\ ~Handled(c)
            BY <4>3 DEF OneHolder
          <5>3. {j \in DOMAIN strand : strand[j].client = c} = {i}
            <6>1. DOMAIN strand = 1 .. Len(strand)
              BY LenProperties DEF TypeOK
            <6> QED
              BY <5>1, <6>1 DEF OneHolder
          <5>4. Holders(c) = {strand[i]}
            BY <5>2, <5>3 DEF Holders, Handled
          <5> QED
            BY <5>4
        <4> QED
          BY <2>3, <4>1, <4>2, <4>3 DEF OneHolder
      <3> QED
        BY <2>3, <3>1, FS_Singleton
    <2> QED
      BY <2>2, <2>3
  <1> QED
    BY <1>1, InvHolds, PTL

(* Responses come in the order of the requests, each made from the request *)
(* it answers, for any number of clients that share the one handler.       *)
THEOREM ResponsesMatchRequests == Spec => []AnswersMatchRequests
  <1>1. Inv => AnswersMatchRequests
    BY DEF Inv, InOrder
  <1> QED
    BY <1>1, InvHolds, PTL
=============================================================================
