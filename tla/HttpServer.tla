----------------------------- MODULE HttpServer -----------------------------
(***************************************************************************)
(* The HTTP server (src/src/web/http_server.h, http_server.cpp) and the    *)
(* way of a request to its handler and back (request_handler.h,            *)
(* api_handler.cpp).                                                       *)
(*                                                                         *)
(* The listener accepts connections; a session reads a request, has it     *)
(* handled, writes the response and reads again.  All handlers run on a    *)
(* pool of threads.  A request for a file is answered where it was read; a *)
(* request to the API is dispatched to one strand for the whole server,    *)
(* whose handler keeps the request in a member that all requests share.    *)
(*                                                                         *)
(* Each operation of a session or the strand in flight holds a shared_ptr  *)
(* to the session; with the last of them the session and its socket go.    *)
(***************************************************************************)
EXTENDS Naturals, Sequences, FiniteSets

CONSTANTS
    Client,        \* connections that clients try to make
    MaxRequests,   \* bound: requests a client sends over its connection
    Null           \* no request

ASSUME ConstantsAssumption == MaxRequests \in Nat

VARIABLES
    running,       \* has no exception ended the process?
    accepting,     \* is an async_accept in flight?
    state,         \* client -> of its connection, as the session sees it
    in_flight,     \* client -> operations in flight on its stream
    incoming,      \* client -> number of requests read
    answers,       \* client -> requests that the responses it got were made from
    strand,        \* API requests dispatched, in order
    handling,      \* API requests whose handler has begun
    request_       \* ApiHandler::request_

session_vars == <<state, in_flight, incoming, answers>>
api_vars == <<strand, handling, request_>>
vars == <<running, accepting, session_vars, api_vars>>

(* A request is of a client, its so many-th, and asks to keep the          *)
(* connection or not.                                                      *)
Request == [client : Client, number : 1 .. MaxRequests, keep_alive : BOOLEAN]

(* Writing a response carries the request that the response was made from. *)
Operation == [kind : {"read"}, response_to : {Null}]
             \cup [kind : {"write"}, response_to : Request]
ReadOperation == [kind |-> "read", response_to |-> Null]
WriteOperation(r) == [kind |-> "write", response_to |-> r]

Init ==
    /\ running = TRUE /\ accepting = TRUE
    /\ state = [c \in Client |-> "waiting"]
    /\ in_flight = [c \in Client |-> {}]
    /\ incoming = [c \in Client |-> 0]
    /\ answers = [c \in Client |-> <<>>]
    /\ strand = <<>> /\ handling = {} /\ request_ = Null

(* Operation op of c is over, and next are begun.                          *)
Continue(c, op, next) ==
    in_flight' = [in_flight EXCEPT ![c] = (@ \ {op}) \cup next]

-----------------------------------------------------------------------------
(* A connection is accepted and its session begins to read; the listener   *)
(* accepts the next.                                                       *)
OnAccept(c) ==
    /\ accepting /\ state[c] = "waiting"
    /\ state' = [state EXCEPT ![c] = "open"]
    /\ in_flight' = [in_flight EXCEPT ![c] = {ReadOperation}]
    /\ UNCHANGED <<running, accepting, incoming, answers, api_vars>>

(* An error is reported, and nothing accepted any more.                    *)
OnAcceptError ==
    /\ accepting
    /\ accepting' = FALSE
    /\ UNCHANGED <<running, session_vars, api_vars>>

(* Bug: an API request is not dispatched, but handled where it was read.   *)
HandleRequestAtOnce(r, api) ==
    IF api
    THEN /\ Continue(r.client, ReadOperation, {})
         /\ handling' = handling \cup {r}
         /\ request_' = r
         /\ UNCHANGED strand
    ELSE /\ Continue(r.client, ReadOperation, {WriteOperation(r)})
         /\ UNCHANGED api_vars

(* Bug: a request that finds the strand busy is not queued.                *)
HandleRequestIfIdle(r, api) ==
    IF api
    THEN /\ Continue(r.client, ReadOperation, {})
         /\ strand' = IF strand = <<>> /\ handling = {} THEN <<r>> ELSE strand
         /\ UNCHANGED <<handling, request_>>
    ELSE /\ Continue(r.client, ReadOperation, {WriteOperation(r)})
         /\ UNCHANGED api_vars

(* A request is handled where it was read, or dispatched to the strand.    *)
HandleRequest(r, api) ==
    IF api
    THEN /\ Continue(r.client, ReadOperation, {})
         /\ strand' = Append(strand, r)
         /\ UNCHANGED <<handling, request_>>
    ELSE /\ Continue(r.client, ReadOperation, {WriteOperation(r)})
         /\ UNCHANGED api_vars

OnRead(c, api, keep_alive) ==
    /\ ReadOperation \in in_flight[c]
    /\ incoming[c] < MaxRequests
    /\ incoming' = [incoming EXCEPT ![c] = @ + 1]
    /\ HandleRequest([client |-> c, number |-> incoming[c] + 1, keep_alive |-> keep_alive], api)
    /\ UNCHANGED <<running, accepting, state, answers>>

(* The client has closed its side: so does the session.                    *)
OnEndOfStream(c) ==
    /\ ReadOperation \in in_flight[c]
    /\ state' = [state EXCEPT ![c] = "closed"]
    /\ Continue(c, ReadOperation, {})
    /\ UNCHANGED <<running, accepting, incoming, answers, api_vars>>

(* Bug: a read that failed is tried again.                                 *)
OnReadErrorRetry(c) ==
    /\ ReadOperation \in in_flight[c]
    /\ Continue(c, ReadOperation, {ReadOperation})
    /\ UNCHANGED <<running, accepting, state, incoming, answers, api_vars>>

(* The 30 seconds of a read are over, or it failed otherwise.              *)
OnReadError(c) ==
    /\ ReadOperation \in in_flight[c]
    /\ state' = [state EXCEPT ![c] = "failed"]
    /\ Continue(c, ReadOperation, {})
    /\ UNCHANGED <<running, accepting, incoming, answers, api_vars>>

-----------------------------------------------------------------------------
(* The strand runs its handlers one after the other, in whatever thread.   *)
BeginApiRequest ==
    /\ strand # <<>> /\ handling = {}
    /\ handling' = {Head(strand)}
    /\ request_' = Head(strand)
    /\ strand' = Tail(strand)
    /\ UNCHANGED <<running, accepting, session_vars>>

(* The response is made from the member, and sent by the session that the  *)
(* handler holds.                                                          *)
EndApiRequest(r) ==
    /\ r \in handling
    /\ handling' = handling \ {r}
    /\ in_flight' = [in_flight EXCEPT ![r.client] = @ \cup {WriteOperation(request_)}]
    /\ UNCHANGED <<running, accepting, state, incoming, answers, strand, request_>>

(* The response is written.  The session reads on, unless the response     *)
(* needs the end of the stream.                                            *)
(* Bug: OnWrite does not return after it has closed.                       *)
OnWriteReadsOn(c, op) ==
    /\ op \in in_flight[c] /\ op.kind = "write"
    /\ answers' = [answers EXCEPT ![c] = Append(@, op.response_to)]
    /\ Continue(c, op, {ReadOperation})
    /\ state' = IF op.response_to.keep_alive THEN state
                ELSE [state EXCEPT ![c] = "closed"]
    /\ UNCHANGED <<running, accepting, incoming, api_vars>>

OnWrite(c, op) ==
    /\ op \in in_flight[c] /\ op.kind = "write"
    /\ answers' = [answers EXCEPT ![c] = Append(@, op.response_to)]
    /\ IF op.response_to.keep_alive
       THEN /\ Continue(c, op, {ReadOperation})
            /\ UNCHANGED state
       ELSE /\ Continue(c, op, {})
            /\ state' = [state EXCEPT ![c] = "closed"]
    /\ UNCHANGED <<running, accepting, incoming, api_vars>>

OnWriteError(c, op) ==
    /\ op \in in_flight[c] /\ op.kind = "write"
    /\ state' = [state EXCEPT ![c] = "failed"]
    /\ Continue(c, op, {})
    /\ UNCHANGED <<running, accepting, incoming, answers, api_vars>>

(* Exceptions that nothing catches on the way to io_context::run: from the *)
(* endpoint of a client that has gone, a file that cannot be opened, or a  *)
(* handler of the API.  In a worker thread they end the process.           *)
HandlerThrows ==
    /\ handling # {} \/ \E c \in Client : ReadOperation \in in_flight[c] /\ incoming[c] < MaxRequests
    /\ running' = FALSE
    /\ UNCHANGED <<accepting, session_vars, api_vars>>

(* The main thread waits for the workers, which go on: only the session    *)
(* that the handler held is let go, and its socket with it.                *)
HandlerThrowsInMain(c) ==
    /\ \/ /\ ReadOperation \in in_flight[c] /\ incoming[c] < MaxRequests
          /\ Continue(c, ReadOperation, {})
          /\ UNCHANGED handling
       \/ \E r \in handling :
             /\ r.client = c
             /\ handling' = handling \ {r}
             /\ UNCHANGED in_flight
    /\ state' = [state EXCEPT ![c] = "failed"]
    /\ UNCHANGED <<running, accepting, incoming, answers, strand, request_>>

-----------------------------------------------------------------------------
Accept == running /\ \E c \in Client : OnAccept(c)
AcceptError == running /\ OnAcceptError
Read(c) == running /\ \E api, keep_alive \in BOOLEAN : OnRead(c, api, keep_alive)
EndOfStream(c) == running /\ OnEndOfStream(c)
ReadError(c) == running /\ OnReadError(c)
Begin == running /\ BeginApiRequest
End == running /\ \E r \in handling : EndApiRequest(r)
Written(c) ==
    running /\ \E op \in in_flight[c] : OnWrite(c, op) \/ OnWriteError(c, op)
Throw == running /\ HandlerThrows
ThrowInMain(c) == running /\ HandlerThrowsInMain(c)

Next ==
    \/ Accept
    \/ AcceptError
    \/ \E c \in Client : Read(c) \/ EndOfStream(c) \/ ReadError(c) \/ Written(c)
                          \/ ThrowInMain(c)
    \/ Begin
    \/ End
    \/ Throw

Spec == Init /\ [][Next]_vars

(* What the server has begun comes to an end: a read at the latest when    *)
(* its 30 seconds are over, a write with the same clock, a handler of the  *)
(* API as a call that returns.  Clients need not do anything.              *)
FairSpec ==
    /\ Spec
    /\ WF_vars(Begin) /\ WF_vars(End)
    /\ \A c \in Client : WF_vars(ReadError(c)) /\ WF_vars(Written(c))

-----------------------------------------------------------------------------
TypeOK ==
    /\ running \in BOOLEAN /\ accepting \in BOOLEAN
    /\ state \in [Client -> {"waiting", "open", "closed", "failed"}]
    /\ in_flight \in [Client -> SUBSET Operation]
    /\ incoming \in [Client -> 0 .. MaxRequests]
    /\ answers \in [Client -> Seq(Request)]
    /\ strand \in Seq(Request)
    /\ handling \in SUBSET Request
    /\ request_ \in Request \cup {Null}

(* What holds a shared_ptr to the session of c: operations on its stream,  *)
(* and its requests on the strand.                                         *)
Holders(c) ==
    in_flight[c]
    \cup {r \in handling : r.client = c}
    \cup {strand[i] : i \in {j \in DOMAIN strand : strand[j].client = c}}

(* A session whose connection is open is held by exactly one operation or  *)
(* handler, so that it goes on and its stream has one user; one that has   *)
(* closed or failed is held by none, so that its socket goes.              *)
HeldByOne ==
    \A c \in Client : IF state[c] = "open" THEN Cardinality(Holders(c)) = 1
                                           ELSE Holders(c) = {}

(* Every client gets its responses in the order of its requests, each made *)
(* from the request it answers and from nobody else's, though all requests *)
(* to the API pass through one member.                                     *)
AnswersMatchRequests ==
    \A c \in Client : \A i \in DOMAIN answers[c] :
        answers[c][i].client = c /\ answers[c][i].number = i

(* Every request that was read is answered, unless its connection fails or *)
(* an exception ends the process.                                          *)
EveryRequestIsAnswered ==
    \A c \in Client : \A n \in 1 .. MaxRequests :
        incoming[c] >= n ~> (Len(answers[c]) >= n \/ state[c] = "failed" \/ ~running)

(* A client that goes silent does not keep its session: a read ends in a   *)
(* request or in the end of the connection.                                *)
SilentClientsAreDropped ==
    \A c \in Client : \A n \in 0 .. MaxRequests :
        (state[c] = "open" /\ incoming[c] = n)
            ~> (incoming[c] > n \/ state[c] # "open" \/ ~running)
=============================================================================
