\* Two clients with three requests each, to files and to the API.
\* Clients and requests are bounded, and the process may end: it may stop.
SPECIFICATION FairSpec
CONSTANTS
    a = a
    b = b
    Null = Null
    Client <- MCClients
    MaxRequests = 3
CHECK_DEADLOCK FALSE
INVARIANTS
    HeldByOne
    AnswersMatchRequests
PROPERTIES
    EveryRequestIsAnswered
    SilentClientsAreDropped
