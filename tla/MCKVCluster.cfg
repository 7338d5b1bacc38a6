CONSTANTS
    c1 = c1
    c2 = c2
    Keys = {0, 1}
    Values = {0, 1}
    None = None
    Servers = {1, 2}
    Clients = {c1, c2}
    server_id <- MCserver_id
    NoClient = NoClient
    BatchSize = 1
    MaxBreaks = 1
    initial_leader = 1
    MaxRequests = 2
SPECIFICATION FairSpec
INVARIANTS
    TypeOK
    NobodyLeftBehind
    StartedAfterElection
    DatabasesAgree
    ClientsNeverPanic
    ResponsesCountedOnce
PROPERTIES
    Linearizable
    EveryClientStarts
    StartedClientsFinish
    RequestsAnswered
CHECK_DEADLOCK FALSE
