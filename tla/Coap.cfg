SPECIFICATION Spec
CONSTANTS
    c1 = c1
    c2 = c2
    Clients = {c1, c2}
    MaxRetransmissions = 1
    MaxExchanges = 2
    ClientRecent = 1
    ServerRecent = 2
    MaxServerExchanges = 1
    Scenarios <- MCScenarios
INVARIANTS
    ExecutedOnce
    EndedOnce
    AnswersOwnRequest
    HeardOnce
    AckedIsHeard
PROPERTY
    ExchangesSettle
CHECK_DEADLOCK FALSE
