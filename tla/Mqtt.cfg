SPECIFICATION Spec
CONSTANTS
    c1 = c1
    Clients = {c1}
    MaxOutstanding = 2
    IdMax = 2
    MaxMessages = 2
    MaxConnections = 2
    MaxCuts = 1
    MaxClients = 2
    Scenarios <- MCScenarios
INVARIANTS
    AtMostOnce
    AckedIsForwarded
    SettledIsDelivered
    NoProtocolError
    WillOnLossOnly
PROPERTY
    ExchangeCompletes
CHECK_DEADLOCK FALSE
