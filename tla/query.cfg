CONSTANTS
    p1 = p1
    p2 = p2
    u1 = u1
    u2 = u2
    NoUuid = NoUuid
    Peers <- MCPeers
    Trusted <- MCTrusted
    Uuids <- MCUuids
    Stored <- MCStored
    Queries <- MCQueries
    MaxBeats = 2
    ConnFaults = TRUE
    BadMessages = TRUE
    LookupFaults = TRUE
    q1 = q1
    q2 = q2
    OutPeers = {}
    MaxOutFaults = 0
SPECIFICATION Spec
INVARIANT NoUseAfterFree
PROPERTY ImplementsResponder
PROPERTY QueriesAnswered
