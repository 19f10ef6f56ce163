CONSTANTS
    p1 = p1
    p2 = p2
    u1 = u1
    u2 = u2
    q1 = q1
    q2 = q2
    NoUuid = NoUuid
    Peers = {}
    Trusted = {}
    Uuids <- MCUuids
    Stored <- MCStored
    Queries <- NoQueries
    MaxBeats = 3
    ConnFaults = FALSE
    BadMessages = FALSE
    LookupFaults = FALSE
    OutPeers = {q1}
    MaxOutFaults = 3
SPECIFICATION Spec
INVARIANT ServerNoUseAfterFree
PROPERTY PeerNotBlocked
