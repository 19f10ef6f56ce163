\* A client PUT runs between the pull thread's existence check and its addNewId, and the first write's SQLite error rolls back the index entry of the stored second copy.
CONSTANTS
    u1 = u1
    u2 = u2
    c1 = c1
    c2 = c2
    UUIDs <- MCOneUUIDs
    Clients <- MCClients
    ShardOf <- MCOneShardOf
    NumShards = 1
    MaxRequests = 1
    MaxPurgeRounds = 0
    ClientOps = {"get", "put"}
    WriteFaults = {}
    ReadFaults = FALSE
    DeleteFaults = FALSE
    Shutdowns = FALSE
    PullCallers = {c1}
SPECIFICATION Spec
INVARIANT ReadNeverOvertakesWrite
