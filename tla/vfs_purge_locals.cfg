\* All calls, write and read failures, purge-locals and shutdown: the existence index covers the disk and reads follow writes.
CONSTANTS
    u1 = u1
    u2 = u2
    c1 = c1
    c2 = c2
    UUIDs <- MCUUIDs
    Clients <- MCClients
    ShardOf <- MCShardOf
    NumShards = 2
    MaxRequests = 2
    MaxPurgeRounds = 1
    ClientOps = {"get", "put", "purge", "purgeLocals", "status", "ids"}
    WriteFaults = {"storageError", "indexError"}
    ReadFaults = TRUE
    DeleteFaults = FALSE
    Shutdowns = TRUE
    PullCallers = {}
SPECIFICATION Spec
SYMMETRY MCSymmetry
INVARIANT TypeOK
INVARIANT ExistenceComplete
