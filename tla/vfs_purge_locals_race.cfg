\* A local PUT accepted between the purge read of locals.idx and unindexLocals is deleted but stays indexed.
CONSTANTS
    u1 = u1
    u2 = u2
    c1 = c1
    c2 = c2
    UUIDs <- MCOneUUIDs
    Clients <- MCClients
    ShardOf <- MCOneShardOf
    NumShards = 2
    MaxRequests = 2
    MaxPurgeRounds = 1
    ClientOps = {"put", "purgeLocals"}
    WriteFaults = {}
    ReadFaults = FALSE
    DeleteFaults = FALSE
    Shutdowns = FALSE
    PullCallers = {}
SPECIFICATION Spec
INVARIANT ExistenceSound
