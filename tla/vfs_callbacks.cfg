\* Calls that are answered, with write and delete failures: every waiting client gets its callback.
CONSTANTS
    u1 = u1
    u2 = u2
    c1 = c1
    c2 = c2
    UUIDs <- MCOneUUIDs
    Clients <- MCClients
    ShardOf <- MCOneShardOf
    NumShards = 2
    MaxRequests = 2
    MaxPurgeRounds = 1
    ClientOps = {"get", "put", "purgeLocals", "status", "ids"}
    WriteFaults = {"storageError", "indexError"}
    ReadFaults = FALSE
    DeleteFaults = TRUE
    Shutdowns = FALSE
    PullCallers = {c1}
SPECIFICATION Spec
PROPERTY CallbacksDelivered
