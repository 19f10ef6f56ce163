\* Both cache modes, every request type, write failures, a throwing STORED_IDS index read and peer resets: one operation in flight per connection, reads see acknowledged writes, and every request but PURGE and a dropped STORED_IDS is answered.
CONSTANTS
    c1 = c1
    c2 = c2
    u1 = u1
    u2 = u2
    Invalid = Invalid
    Clients <- MCClients
    UUIDs <- MCUUIDs
    Locals <- MCLocals
    MeshAssets <- MCMeshAssets
    Requests = {"get", "getNC", "put", "purge", "test", "purgeLocals", "status", "ids", "bad"}
    CacheModes = {TRUE, FALSE}
    CacheCapacity = 1
    MaxRequests <- MCMaxRequests
    WriteFaults = {"storageError", "ioError"}
    ReadFaults = TRUE
    ConnFaults = TRUE
SPECIFICATION Spec
 
INVARIANT ReadYourWrites
 
