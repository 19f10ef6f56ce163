\* Push replication: two stored assets, the slave already holding one of
\* them, the slave first at e1, then one settings reload that moves it to
\* e2 or removes it, one broken link and refused authentication.
CONSTANTS
    a1 = a1
    a2 = a2
    e1 = e1
    e2 = e2
    NoAsset = NoAsset
    NoSlave = NoSlave
    NoEndpoint = NoEndpoint
    Assets <- MCAssets
    Endpoints <- MCEndpoints
    SlaveInitial <- MCSlaveHas
    InitialSettings <- MCFirstEndpoint
    MAX_QUEUE_SIZE = 0
    MaxReloads = 1
    MaxLinkFaults = 1
    AuthFailures = TRUE
    SlaveWriteFaults = FALSE
SPECIFICATION Spec
CHECK_DEADLOCK FALSE
INVARIANT Serialized RASNotFreedWhileBusy
PROPERTY PushDrains ImplementsPushStream
