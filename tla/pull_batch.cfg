\* Batches of two with a local PUT, a master switch, one fault of any kind, master errors and write failures, up to two requests queued on a closed RemoteAssetService: in-progress assets stay tracked and no busy RAS is freed.
CONSTANTS
    a1 = a1
    a2 = a2
    m1 = m1
    m2 = m2
    NoAsset = NoAsset
    NoMaster = NoMaster
    Assets <- MCAssets
    Masters <- MCMasters
    InitialMasters <- MCFirstMaster
    ReloadMasters <- MCOtherMaster
    LastPrefix = 1
    StartAt = 0
    MasterIds <- MCMasterIds
    BatchSize = 2
    ClientAssets <- MCClientAssets
    MaxReloads = 1
    MaxFaults = 1
    AuthFailures = FALSE
    AuthPhaseFaults = FALSE
    MasterErrors = TRUE
    WriteFaults = TRUE
SPECIFICATION Spec
CHECK_DEADLOCK FALSE
CONSTRAINT MCTransferQueueBound
INVARIANT InProgressTracked
INVARIANT RASNotFreedWhileBusy
