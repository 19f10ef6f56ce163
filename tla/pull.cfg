\* A sweep of two prefixes with batches of one, a local PUT of a listed asset, one fault of any kind and a switch to another master: in-progress assets stay tracked, no busy RAS is freed, every listed asset arrives, stop ends the thread.
CONSTANTS
    a1 = a1
    a2 = a2
    m1 = m1
    m2 = m2
    NoAsset = NoAsset
    NoMaster = NoMaster
    Assets <- MCAssets
    Masters <- MCMasters
    InitialMasters <- MCFirstMaster
    ReloadMasters <- MCOtherMaster
    LastPrefix = 1
    StartAt = 0
    MasterIds <- MCMasterIds
    BatchSize = 1
    ClientAssets <- MCClientAssets
    MaxReloads = 1
    MaxFaults = 1
    AuthFailures = FALSE
    AuthPhaseFaults = FALSE
    MasterErrors = TRUE
    WriteFaults = TRUE
SPECIFICATION Spec
CHECK_DEADLOCK FALSE
INVARIANT InProgressTracked
INVARIANT RASNotFreedWhileBusy
PROPERTY Replicates
PROPERTY StopTerminates
