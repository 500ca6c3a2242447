SPECIFICATION FairSpec
CONSTANTS
    k1 = k1
    k2 = k2
    Keys = {k1}
    Specs <- OwnPaths
    ControllerClass = kong
    Classes = {kong, other}
    NoObj = NoObj
    NoSpec = NoSpec
    Webhook = TRUE
    UserOps = {"create", "editSpec", "editClass", "delete", "finalize", "resync"}
    MaxLog = 6
    Faults = {"api", "skew"}
    MaxCrashes = 0
    MaxLate = 0
INVARIANTS
    CacheMirrorsKong
    RestIsRight
PROPERTIES
    ValidatedWhenServed
    KeepsPromise
    RemovedFromPortal
CHECK_DEADLOCK FALSE
