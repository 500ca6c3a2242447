SPECIFICATION FairSpec
CONSTANTS
    k1 = k1
    k2 = k2
    Keys = {k1}
    Specs <- OwnPaths
    ControllerClass = kong
    Classes = {kong, other}
    NoObj = NoObj
    NoSpec = NoSpec
    Webhook = TRUE
    UserOps = {"create", "delete"}
    MaxLog = 3
    Faults = {"kong"}
    MaxCrashes = 0
    MaxLate = 0
PROPERTIES
    RemovedFromPortal
CHECK_DEADLOCK FALSE
