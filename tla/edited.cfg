SPECIFICATION FairSpec
CONSTANTS
    k1 = k1
    k2 = k2
    Keys = {k1}
    Specs <- OwnPaths
    ControllerClass = kong
    Classes = {kong, other}
    NoObj = NoObj
    NoSpec = NoSpec
    Webhook = TRUE
    UserOps = {"create", "editSpec"}
    MaxLog = 4
    Faults = {}
    MaxCrashes = 0
    MaxLate = 0
PROPERTIES
    LatestPublished
CHECK_DEADLOCK FALSE
