SPECIFICATION Spec
CONSTANTS
    k1 = k1
    k2 = k2
    Keys = {k1}
    Specs <- OwnPaths
    ControllerClass = kong
    Classes = {kong, other}
    NoObj = NoObj
    NoSpec = NoSpec
    Webhook = TRUE
    UserOps = {"create", "delete", "finalize"}
    MaxLog = 3
    Faults = {}
    MaxCrashes = 0
    MaxLate = 0
INVARIANTS
    CallsOnlyForClaimed
CHECK_DEADLOCK FALSE
