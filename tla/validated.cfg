SPECIFICATION FairSpec
CONSTANTS
    k1 = k1
    k2 = k2
    Keys = {k1}
    Specs <- SharedPaths
    ControllerClass = kong
    Classes = {kong, other}
    NoObj = NoObj
    NoSpec = NoSpec
    Webhook = TRUE
    UserOps = {"create", "editClass", "delete", "finalize"}
    MaxLog = 5
    Faults = {"kong", "api"}
    MaxCrashes = 2
    MaxLate = 0
PROPERTIES
    ValidatedWhenServed
    EventuallyValidated
    LatestPublished
    Quiesces
CHECK_DEADLOCK FALSE
