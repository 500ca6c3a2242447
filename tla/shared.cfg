SPECIFICATION Spec
CONSTANTS
    k1 = k1
    k2 = k2
    Keys = {k1, k2}
    Specs <- SharedPaths
    ControllerClass = kong
    Classes = {kong, other}
    NoObj = NoObj
    NoSpec = NoSpec
    Webhook = TRUE
    UserOps = {"create", "editSpec", "editClass", "delete"}
    MaxLog = 3
    Faults = {"kong", "api", "stale"}
    MaxCrashes = 1
    MaxLate = 1
INVARIANTS
    TypeOK
    PublishedWasRequested
    NeverForgotten
PROPERTIES
    KeepsPromise
    ValidatedWasPut
CHECK_DEADLOCK FALSE
