SPECIFICATION FairHandoverSpec
CONSTANTS
    k1 = k1
    Keys = {k1}
    Specs <- TwoContents
    ControllerClass = kong
    Classes = {kong}
    NoObj = NoObj
    NoSpec = NoSpec
    Webhook = TRUE
    UserOps = {"create", "editSpec", "delete", "finalize"}
    MaxLog = 4
    Faults = {"kong", "api", "stale"}
    MaxCrashes = 1
    MaxLate = 1
INVARIANTS
    ServedUnlessOvertaken
PROPERTIES
    KeepsPromise
    ValidatedByItsPublisher
    EventuallyValidated
CHECK_DEADLOCK FALSE
