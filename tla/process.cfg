SPECIFICATION FairSpec
CONSTANTS
    k1 = k1
    Keys = {k1}
    Specs <- Pages
    Unset = Unset
    Policy = "Fail"
    Operations = {"CREATE", "DELETE"}
    Resources = {"kongfiles", "others"}
    MaxReviews = 2
    Lines <- CommandLines
    MaxStarts = 2
INVARIANTS
    TypeOK
    
    ProfilerAskedFor
    HeadersArrive
PROPERTIES
    StopsOnSignal
    SenderIsReleased
CHECK_DEADLOCK FALSE
