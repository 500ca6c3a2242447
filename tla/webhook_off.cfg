SPECIFICATION SinceSpec
CONSTANTS
    p1 = p1
    p2 = p2
    Replicas = {p1, p2}
    None = None
    Unset = Unset
    Unreadable = Unreadable
    Text <- Texts
    Empty = ""
    KeyPairs <- OnePair
    CAs = {"ca"}
    Configs <- SwitchedOff
    MaxChanges = 2
PROPERTIES
    OffNeedsNoCertificates
CHECK_DEADLOCK FALSE
