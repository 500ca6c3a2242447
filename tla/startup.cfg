SPECIFICATION SinceSpec
CONSTANTS
    p1 = p1
    p2 = p2
    Replicas = {p1, p2}
    None = None
    Unset = Unset
    Unreadable = Unreadable
    Text <- Texts
    Empty = ""
    KeyPairs <- OnePair
    CAs = {"ca"}
    Configs <- CommandLines
    MaxChanges = 2
INVARIANTS
    TypeOK
    WorkspaceBeforeUse
    LeaderSupported
    OnlyCoherent
PROPERTIES
    AllRun
    SomebodyReconciles
CHECK_DEADLOCK FALSE
