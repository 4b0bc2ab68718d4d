SPECIFICATION DevicesSpec
CONSTANTS
    Wrap = 12
    MaxGap = 2
    DebounceMs = 3
    RowCount = 2
    SetupButtons = {"BOOT", "SETUP"}
    MinHoldMs = 3
    SettleMs = 2
    DurationMs = 5
    SlowMs = 5
    FastMs = 2
    n1 = n1
    n2 = n2
    Nodes = {n1, n2}
    HeartbeatMs = 3
    Inbox = 2
    MaxLine = 2
    Typed = 5
SYMMETRY NodesAlike
INVARIANTS
    DeviceTypes
    Settles
    KeySettles
    FlashesInTime
    CollisionFound
PROPERTIES
    OnlySteadyLevels
    PressesApart
    OnlyReadLevels
    RequestsExact
    StatusReadable
    LinesStayApart
