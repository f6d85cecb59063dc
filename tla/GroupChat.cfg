SPECIFICATION ChatSpec
CONSTANTS
    None = None
    Calls = {e1, e2}
    Margin = 2
    Latency = 1
    Lives = {3}
    Horizon = 4
    Roles = {"prod", "dr"}
    Configured = {"prod", "dr"}
    FirstRole = "prod"
    DiskFails = FALSE
    MaxSwaps = 1
    MaxBoots = 1
INVARIANTS
    MintIsShared
    TokenOutlivesItsCalls
    RepliesReachTheirChannel
    GroupIdsAreOwn
    SwitchIsKept
PROPERTIES
    ThereIsAWayOut
