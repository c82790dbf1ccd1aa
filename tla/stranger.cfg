CONSTANTS
    IdleEnabled = TRUE
    IdleShutdown = 1
    WakeGrace = 1
    ActivityPoll = 1
    UserThreshold = 2
    GpuThreshold = 0
    NoReport = NoReport
    Users = {owner, guest}
    Owner = owner
    GpuReadings <- MCGpu
    MaxFileAge = 1
    TickWidth = 3
    MaxQuery = 0
    MaxSkew = 0
    MaxIdle = 2
    MaxMemory = 2
SPECIFICATION ASpec
INVARIANTS NobodyOverlooked
