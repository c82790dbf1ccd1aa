CONSTANTS
    IdleEnabled = TRUE
    IdleShutdown = 1
    WakeGrace = 1
    ActivityPoll = 1
    UserThreshold = 2
    GpuThreshold = 0
    NoReport = NoReport
    Users = {owner}
    Owner = owner
    GpuReadings <- MCGpu
    MaxFileAge = 1
    TickWidth = 3
    MaxQuery = 1
    MaxSkew = 1
    MaxIdle = 4
    MaxMemory = 5
    MaxAwait = 1
SPECIFICATION SSpec
INVARIANTS OwnerNotOverlooked OwnerNotCutOff
