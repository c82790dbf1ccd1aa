CONSTANTS
    IdleEnabled = TRUE
    IdleShutdown = 1
    WakeGrace = 1
    ActivityPoll = 1
    UserThreshold = 1
    GpuThreshold = 0
    NoReport = NoReport
    Reports <- MCReports
    PcMacSet = FALSE
    AgentUrlSet = TRUE
    HostTimeout = 2
    WolResend = 1
    ModelTtl = 0
    RetriggerGuard = 0
    ConsecutiveChecks = 1
    UsesPowerOff = TRUE
    MaxStreams = 1
    MaxAwait = 0
    Horizon = 4
    Chats = {c1}
SPECIFICATION PFairSpec
PROPERTIES UnusedPcPowersOff
