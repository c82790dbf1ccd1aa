CONSTANTS
    IdleEnabled = TRUE
    IdleShutdown = 2
    WakeGrace = 2
    ActivityPoll = 1
    UserThreshold = 1
    GpuThreshold = 0
    NoReport = NoReport
    Reports <- MCReports
    PcMacSet = TRUE
    AgentUrlSet = TRUE
    HostTimeout = 2
    WolResend = 1
    ModelTtl = 0
    RetriggerGuard = 0
    ConsecutiveChecks = 2
    UsesPowerOff = FALSE
    MaxStreams = 1
    MaxAwait = 0
    Horizon = 4
SPECIFICATION HSpec
INVARIANTS StatusConsistent TickOwnsReady
PROPERTIES NoAutoOffWhileUsed PinRestartsRow
