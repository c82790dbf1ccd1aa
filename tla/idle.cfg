CONSTANTS
    IdleEnabled = TRUE
    IdleShutdown = 2
    WakeGrace = 1
    ActivityPoll = 2
    UserThreshold = 1
    GpuThreshold = 0
    NoReport = NoReport
    Reports <- MCReports
    PcMacSet = FALSE
    AgentUrlSet = TRUE
    HostTimeout = 3
    WolResend = 1
    ModelTtl = 0
    RetriggerGuard = 2
    ConsecutiveChecks = 2
    UsesPowerOff = TRUE
    MaxStreams = 1
    MaxAwait = 1
    Horizon = 8
SPECIFICATION Spec
INVARIANTS TypeOK LateComersOnly
PROPERTIES IdleShutdownRequested ImplementsIdleWatch
