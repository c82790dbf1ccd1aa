CONSTANTS
    IdleEnabled = FALSE
    IdleShutdown = 1
    WakeGrace = 1
    ActivityPoll = 1
    UserThreshold = 1
    GpuThreshold = 0
    NoReport = NoReport
    Reports <- NoReports
    PcMacSet = TRUE
    AgentUrlSet = TRUE
    HostTimeout = 4
    WolResend = 2
    ModelTtl = 1
    RetriggerGuard = 1
    ConsecutiveChecks = 1
    UsesPowerOff = TRUE
    MaxStreams = 0
    MaxAwait = 1
    Horizon = 9
SPECIFICATION Spec
INVARIANTS WakeDeadline ResendCadence
PROPERTIES RetriedBeforeGiveUp WakeSettles ImplementsWakeLife
