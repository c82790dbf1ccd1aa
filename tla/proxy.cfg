CONSTANTS
    IdleEnabled = FALSE
    IdleShutdown = 1
    WakeGrace = 1
    ActivityPoll = 1
    UserThreshold = 1
    GpuThreshold = 0
    NoReport = NoReport
    Reports <- NoReports
    PcMacSet = FALSE
    AgentUrlSet = FALSE
    HostTimeout = 2
    WolResend = 1
    ModelTtl = 0
    RetriggerGuard = 0
    ConsecutiveChecks = 1
    UsesPowerOff = TRUE
    MaxStreams = 2
    MaxAwait = 0
    Horizon = 4
    Chats = {c1, c2}
SPECIFICATION PSpec
SYMMETRY ChatSymmetry
INVARIANTS StreamCount
PROPERTIES ImplementsBroker
