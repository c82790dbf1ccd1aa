CONSTANTS
    IdleEnabled = TRUE
    IdleShutdown = 1
    WakeGrace = 1
    ActivityPoll = 1
    UserThreshold = 1
    GpuThreshold = 1
    NoReport = NoReport
    Reports <- MCReports
    Ages <- MCAges
    Streams <- MCStreams
SPECIFICATION Spec
PROPERTIES NullGpuNeverIdles
