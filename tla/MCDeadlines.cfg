SPECIFICATION Spec
CONSTANTS
    OpTimeout = 30
    StartupTimeout = 3
    WaitTimeout = 12
    MetadataTimeout = 1
    DeviceTimeout = 6
    PollInterval = 1
    ForceDetachAfter = 3
    ReleaseInterval = 1
    InitialInterval = 1
    MaxInterval = 3
    Multiplier = 2
    MaxElapsed = 12
    Errors = {"throttled", "client"}
INVARIANTS
    ReturnsInTime
    LastAttempt
