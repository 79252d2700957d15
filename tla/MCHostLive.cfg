SPECIFICATION HostSpec
CONSTANTS
    Tasks = {t1, t2}
    NoTask = NoTask
    MaxGeneration = 1
    SessionDisruptions = {"input", "compositor", "control", "video", "application", "host", "launch", "slow", "quit"}
    Device = {d1, d2}
    Id = {"shared"}
    IdOf <- MCIdOf
    MaxRounds = 2
    MaxChallenges = 2
    Disruptions = {"crash"}
INVARIANT AckedIsDurable
PROPERTIES
    WedgeClears
    StoppedSessionReaped
    AbandonedSessionEnds
    PinAnswers
CHECK_DEADLOCK FALSE
