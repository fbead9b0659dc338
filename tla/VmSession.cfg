CONSTANTS
    Timeout = 12
    TimeoutError = TimeoutError
    MaxSuspends = 1
    MaxHalts = 1
    MaxKills = 3
    MaxFaults = 2
    MaxPublished = 1
SPECIFICATION SessionSpec
INVARIANTS ReadyMachine PollerEnds
PROPERTIES AnswerEndsStart InstallRecovers
