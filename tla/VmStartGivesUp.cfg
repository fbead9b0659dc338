\* A host that is never suspended.
CONSTANTS
    Timeout = 12
    TimeoutError = TimeoutError
    MaxSuspends = 0
    MaxHalts = 0
SPECIFICATION Spec
PROPERTY StartGivesUp
