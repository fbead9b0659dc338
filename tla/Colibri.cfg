\* Two cards, one of which may be mounted since an earlier run.
CONSTANTS
    Disk = {sda, sdb}
    NoDisk = NoDisk
    SudoError = SudoError
    MountError = MountError
    MaxPulls = 1
SPECIFICATION Spec
INVARIANTS PreparedCardIsWhole CopyAfterClean
PROPERTY FlasherEnds
