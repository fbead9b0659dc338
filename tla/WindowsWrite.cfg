\* Two readers, two moves of cards (out and in again); the code's own rounds; three
\* of its five attempts: a first, a middle and a last one.
CONSTANTS
    Disk = {d1, d2}
    NoDisk = NoDisk
    DiskSelectionTries = 3
    WriteAttempts = 3
    DdError = DdError
    NotFlashed = NotFlashed
    MaxPlugs = 2
SPECIFICATION Spec
INVARIANT QuietWhenAnswered
PROPERTIES OnlyChosenDisk ImplementsChecked WriteEnds
