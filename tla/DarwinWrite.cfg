\* Linux and macOS; two readers and two cards; the card is chosen in the dialog, or named by --disk.
CONSTANTS
    Disk = {sda, sdb}
    NoDisk = NoDisk
    Card = {c1, c2}
    NoCard = NoCard
    DiskSelectionTries = 3
    WriteAttempts = 3
    SudoError = SudoError
    MaxPlugs = 2
SPECIFICATION HostSpec
INVARIANT EjectAfterWrite
PROPERTIES OnlyAgreedDisk ImplementsWriter WriteEnds
