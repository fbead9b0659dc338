\* A file of three chunks, found in part, whole or not at all.
CONSTANTS
    Size = 3
    Cap = 2
SPECIFICATION DownloadSpec
INVARIANT ShortFileNeedsFault
PROPERTIES ImplementsFile DownloadEnds
