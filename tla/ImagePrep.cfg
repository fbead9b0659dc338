\* Two runs on an archive, so that the second finds what the first left.
CONSTANTS
    MaxRuns = 2
    MaxRetries = 2
    Formats = {"img", "zip", "7z", "tar"}
    Hashes = {TRUE, FALSE}
SPECIFICATION Spec
INVARIANTS UsedImageNeedsFault CutImageNeedsFault OnlyVerifiedIsUploaded
PROPERTY PrepareEnds
