\* Three versions, the first and the last of the same length.
CONSTANTS
    MaxVersion = 3
    Lengths = 2
    MaxKills = 2
SPECIFICATION RepoSpec
INVARIANTS FoundIsNewest UpdatedIsNewest
PROPERTY MappingRecovers
