\* The three flashers in any order.  The generic one searches images whose Linux
\* partition comes first or second, finds a Raspberry Pi's, or none.
CONSTANTS
    Loop <- MCLoop
    Image <- MCImage
    NoImage = 0
    MaxParts = 2
    MaxRuns = 2
    Devices = {"sd", "raspi", "beagle"}
    Kinds <- Kind
SPECIFICATION Spec
INVARIANTS NoForeignConfig StrayConfigNeedsKeptMachine AppliedWhileMounted BootCopiedWhole
PROPERTY RunEnds
