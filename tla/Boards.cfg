SPECIFICATION Spec
INVARIANTS PanicsNeedNoMachine ConfiguredIsFlashed DoneIsConfigured StaleKeyNeedsPort
PROPERTY CommandEnds
\* A command ends, with or without an error.
CHECK_DEADLOCK FALSE
