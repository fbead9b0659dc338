\* The two sets of questions.
CONSTANTS
    Boards = {"sd", "pi"}
    Retries = 5
    MaxSilent = 1
SPECIFICATION ConfigSpec
INVARIANTS AnswersAreApplied OnlyAnswersAreWritten
PROPERTY SetupLeavesRoot
