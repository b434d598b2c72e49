\* The login shell and four more processes, shells or programs.
CONSTANTS
    MaxProcs = 5
    Jobs = {"program", "sfish"}
    ForkMayFail = TRUE
SPECIFICATION FairSpec
INVARIANTS
    TypeOK
    PromptMeansReaped
PROPERTY PromptReturns
\* The login shell exits, or a shell waits for ever (failed fork, nested shell).
CHECK_DEADLOCK FALSE
