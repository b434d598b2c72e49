\* The comment of main.c that the end of eval unblocks SIGCHLD: a login shell
\* that runs another sfish, which runs a program.
CONSTANTS
    MaxProcs = 3
    Jobs = {"program", "sfish"}
    ForkMayFail = FALSE
SPECIFICATION FairSpec
PROPERTY SigchldUnblocked
\* The login shell exits, or a nested shell waits for ever.
CHECK_DEADLOCK FALSE
