SPECIFICATION FairSpec
CONSTANTS
    SPACE = SPACE
    Files <- MCFiles
    MaxNodes = 3
    MaxFailures = 1
\* The system may stop: main returns, or waits for a thread or a process that hangs.
CHECK_DEADLOCK FALSE
INVARIANTS TypeOK NoOrphans LaunchIsAllOrNothing
PROPERTIES LoadsATree StopCompletes
