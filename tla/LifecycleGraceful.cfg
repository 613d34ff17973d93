SPECIFICATION Spec
CONSTANTS
    SPACE = SPACE
    Files <- MCFiles
    MaxNodes = 3
    MaxFailures = 0
\* The system may stop: main returns, or waits for a thread or a process that hangs.
CHECK_DEADLOCK FALSE
INVARIANT ExitsGracefully
