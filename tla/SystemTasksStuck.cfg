SPECIFICATION FairSpec
CONSTANTS
    Runners = {r1, r2}
    MaxTasks = 1
    ClaimWithinLease = FALSE
PROPERTIES ActiveRowEnds
CHECK_DEADLOCK FALSE
