SPECIFICATION FairSpec
CONSTANTS
    Runners = {r1, r2}
    MaxTasks = 2
    ClaimWithinLease = TRUE
INVARIANTS TypeOK OneExecutorPerRow
PROPERTIES RowsAreFinal ActiveRowEnds
CHECK_DEADLOCK FALSE
