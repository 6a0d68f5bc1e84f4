SPECIFICATION FairSpec
CONSTANTS
    Rows <- FiveRows
    Broken = {1, 2, 4}
    Limit = 2
    Policies = {"id"}
    MaxBackoff = 1
    MaxFaults = 1
PROPERTIES NotStarved
CHECK_DEADLOCK FALSE
