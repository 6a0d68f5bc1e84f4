SPECIFICATION Spec
CONSTANTS
    Models = {m1}
    Runners = {r1}
    Testers = {}
    Threshold = 2
    Limit = 3
    MaxEdits = 0
    Budgets <- OneFault
PROPERTY OnlyEnabledByHand
CHECK_DEADLOCK FALSE
