SPECIFICATION FairSpec
CONSTANTS
    Models = {m1}
    Runners = {r1}
    Testers = {t1}
    Threshold = 1
    Limit = 2
    MaxEdits = 1
    Budgets <- TwoBudgets
INVARIANTS SuspendedAtLimit ProvenBeforeServed
PROPERTIES LateResultIgnored ManualDisableKept TestingEnds
CHECK_DEADLOCK FALSE
