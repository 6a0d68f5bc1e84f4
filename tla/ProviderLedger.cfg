SPECIFICATION Spec
CONSTANTS
    Transfers = {x1, x2}
    Withdrawals = {w1, w2}
    Keys = {k1}
    KeyOf <- SameKey
    Amounts = {1, 2}
    Minimum = 1
    MaxIncome = 2
    MaxClawback = 1
    Nobody = Nobody
SYMMETRY Symmetry
INVARIANTS TypeOK NeverSpentTwice CreditMatchesLedger
CHECK_DEADLOCK FALSE
