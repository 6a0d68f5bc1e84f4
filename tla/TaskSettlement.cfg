SPECIFICATION FairSpec
CONSTANTS
    Tasks = {t1}
    Quotas = {1, 2}
    Balance = 2
    Pollers = {p1, p2}
    Recoverers = {r1}
    Visitors = {p2}
    Budgets <- OneFault
INVARIANTS TypeOK BooksAgree EarningFollowsSettlement NoPaidRefund
PROPERTIES ImplementsOutcome DecisionCarriedOut SettlementReleased
CHECK_DEADLOCK FALSE
