SPECIFICATION FairSpec
CONSTANTS
    r1 = r1
    r2 = r2
    Requests <- TwoRequests
    Quotas <- Amounts
    InitialBalance <- Balances2
    TokenUnlimited = FALSE
    AllowOverflow = TRUE
    Plans <- SubscriptionFirst
    Playground = {r2}
    Supply = {r1}
INVARIANTS TypeOK NoOverdraft EarningBacked RefundExcludesCharge AccountsAgree
PROPERTIES BooksClosed ImplementsOutcome RecoveryCompletes
CHECK_DEADLOCK FALSE
