SPECIFICATION FairSpec
CONSTANTS
    Tabs = {a, b}
    s1 = s1
    s2 = s2
    Sids = {s1, s2}
    NoSid = NoSid
    Environments <- ThreeEnvironments
INVARIANTS SessionKept SignedOutForGood
PROPERTIES TokenNeverRegresses RefreshSettles
CHECK_DEADLOCK FALSE
