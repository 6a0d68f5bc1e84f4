SPECIFICATION FairSpec
CONSTANTS
    Length = 2
    Says <- Replies
    Modes = {"stream", "plain"}
    MaxRequests = 2
    Scenarios <- TwoScenarios
INVARIANTS NoStuckMessage WholeReply OwnReply
PROPERTIES GenerationEnds StoredInTheEnd
CHECK_DEADLOCK FALSE
