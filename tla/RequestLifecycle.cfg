SPECIFICATION FairSpec
CONSTANTS
    Call = {c1, c2}
    MaxAttempts = 2
    Threshold = 2
    MaxCrashes = 1
    CancelPoints <- MCEverywhere
CHECK_DEADLOCK FALSE
INVARIANTS ForwardedOnce CompletedIsEvidenced BooksBalanced SettledWhenDone
PROPERTIES CallEnds
