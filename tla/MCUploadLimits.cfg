SPECIFICATION Spec
CONSTANTS
    Requests <- MCRequests
    Names = {n1, n2, bad}
    SafeNames = {n1, n2}
    NoValue = NoValue
    MaxTitle = 1
    MaxSummary = 1
    DefaultDays = 1
    MaxDays = 2
    MaxContent = 3
    MaxAssetBytes = 3
    MaxAssets = 2
    EnvelopeRoom = 2
    ShareFormMax = 2
    ReadChunk = 2
    MaxMessage = 3
INVARIANT HeldBounded
INVARIANT RejectedLeavesNothing
INVARIANT VerdictsExact
PROPERTY EveryBodyAnsweredOnce
