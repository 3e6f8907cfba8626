SPECIFICATION RenderSpec
CONSTANTS
    Docs <- MCDocs
    wa = wa
    wb = wb
    Words = {wa, wb}
    Section = section
    NoId = NoId
    MaxBase = 2
    MaxAnchor = 3
    Ten = 2
    TocMaxLevel = 4
    Written <- MCWritten
    MaxPath = 4
    SafeNames <- MCSafeNames
    Attached <- MCAttached
    Own = "own"
    Share = "share"
    FrameToken = "token"
    ShareToken = "sharetoken"
    Nothing = Nothing
INVARIANT PlainAnchorsUnique
INVARIANT TocMatchesPage
INVARIANT FirstTenKeepAnchors
INVARIANT EverySpellingServes
INVARIANT OwnAssetsOnly
INVARIANT PagesAgree
