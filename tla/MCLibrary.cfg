SPECIFICATION MCSpec
CONSTANTS
    Requests = {r1, r2}
    Calls <- MCCalls
    r1 = r1
    r2 = r2
    a1 = a1
    a2 = a2
    a3 = a3
    t1 = t1
    t2 = t2
    n1 = n1
    n2 = n2
    Newest <- MCNewest
    Tables <- MCTables
    Topics = {t1, t2}
    Untitled = {t2}
    Names = {n1, n2}
    NoName = NoName
    Blank = Blank
    Gone = Gone
    NoRequest = NoRequest
INVARIANT ToggleParity
INVARIANT AnswerNotStale
INVARIANT AliasNamesKnownTopic
INVARIANT PageAgrees
INVARIANT AnsweredHoldsNoLock
