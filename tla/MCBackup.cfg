SPECIFICATION Spec
CONSTANTS
    Ids = {a1, a2}
    NoArchive = NoArchive
INVARIANT ToldIsRestorable
INVARIANT CleanStopIsWhole
PROPERTY ServiceAsBefore
