SPECIFICATION SchemaSpec
CONSTANTS
    MaxCrashes = 2
    NoCopy = NoCopy
INVARIANT SchemaInv
INVARIANT ServedIsRestorable
PROPERTY EventuallyServes
