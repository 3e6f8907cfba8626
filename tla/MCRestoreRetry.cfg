SPECIFICATION Spec
CONSTANTS
    Names = {db, artifacts, tmp, wal}
    Db = db
    Tmp = tmp
    Volatile = {wal}
    Archive = {db, artifacts}
    MaxFaults = 1
INVARIANT FailedApplyIsRetrySafe
CHECK_DEADLOCK FALSE
