SPECIFICATION FairSpec
CONSTANTS
    Names = {db, artifacts, tmp, wal}
    Db = db
    Tmp = tmp
    Volatile = {wal}
    Archive = {db, artifacts}
    MaxFaults = 3
CHECK_DEADLOCK FALSE
INVARIANT OldIsRecoverable
INVARIANT HealthyIsFinal
PROPERTY RollbackIsResumable
