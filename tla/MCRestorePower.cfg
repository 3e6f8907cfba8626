SPECIFICATION PowerSpec
CONSTANTS
    Names = {db, artifacts, tmp, wal}
    Db = db
    Tmp = tmp
    Volatile = {wal}
    Archive = {db, artifacts}
    MaxFaults = 3
INVARIANT OldBytesSurvive
INVARIANT NoMixedGenerations
CHECK_DEADLOCK FALSE
