SPECIFICATION FairSpec
CONSTANTS
    s1 = s1
    s2 = s2
    f1 = f1
    f2 = f2
    NoOne = NoOne
    Submitter = {s1, s2}
    OneShot = {s2}
    Finalizer = {f1, f2}
    Environment = {{"unroll", "spend"}, {"dispatch", "projection", "crash"},
                   {"redis", "save"}, {"expiry"}, {"early"}}
INVARIANTS
    TypeOK
    InputsCovered
    FinalizationRecorded
    OnceUnlessOverwritten
PROPERTIES
    SpentOutputStays
    OutputsCreated
    LockReleased
CHECK_DEADLOCK FALSE
