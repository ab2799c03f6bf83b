\* Two streams and a request on one listener, a channel of one event.
SPECIFICATION FairSpec
CONSTANTS
    e1 = e1
    e2 = e2
    e3 = e3
    Stream = {1, 2}
    Request = {1}
    Batch <- MCBatch
    Events <- MCEvents
    Plain = {e2}
    Capacity = 1
    Kinds = {"scripts", "inline", "events"}
INVARIANTS
    SoleConsumer
    LateTakesOne
    BatchInOrder
PROPERTIES
    WatchedNotExpired
    Reaped
    NoSilentLoss
CHECK_DEADLOCK FALSE
