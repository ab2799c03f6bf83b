SPECIFICATION FairSpec
CONSTANTS
    v1 = v1
    u1 = u1
    t1 = t1
    t2 = t2
    i1 = i1
    i2 = i2
    x1 = x1
    NoOne = NoOne
    Outpoint = {v1, u1}
    Vtxo = {v1}
    OffchainTx = {t1}
    OneShot = {}
    Intent = {i1}
    OnchainTx = {x1}
    Inputs <- Contended
    MaxBatch = 1
    Faults = {"unendedBroadcast", "cosignSave", "deleteAll"}
PROPERTIES
    RequestsReturn
    ClaimsReleased
    CacheDrains
    ReservationsDrain
