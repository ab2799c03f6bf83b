SPECIFICATION Spec
CONSTANTS
    v1 = v1
    u1 = u1
    t1 = t1
    t2 = t2
    i1 = i1
    i2 = i2
    x1 = x1
    NoOne = NoOne
    Outpoint = {v1, u1}
    Vtxo = {v1}
    OffchainTx = {t1, t2}
    OneShot = {t2}
    Intent = {i1, i2}
    OnchainTx = {x1}
    Inputs <- Contended
    MaxBatch = 2
    Faults = {"save", "projection", "release", "crash"}
INVARIANTS
    NoDoubleSpend
    SpendsVisible
    IndInv
    OffchainSpentOnce
PROPERTIES
    LedgerSpec
