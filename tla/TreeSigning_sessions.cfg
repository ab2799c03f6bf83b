SPECIFICATION FairSpec
CONSTANTS
    alice = alice
    bob = bob
    i1 = i1
    i2 = i2
    Absent = Absent
    Cosigner <- MCCosigner
    Intent <- MCIntent
    KeysOf <- MCKeysOf
    Nonce = {1, 2}
    Slot = {1, 2}
    Faults = {"redis", "crash"}
INVARIANTS NonceAgreement OnlyLateOrRedis PromptNotConvicted
PROPERTIES CompleteStageEnds
CHECK_DEADLOCK FALSE
