SPECIFICATION Spec
CONSTANTS
    f1 = f1
    f2 = f2
    b1 = b1
    Intent = {f1, f2}
    Forfeiter = {f1, f2}
    Boarder = {}
    MinParticipants = 1
    MaxParticipants = 2
    MaxRound = 2
    Faults = {"late", "redis", "crash"}
INVARIANTS
    BroadcastCovered
    ConfirmedOnly
PROPERTIES
    ServedNotConvicted
SYMMETRY Forfeiters
