SPECIFICATION FairSpec
CONSTANTS
    f1 = f1
    f2 = f2
    b1 = b1
    Intent = {f1, b1}
    Forfeiter = {f1}
    Boarder = {b1}
    MinParticipants = 1
    MaxParticipants = 2
    MaxRound = 2
    Faults = {"cleanup", "session", "save"}
INVARIANTS
    TypeOK
    WokenMeansAll
PROPERTIES
    RoundsEnd
