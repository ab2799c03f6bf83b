SPECIFICATION FairSpec
CONSTANTS
    root = root
    left = left
    right = right
    Commitment = Commitment
    Node <- MCNode
    Root = root
    Parent <- MCParent
    Path <- MCPath
    First <- MCFirst
    Expiry = 1
    MaxHeight = 2
    MaxCrash = 1
    MaxFail = 1
    Worker = {1, 2}
    Faults = {"status", "wallet", "tip", "read", "save", "projection"}
INVARIANTS SweptIsSwept
PROPERTIES SweepRecorded ExpiredTaken
CHECK_DEADLOCK FALSE
