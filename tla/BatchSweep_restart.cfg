SPECIFICATION Spec
CONSTANTS
    root = root
    left = left
    right = right
    Commitment = Commitment
    Node <- MCNode
    Root = root
    Parent <- MCParent
    Path <- MCPath
    First <- MCFirst
    Expiry = 1
    MaxHeight = 2
    MaxCrash = 1
    MaxFail = 0
    Worker = {1, 2}
    Faults = {"partial"}
INVARIANTS SweptIsSwept
CHECK_DEADLOCK FALSE
