SPECIFICATION FairSpec
CONSTANTS
    v1 = v1
    v2 = v2
    Vtxo = {v1, v2}
    Scenario <- MCScenario
    MaxBreak = 1
INVARIANTS SweptIsTaken
PROPERTIES TakenBack SpendTracked CheckpointSwept ReactionOutlivesStream
CHECK_DEADLOCK FALSE
