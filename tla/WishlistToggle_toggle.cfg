SPECIFICATION HeartSpec
CONSTANTS
    Hearts = {"page"}
    MaxClicks = 1
    MaxLost = 0
CHECK_DEADLOCK FALSE
INVARIANTS
    AddedIsSaved
