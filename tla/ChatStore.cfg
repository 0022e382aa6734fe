SPECIFICATION FairSpec
CONSTANTS
    Sessions = {"s1", "s2"}
    Earlier = {"s2"}
    Streams = {"r1", "r2"}
    MaxClicks = 4
    None = None
CHECK_DEADLOCK FALSE
INVARIANTS ViewIsConsistent
PROPERTIES DeletionFollowsView StreamingEnds
