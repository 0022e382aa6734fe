CONSTANTS
    None = None
    Topics = {"safety", "culture"}
    Profile <- Profiles
SPECIFICATION FairSpec
CHECK_DEADLOCK FALSE
INVARIANTS StagesAreGated RenderFindsCurrentPlan EditIsPerformed
PROPERTIES TurnEnds
