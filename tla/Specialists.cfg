SPECIFICATION FairStageSpec
CONSTANTS
    PairLimit = 3
    Runs = {1, 2}
    Permits = 2
    Attempts <- MCAttempts
    Answers <- MCAnswers
    Asked <- MCAsked
    MonthDays = 2
    Shown = 2
    Explored = {"flights", "hotels", "restaurants", "activities", "transportation"}
    ModelPermits = 1
    Rounds <- MCRounds
    MaxRounds <- MCMaxRounds
CHECK_DEADLOCK FALSE
INVARIANTS FlightsAreOffered OutcomeIsTrue
PROPERTIES StageEnds
