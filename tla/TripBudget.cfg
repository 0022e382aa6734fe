SPECIFICATION FairBudgetSpec
CONSTANTS
    Threads = {"s", "t"}
    Trips <- MCTrips
    Artefacts <- MCArtefacts
    Rate <- MCRate
    TTL = 1
    Attempts = 2
    MaxRuns <- MCMaxRuns
    MaxRestarts = 1
CHECK_DEADLOCK FALSE
INVARIANTS EvidenceIsSound VerdictIsEarned
PROPERTIES RatesAreFresh BudgetEnds
