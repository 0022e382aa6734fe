CONSTANTS
    Answers <- MCAnswers
    Domains <- MCDomains
    Requests <- MCRequests
    FieldNames = {"advisory_level", "advisory_summary", "visa", "health", "packing"}
    MaxCited = 2
    MaxQueries = 2
    MaxAttempts = 2
    Concurrency = 1
    CacheSize = 2
    TTL = 0
    MaxRuns = 2
    Nothing = Nothing
SPECIFICATION FairReadinessSpec
CHECK_DEADLOCK FALSE
INVARIANTS ReportIsGrounded SafetyComesFirst AdvisoryIsForThisTrip
PROPERTIES RunsEnd
