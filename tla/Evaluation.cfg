SPECIFICATION HarnessSpec
CONSTANTS
  Evaluated = {"flights", "hotels", "activities", "restaurants", "transportation", "readiness", "budget", "itinerary"}
  MaxProcesses = 2
  MaxStarts = 2
  MaxEdits = 1
  MaxCreates = 2
  Names = {"v1", "v2"}
  Gated <- MCGated
  Clean <- MCClean
  Jobs <- MCJobs
  Batches <- MCBatches
  Brought <- MCBrought
  Cases <- MCCases
  Labelled <- MCLabelled
  Contenders <- MCContenders
  Labellings <- MCLabellings
  Decided <- MCDecided
  Asked <- MCAsked
INVARIANTS RecordsAreTrue VerdictsAreEarned
PROPERTIES BaselineIsHonest HarnessEnds
CHECK_DEADLOCK FALSE
