CONSTANTS
    Requests = {r1, r2, r3}
    Kids = {k1, k2}
    MaxRotations = 1
    Nobody = Nobody
SPECIFICATION FairCacheSpec
CHECK_DEADLOCK FALSE
INVARIANTS CacheTypeOK PublishedKeyIsKnown
PROPERTIES EveryRequestIsAnswered
