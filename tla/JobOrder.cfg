\* The order of the names in a claim.
SPECIFICATION JobSpec
CONSTANTS
    a = a
    b = b
    c = c
    w1 = w1
    w2 = w2
    Jobs <- ThreeJobs
    Workers <- TwoWorkers
    Known <- MostKnown
    ClaimLimit = 2
PROPERTY OldestFirst
