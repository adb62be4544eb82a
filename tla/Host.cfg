\* Claims of at most two rows out of three, by two workers that may crash; two
\* goroutines on a bus of two topics, whose handlers use the bus too.
SPECIFICATION HostSpec
CONSTANTS
    a = a
    b = b
    c = c
    w1 = w1
    w2 = w2
    Jobs <- ThreeJobs
    Workers <- TwoWorkers
    Known <- MostKnown
    ClaimLimit = 2
    Topics = {"ingested", "notified"}
    Goroutines = {"job", "request"}
    Nobody = "nobody"
    MaxDepth = 2
    MaxSubs = 2
INVARIANTS HostTypeOK HeardInOrder
PROPERTIES ImplementsTriggers RequestsServed CallsReturn
