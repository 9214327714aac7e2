\* A document processed again, with nothing failing.
SPECIFICATION FairSpec
CONSTANTS
    Docs = {d1}
    Requests = {q1, q2}
    Runners = {r1, r2}
    Attempts = 2
    MaxStalled = 1
    ChunkCount = 1
    KeepCompleted = 1
    KeepFailed = 1
    MaxRequests = 2
    MaxCrashes = 0
    Faults = {}
    NoDoc = NoDoc
    NoRunner = NoRunner
PROPERTY EveryRequestSettles
\* Requests are bounded, so the system comes to rest.
CHECK_DEADLOCK FALSE
