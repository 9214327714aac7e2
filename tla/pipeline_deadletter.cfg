\* A document whose content always fails.
SPECIFICATION Spec
CONSTANTS
    Docs = {d1}
    Requests = {q1, q2}
    Runners = {r1, r2}
    Attempts = 2
    MaxStalled = 1
    ChunkCount = 1
    KeepCompleted = 1
    KeepFailed = 1
    MaxRequests = 1
    MaxCrashes = 0
    Faults = {"content"}
    NoDoc = NoDoc
    NoRunner = NoRunner
INVARIANT ExhaustedJobsCaptured
\* Requests are bounded, so the system comes to rest.
CHECK_DEADLOCK FALSE
