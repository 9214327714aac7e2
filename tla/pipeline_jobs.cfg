\* Two documents compete for the slots and the retained jobs, no lock expires
\* under a live handler, and the scheduling is fair.
SPECIFICATION FairSpec
CONSTANTS
    Docs = {d1, d2}
    Requests = {q1, q2}
    Runners = {r1, r2}
    Attempts = 2
    MaxStalled = 1
    ChunkCount = 1
    KeepCompleted = 1
    KeepFailed = 1
    MaxRequests = 2
    MaxCrashes = 1
    Faults = {"content", "crash"}
    NoDoc = NoDoc
    NoRunner = NoRunner
ACTION_CONSTRAINT LeadersFirst
INVARIANTS
    ExclusiveRuns
    VerdictMatchesJob
PROPERTIES
    JobsFinish
    FirstRequestSettles
\* Requests are bounded, so the system comes to rest.
CHECK_DEADLOCK FALSE
