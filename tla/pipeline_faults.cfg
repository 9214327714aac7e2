\* One document, two handlers, two worker slots and everything that may go wrong.
SPECIFICATION Spec
CONSTANTS
    Docs = {d1}
    Requests = {q1, q2}
    Runners = {r1, r2}
    Attempts = 3
    MaxStalled = 1
    ChunkCount = 2
    KeepCompleted = 1
    KeepFailed = 1
    MaxRequests = 2
    MaxCrashes = 1
    Faults = {"redis", "db", "content", "crash", "stall", "web"}
    NoDoc = NoDoc
    NoRunner = NoRunner
SYMMETRY Symmetry
INVARIANTS
    TypeOK
    WholeGeneration
    ReadyIsIndexed
    VersionsContiguous
PROPERTY ImplementsLifecycle
\* Requests are bounded, so the system comes to rest.
CHECK_DEADLOCK FALSE
