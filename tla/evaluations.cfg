\* One run, executed by the worker and by hand at once, while its dataset grows or goes.
SPECIFICATION FairSpec
CONSTANTS
    MaxCases = 2
    Runs = {e1}
    Handlers = {h1}
    Workers = {w1, w2}
    Attempts = 2
    MaxStalled = 1
    MaxManual = 1
    MaxCrashes = 1
    Faults = {"redis", "db", "crash", "stall"}
    NoRun = NoRun
    NoWorker = NoWorker
INVARIANTS
    TypeOK
    CompletedIsComplete
    VerdictRecorded
    OncePerDelivery
PROPERTY QueuedRunsEnd
\* A dataset that is deleted, or a run that is done, leaves nothing to do.
CHECK_DEADLOCK FALSE
