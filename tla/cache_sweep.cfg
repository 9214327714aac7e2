\* Two documents, one of them processed twice, and a question about both by anyone.
SPECIFICATION FairSpec
CONSTANTS
    d1 = d1
    kAll = kAll
    Docs = {d1, d2}
    Keys = {kAll}
    Scope <- KeyScope
    Pinned <- PinnedKeys
    People = {p1}
    Opens <- OpenDocs
    Askers = {a1}
    MaxRuns <- RunBounds
    Faults = {"redis", "content", "crash", "llm", "keyword"}
INVARIANTS
    OutdatedOnlyIfLate
PROPERTY CacheConverges
