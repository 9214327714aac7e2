\* Nothing fails: one document, and a person who may not open it.
SPECIFICATION Spec
CONSTANTS
    d1 = d1
    kAll = kAll
    Docs = {d1}
    Keys = {kAll}
    Scope <- KeyScope
    Pinned <- PinnedKeys
    People = {p1}
    Opens <- OpenDocs
    Askers = {a1}
    MaxRuns <- RunBounds
    Faults = {}
INVARIANT HitsStayWithinAccess
