\* Nothing fails: one document, one question by someone who may open everything.
SPECIFICATION Spec
CONSTANTS
    d1 = d1
    kAll = kAll
    Docs = {d1}
    Keys = {kAll}
    Scope <- KeyScope
    Pinned <- PinnedKeys
    People = {}
    Opens <- OpenDocs
    Askers = {a1}
    MaxRuns <- RunBounds
    Faults = {}
INVARIANT FreshAfterInvalidation
