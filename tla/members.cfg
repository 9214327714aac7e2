\* Two users, two requests that write, one that reads, and a Redis that may refuse.
SPECIFICATION Spec
CONSTANTS
    Users = {u1, u2}
    Founder = u1
    Handlers = {h1, h2}
    Readers = {r1}
    MaxJoins = 2
    RedisFails = TRUE
SYMMETRY Symmetry
CONSTRAINT OneWriterBesideViews
INVARIANTS
    TypeOK
    OwnerRemains
    OutdatedOnlyByOverlap
PROPERTIES
    OwnersAnswerToOwners
    WritesMeetTheirRow
