\* Two users, two writing requests.
SPECIFICATION Spec
CONSTANTS
    Users = {u1, u2}
    Founder = u1
    Handlers = {h1, h2}
    Readers = {}
    MaxJoins = 2
    RedisFails = FALSE
PROPERTY LastOwnerIsNotRemoved
