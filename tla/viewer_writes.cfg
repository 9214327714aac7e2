\* A member whose role is only read at the door, and the routes of documents.
SPECIFICATION HttpSpec
CONSTANTS
    Visits = {w1}
    Visited = {"uploadDocument", "listDocuments"}
    Tenants = {acme, globex}
    KeyTenant = acme
    MaxEvents = 1
INVARIANTS WritersArePermitted
\* Every request is answered.
CHECK_DEADLOCK FALSE
