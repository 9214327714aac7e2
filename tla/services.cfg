\* Each component on a small instance of its own.
SPECIFICATION ServicesSpec
CONSTANTS
    \* Conversations
    Turns = {t1, t2}
    t1 = t1
    t2 = t2
    Editors = {ed1}
    Listings = {l1}
    HistoryLimit = 1
    PageLimit = 1
    \* Sessions and API keys
    Clients = {cl1, cl2, cl3}
    Managers = {r1, r2, r3}
    MaxNow = 3
    \* RateLimiter
    Senders = {s1, s2, s3}
    LimitMax = 1
    MaxLives = 2
    MaxCount = 3
    MaxFailures = 1
    \* Shutdown
    Signals = {g1, g2}
    Requests = {q1}
    Kinds = {"document", "evaluation"}
    \* DocumentAccess
    Papers = {p1, p2}
    People = {o, m, v}
    o = o
    m = m
    v = v
    p1 = p1
    Creator <- TheCreator
    RoleOf <- TheRoles
    Requesters = {x1, x2}
    MaxGrants = 2
    \* Retrieval
    Chunks = {c1, c2, c3, c4}
    c1 = c1
    c2 = c2
    c3 = c3
    c4 = c4
    DocumentOf <- TheDocumentOf
    Snippet <- TheSnippet
    Tokens <- TheTokens
    HalfTopK = 3
    FusedTopK = 3
    RrfK = 60
    RerankTopK = 2
    MaxChunks = 3
    MaxTokens = 3
    PerDocument = 1
    DiversityFrom = 2
    \* Indexing
    MaxSize = 5
    MaxWords = 5
    MaxPages = 2
    BatchSize = 2
    \* ProviderCalls
    Calls = {k1}
    Retries <- TheRetries
    \* AuditTrail
    Changes = {e1, e2, e3}
    e1 = e1
    e2 = e2
    e3 = e3
    EventOf <- TheEventOf
    Notifies = {e1}
    MaxBucket = 1
    MaxStalls = 1
    KeepDone = 1
    KeepLost = 1
    \* HttpRequests
    Visits = {w1}
    Visited <- TheVisited
    Tenants = {acme, globex}
    KeyTenant = acme
    MaxEvents = 1
INVARIANTS
    ServicesTypeOK
    AnsweredTurnsAreWhole ListingsAreComplete
    RegistrationsAreWhole
    WindowsAreLimited
    NothingRunsPastTheStores
    FilterAgreesWithCheck
    FusionIsFaithful ContextIsFaithful
    IndexIsWhole
    EventsReachTheWorker
    HandlersAreGuarded
PROPERTIES
    NamesOutliveLaterTurns
    LogoutEndsAccess
    SecretsDieForGood
    RefusalsEnd
    SignalsEndTheApi
    AccessFollowsTheGrants
    OnlyBodiesHang
\* Every component runs out of requests.
CHECK_DEADLOCK FALSE
