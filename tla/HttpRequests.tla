---------------------------- MODULE HttpRequests ----------------------------
(***************************************************************************)
(* A request on its way through the Express application: the body parser,  *)
(* the rate limiters, the middlewares of its route in the order the router *)
(* lists them, and the handler of its controller, of which this module     *)
(* keeps what it reads of the request and what it answers. While a request *)
(* waits, roles change, keys are revoked and tokens expire.                *)
(*                                                                         *)
(* All of it is about one user, two organizations, and one API key that    *)
(* the user created in one of them.                                        *)
(***************************************************************************)
EXTENDS Naturals, Sequences

CONSTANTS
    Visits,       \* requests in flight, each made once
    Visited,      \* the routes they may be for
    Tenants,      \* organizations
    KeyTenant,    \* the organization of the API key
    MaxEvents     \* bound: changes of the world

ASSUME HttpRequestsAssumption ==
    /\ KeyTenant \in Tenants
    /\ "none" \notin Tenants
    /\ MaxEvents \in Nat

VARIABLES
    visits,    \* requests
    held,      \* organization_members.role of the user, "none" without a row
    good,      \* credentials that are neither revoked nor expired
    quotas,    \* organizations with a row in organization_quotas
    events,    \* changes of the world so far
    roleSeen,  \* history: the roles held since the request arrived
    goodSeen   \* history: the credentials that were good since it arrived

httpVars == <<visits, held, good, quotas, events, roleSeen, goodSeen>>
----------------------------------------------------------------------------
\* The middlewares of every route, by router.

Admins == {"OWNER", "ADMIN"}

\* router.use(authenticate, resolveOrganization)
Tenanted == <<"authenticate", "organization">>

AuthRoutes ==
    [register |-> <<"validate">>, login |-> <<"validate">>, refresh |-> <<"validate">>,
     logout |-> <<"authenticate">>, me |-> <<"authenticate">>]

OrganizationRoutes ==
    [createOrganization |-> <<"authenticate", "validate">>,
     listOrganizations |-> <<"authenticate">>,
     getOrganization |-> <<"authenticate", "validate">>,
     getQuota |-> <<"authenticate", "validate">>,
     getUsage |-> <<"authenticate", "validate">>]

\* Mounted under /organizations too, whose limiter and whose authentication a
\* request for the members of an organization passes first.
MemberRoutes ==
    LET Behind == <<"authenticate", "limit">> \o Tenanted
    IN  [listMembers |-> Behind \o <<"validate">>,
         addMember |-> Behind \o <<"role", "validate">>,
         updateMemberRole |-> Behind \o <<"role", "validate">>,
         removeMember |-> Behind \o <<"role", "validate">>]

\* An upload is stored before its organization is resolved.
DocumentRoutes ==
    [uploadDocument |-> <<"authenticate", "store", "organization">>,
     processDocument |-> Tenanted \o <<"validate">>,
     listPermissions |-> Tenanted \o <<"validate">>,
     grantPermission |-> Tenanted \o <<"validate">>,
     revokePermission |-> Tenanted,
     getDocument |-> Tenanted \o <<"validate">>,
     listDocuments |-> Tenanted \o <<"validate">>]

ApiKeyRoutes ==
    [createKey |-> Tenanted \o <<"role", "validate">>,
     listKeys |-> Tenanted \o <<"role">>,
     revokeKey |-> Tenanted \o <<"role", "validate">>,
     rotateKey |-> Tenanted \o <<"role", "validate">>]

AuditRoutes == [listAuditLogs |-> Tenanted \o <<"role", "validate">>]

ConversationRoutes ==
    [createConversation |-> Tenanted \o <<"validate">>,
     listConversations |-> Tenanted,
     getConversation |-> Tenanted \o <<"validate">>,
     updateConversation |-> Tenanted \o <<"validate">>,
     deleteConversation |-> Tenanted \o <<"validate">>,
     listMessages |-> Tenanted \o <<"validate">>,
     sendMessage |-> Tenanted \o <<"validate">>]

EvaluationRoutes ==
    [createDataset |-> Tenanted \o <<"validate">>,
     listDatasets |-> Tenanted,
     getDataset |-> Tenanted \o <<"validate">>,
     deleteDataset |-> Tenanted \o <<"validate">>,
     addCases |-> Tenanted \o <<"validate">>,
     createRun |-> Tenanted \o <<"validate">>,
     listRuns |-> Tenanted,
     getRun |-> Tenanted \o <<"validate">>,
     getRunResults |-> Tenanted \o <<"validate">>,
     executeRun |-> Tenanted \o <<"validate">>,
     benchmark |-> Tenanted \o <<"validate">>]

SearchRoutes == [search |-> Tenanted \o <<"validate">>]
QueryRoutes == [query |-> Tenanted \o <<"validate">>]

Routers == {AuthRoutes, OrganizationRoutes, MemberRoutes, DocumentRoutes, ApiKeyRoutes,
            AuditRoutes, ConversationRoutes, EvaluationRoutes, SearchRoutes, QueryRoutes}

Routes == UNION {DOMAIN router : router \in Routers}

ASSUME VisitedAssumption == Visited \subseteq Routes

\* app.use(path, limiter, router), behind the body parser.
Chain(route) ==
    LET router == CHOOSE r \in Routers : route \in DOMAIN r
    IN  <<"parse", "limit">> \o router[route]
----------------------------------------------------------------------------
\* What each handler takes from the request without asking whether it is there.

AuthReads(route) == IF route = "me" THEN {"user"} ELSE {}

OrganizationReads(route) == {"user"}

MemberReads(route) ==
    IF route \in {"updateMemberRole", "removeMember"}
    THEN {"organization", "user", "membership"}
    ELSE {"organization"}

\* A list takes the user of those who are no administrators only.
DocumentReads(route) == {"organization", "user"}

ApiKeyReads(route) ==
    IF route = "createKey" THEN {"organization", "user"} ELSE {"organization"}

AuditReads(route) == {"organization"}
ConversationReads(route) == {"organization", "user"}
EvaluationReads(route) == {"organization"}
SearchReads(route) == {"organization"}
QueryReads(route) == {"organization"}

Reads(route) ==
    CASE route \in DOMAIN AuthRoutes -> AuthReads(route)
      [] route \in DOMAIN OrganizationRoutes -> OrganizationReads(route)
      [] route \in DOMAIN MemberRoutes -> MemberReads(route)
      [] route \in DOMAIN DocumentRoutes -> DocumentReads(route)
      [] route \in DOMAIN ApiKeyRoutes -> ApiKeyReads(route)
      [] route \in DOMAIN AuditRoutes -> AuditReads(route)
      [] route \in DOMAIN ConversationRoutes -> ConversationReads(route)
      [] route \in DOMAIN EvaluationRoutes -> EvaluationReads(route)
      [] route \in DOMAIN SearchRoutes -> SearchReads(route)
      [] route \in DOMAIN QueryRoutes -> QueryReads(route)

\* The errors of the application carry their status.
AppErrors ==
    [BadRequest |-> 400, Unauthorized |-> 401, Forbidden |-> 403, NotFound |-> 404,
     Conflict |-> 409, ValidationFailed |-> 422]

\* errorHandler gives the others one, 500 if it does not know them.
OtherErrors ==
    [UniqueViolation |-> 409, RecordNotFound |-> 404, InvalidToken |-> 401,
     ExpiredToken |-> 401, MalformedBody |-> 400, Unknown |-> 500]

ErrorStatus ==
    [error \in DOMAIN AppErrors \cup DOMAIN OtherErrors |->
        IF error \in DOMAIN AppErrors THEN AppErrors[error] ELSE OtherErrors[error]]

\* A request under way: credential is the one authenticate looks at, the
\* X-API-Key header before the bearer; header is X-Organization-Id; path the
\* organization in the path of a route under /organizations; at counts the
\* middlewares passed. user, organization and membership are what they set.
Credentials == {"token", "key"}
HeldRoles == {"OWNER", "ADMIN", "MEMBER", "VIEWER", "none"}
Visit == [pc : {"chain", "allowed", "creating", "refused", "handled"}, route : Routes,
          credential : Credentials \cup {"none"}, header : Tenants \cup {"none"},
          path : Tenants, at : Nat, user : BOOLEAN, key : BOOLEAN,
          organization : Tenants \cup {"none"}, membership : HeldRoles,
          file : {"none", "stored", "owned"}, status : Nat]
Waiting == [pc |-> "waiting"]

HttpInit ==
    /\ visits = [r \in Visits |-> Waiting]
    /\ held \in [Tenants -> HeldRoles]
    /\ good \in SUBSET Credentials
    /\ quotas \in SUBSET Tenants
    /\ events = 0
    /\ roleSeen = [r \in Visits |-> {}]
    /\ goodSeen = [r \in Visits |-> {}]
----------------------------------------------------------------------------
UnchangedWorld == UNCHANGED <<held, good, quotas, events, roleSeen, goodSeen>>

\* The next middleware of a request.
Before(r, middleware) ==
    /\ visits[r].pc = "chain"
    /\ visits[r].at < Len(Chain(visits[r].route))
    /\ Chain(visits[r].route)[visits[r].at + 1] = middleware

\* next()
Pass(r, visit) == visits' = [visits EXCEPT ![r] = [visit EXCEPT !.at = @ + 1]]

\* next(error), or an answer of the middleware itself.
RefuseWith(r, status) ==
    visits' = [visits EXCEPT ![r].pc = "refused", ![r].status = status]

AnswerWith(r, status) ==
    visits' = [visits EXCEPT ![r].pc = "handled", ![r].status = status]

\* Only the routes of an organization read the organization of the path.
Arrive(r, route, credential, header, path) ==
    /\ visits[r] = Waiting
    /\ route \in DOMAIN OrganizationRoutes \/ path = KeyTenant
    /\ visits' = [visits EXCEPT ![r] =
          [pc |-> "chain", route |-> route, credential |-> credential, header |-> header,
           path |-> path, at |-> 0, user |-> FALSE, key |-> FALSE, organization |-> "none",
           membership |-> "none", file |-> "none", status |-> 0]]
    /\ roleSeen' = [roleSeen EXCEPT ![r] = {<<t, held[t]>> : t \in Tenants}]
    /\ goodSeen' = [goodSeen EXCEPT ![r] = good]
    /\ UNCHANGED <<held, good, quotas, events>>

\* express.json refuses what is not JSON, and more than a megabyte with an error
\* errorHandler does not know.
ParseBody(r) ==
    /\ Before(r, "parse")
    /\ \/ Pass(r, visits[r])
       \/ RefuseWith(r, ErrorStatus.MalformedBody)
       \/ RefuseWith(r, ErrorStatus.Unknown)
    /\ UnchangedWorld

\* RateLimiter says which requests a limiter refuses.
LimitRate(r) ==
    /\ Before(r, "limit")
    /\ Pass(r, visits[r]) \/ RefuseWith(r, 429)
    /\ UnchangedWorld

\* A key brings its organization and an administrator's membership along.
AuthenticateKey(r) ==
    /\ Before(r, "authenticate") /\ visits[r].credential = "key"
    /\ IF "key" \in good
       THEN Pass(r, [visits[r] EXCEPT !.user = TRUE, !.key = TRUE,
                                      !.organization = KeyTenant, !.membership = "ADMIN"])
       ELSE RefuseWith(r, ErrorStatus.Unauthorized)
    /\ UnchangedWorld

\* A missing header, a token that is no JWT and an expired one are all a 401.
AuthenticateToken(r) ==
    /\ Before(r, "authenticate") /\ visits[r].credential # "key"
    /\ IF visits[r].credential \in good
       THEN Pass(r, [visits[r] EXCEPT !.user = TRUE])
       ELSE RefuseWith(r, ErrorStatus.Unauthorized)
    /\ UnchangedWorld

\* multer: a file is written to the upload directory, none was sent, its type
\* is refused, or it is too large, an error errorHandler does not know.
StoreUpload(r) ==
    /\ Before(r, "store")
    /\ \/ \E file \in {"stored", "none"} : Pass(r, [visits[r] EXCEPT !.file = file])
       \/ RefuseWith(r, ErrorStatus.BadRequest)
       \/ RefuseWith(r, ErrorStatus.Unknown)
    /\ UnchangedWorld

\* Mutant: a key is taken to its organization whatever the header says.
ResolveKeyAnywhere(r) ==
    /\ Before(r, "organization") /\ visits[r].key
    /\ Pass(r, visits[r])
    /\ UnchangedWorld

\* A key has its organization already; a header may only repeat it.
ResolveOfKey(r) ==
    /\ Before(r, "organization") /\ visits[r].key
    /\ IF visits[r].header \in {"none", visits[r].organization}
       THEN Pass(r, visits[r])
       ELSE RefuseWith(r, ErrorStatus.Forbidden)
    /\ UnchangedWorld

\* Everybody else names the organization and has to be a member of it.
ResolveOrganization(r) ==
    /\ Before(r, "organization") /\ ~visits[r].key
    /\ LET header == visits[r].header
       IN  \/ ~visits[r].user /\ RefuseWith(r, ErrorStatus.Forbidden)
           \/ visits[r].user /\ header = "none" /\ RefuseWith(r, ErrorStatus.BadRequest)
           \/ /\ visits[r].user /\ header \in Tenants
              /\ IF held[header] = "none"
                 THEN RefuseWith(r, ErrorStatus.Forbidden)
                 ELSE Pass(r, [visits[r] EXCEPT !.organization = header,
                                                !.membership = held[header]])
    /\ UnchangedWorld

\* requireRole('OWNER', 'ADMIN'), of the membership read before.
RequireRole(r) ==
    /\ Before(r, "role")
    /\ IF visits[r].membership \in Admins
       THEN Pass(r, visits[r])
       ELSE RefuseWith(r, ErrorStatus.Forbidden)
    /\ UnchangedWorld

Validate(r) ==
    /\ Before(r, "validate")
    /\ Pass(r, visits[r]) \/ RefuseWith(r, 422)
    /\ UnchangedWorld
----------------------------------------------------------------------------
\* Handlers

AtHandler(r) ==
    /\ visits[r].pc = "chain"
    /\ visits[r].at = Len(Chain(visits[r].route))

Bound(r) ==
    {field \in {"user", "organization", "membership"} :
        \/ field = "user" /\ visits[r].user
        \/ field = "organization" /\ visits[r].organization # "none"
        \/ field = "membership" /\ visits[r].membership # "none"}

Creating == {"register", "createOrganization", "addMember", "grantPermission", "createKey",
             "createConversation", "createDataset", "createRun"}

\* What the services do is the matter of other modules; a field that is not
\* there is a TypeError.
Handle(r) ==
    /\ AtHandler(r)
    /\ visits[r].route \notin {"uploadDocument", "getQuota", "getUsage"}
    /\ IF Reads(visits[r].route) \subseteq Bound(r)
       THEN \/ AnswerWith(r, IF visits[r].route \in Creating THEN 201 ELSE 200)
            \/ \E error \in DOMAIN ErrorStatus : AnswerWith(r, ErrorStatus[error])
       ELSE AnswerWith(r, ErrorStatus.Unknown)
    /\ UnchangedWorld

\* Without a file a 400; metadata that is not JSON and a database that fails
\* are a 500, and the stored file stays where it is.
HandleUpload(r) ==
    /\ AtHandler(r) /\ visits[r].route = "uploadDocument"
    /\ IF visits[r].file = "none"
       THEN AnswerWith(r, ErrorStatus.BadRequest) \/ AnswerWith(r, ErrorStatus.Unknown)
       ELSE \/ visits' = [visits EXCEPT ![r].pc = "handled", ![r].status = 201,
                                        ![r].file = "owned"]
            \/ AnswerWith(r, ErrorStatus.Unknown)
    /\ UnchangedWorld

\* The two routes of an organization that check the membership themselves,
\* in the organization of the path.
CheckPathMembership(r) ==
    /\ AtHandler(r) /\ visits[r].route \in {"getQuota", "getUsage"}
    /\ IF held[visits[r].path] = "none"
       THEN AnswerWith(r, ErrorStatus.Forbidden)
       ELSE visits' = [visits EXCEPT ![r].pc = "allowed"]
    /\ UnchangedWorld

GetUsage(r) ==
    /\ visits[r].pc = "allowed" /\ visits[r].route = "getUsage"
    /\ AnswerWith(r, 200)
    /\ UnchangedWorld

FindQuota(r) ==
    /\ visits[r].pc = "allowed" /\ visits[r].route = "getQuota"
    /\ IF visits[r].path \in quotas
       THEN AnswerWith(r, 200)
       ELSE visits' = [visits EXCEPT ![r].pc = "creating"]
    /\ UnchangedWorld

\* Another request may have made the row since.
CreateQuota(r) ==
    /\ visits[r].pc = "creating"
    /\ AnswerWith(r, IF visits[r].path \in quotas THEN ErrorStatus.UniqueViolation ELSE 200)
    /\ quotas' = quotas \cup {visits[r].path}
    /\ UNCHANGED <<held, good, events, roleSeen, goodSeen>>
----------------------------------------------------------------------------
\* The world, changed by other requests and by time

Underway(r) == visits[r].pc \in {"chain", "allowed", "creating"}

ChangeRole(t, role) ==
    /\ events < MaxEvents /\ held[t] # role
    /\ events' = events + 1
    /\ held' = [held EXCEPT ![t] = role]
    /\ roleSeen' = [r \in Visits |-> roleSeen[r] \cup (IF Underway(r) THEN {<<t, role>>} ELSE {})]
    /\ UNCHANGED <<visits, good, quotas, goodSeen>>

\* A key is revoked, a token expires.
LoseCredential(c) ==
    /\ events < MaxEvents /\ c \in good
    /\ events' = events + 1
    /\ good' = good \ {c}
    /\ UNCHANGED <<visits, held, quotas, roleSeen, goodSeen>>

QuotaElsewhere(t) ==
    /\ events < MaxEvents /\ t \notin quotas
    /\ events' = events + 1
    /\ quotas' = quotas \cup {t}
    /\ UNCHANGED <<visits, held, good, roleSeen, goodSeen>>

HttpNext ==
    \/ \E r \in Visits, route \in Visited, credential \in Credentials \cup {"none"},
          header \in Tenants \cup {"none"}, path \in Tenants :
          Arrive(r, route, credential, header, path)
    \/ \E r \in Visits :
          \/ ParseBody(r) \/ LimitRate(r)
          \/ AuthenticateKey(r) \/ AuthenticateToken(r) \/ StoreUpload(r)
          \/ ResolveOfKey(r) \/ ResolveOrganization(r) \/ RequireRole(r) \/ Validate(r)
          \/ Handle(r) \/ HandleUpload(r)
          \/ CheckPathMembership(r) \/ GetUsage(r) \/ FindQuota(r) \/ CreateQuota(r)
    \/ \E t \in Tenants, role \in HeldRoles : ChangeRole(t, role)
    \/ \E c \in Credentials : LoseCredential(c)
    \/ \E t \in Tenants : QuotaElsewhere(t)

HttpSpec == HttpInit /\ [][HttpNext]_httpVars
----------------------------------------------------------------------------
HttpTypeOK ==
    /\ visits \in [Visits -> Visit \cup {Waiting}]
    /\ held \in [Tenants -> HeldRoles]
    /\ good \in SUBSET Credentials
    /\ quotas \in SUBSET Tenants
    /\ events \in 0 .. MaxEvents
    /\ roleSeen \in [Visits -> SUBSET (Tenants \X HeldRoles)]
    /\ goodSeen \in [Visits -> SUBSET Credentials]

\* What the routers demand: nothing, somebody signed in, an administrator of the
\* organization, a member of whatever role. A key counts as an administrator.
OpenRoutes == {"register", "login", "refresh"}
PersonalRoutes == {"logout", "me"} \cup DOMAIN OrganizationRoutes
AdminRoutes == {"addMember", "updateMemberRole", "removeMember", "listAuditLogs"}
               \cup DOMAIN ApiKeyRoutes
RolesDemanded(route) == IF route \in AdminRoutes THEN Admins ELSE HeldRoles \ {"none"}

\* The request comes from somebody who could prove it at some moment since it
\* arrived.
Proven(r) == visits[r].route \in OpenRoutes \/ visits[r].credential \in goodSeen[r]

\* The request meets what its route demands in the organization t: a key in its
\* own, a member in the one the header names, in a role held at some moment
\* since it arrived.
MeetsDemands(r, t) ==
    IF visits[r].credential = "key"
    THEN t = KeyTenant /\ visits[r].header \in {"none", t}
    ELSE /\ visits[r].header = t
         /\ \E role \in RolesDemanded(visits[r].route) : <<t, role>> \in roleSeen[r]

Succeeded(r) == visits[r].pc = "handled" /\ visits[r].status \in {200, 201}

\* No request outruns the guards of its route: a handler runs only for somebody
\* who met what the routers demand, in the organization the request is about,
\* and with everything it reads in place, whatever changed while the request
\* waited; a quota or usage is shown, and a file stored, only for somebody
\* known; and a request turned away at the door for its credential or its role
\* did at some moment not meet them. Who ought to be let through is another
\* matter, see WritersArePermitted.
HandlersAreGuarded ==
    \A r \in Visits : visits[r] # Waiting =>
        /\ AtHandler(r) \/ visits[r].pc \in {"allowed", "creating", "handled"} =>
              /\ Reads(visits[r].route) \subseteq Bound(r)
              /\ Proven(r)
              /\ visits[r].route \notin OpenRoutes \cup PersonalRoutes =>
                    MeetsDemands(r, visits[r].organization)
        /\ visits[r].route \in {"getQuota", "getUsage"} /\ Succeeded(r) =>
              \E role \in HeldRoles \ {"none"} : <<visits[r].path, role>> \in roleSeen[r]
        /\ visits[r].pc = "handled" /\ visits[r].route = "getQuota"
           /\ visits[r].status \in {200, 409} => visits[r].path \in quotas
        /\ visits[r].file # "none" => Proven(r)
        /\ visits[r].pc = "refused" /\ visits[r].status = 401 => visits[r].credential \notin good
        /\ visits[r].pc = "refused" /\ visits[r].status = 403 =>
              IF visits[r].credential = "key"
              THEN visits[r].header \notin {"none", KeyTenant}
              ELSE \E role \in HeldRoles \ RolesDemanded(visits[r].route) :
                      <<visits[r].header, role>> \in roleSeen[r]

\* ROLE_PERMISSIONS, of the permissions that the routes below are about.
Reading == {"DOCUMENT_READ", "CONVERSATION_READ", "QUERY_EXECUTE", "SEARCH_EXECUTE",
            "EVALUATION_READ"}
Writing == {"DOCUMENT_CREATE", "DOCUMENT_UPDATE", "DOCUMENT_SHARE", "CONVERSATION_CREATE",
            "CONVERSATION_DELETE"}
RolePermissions ==
    [OWNER |-> Reading \cup Writing \cup {"EVALUATION_MANAGE"},
     ADMIN |-> Reading \cup Writing \cup {"EVALUATION_MANAGE"},
     MEMBER |-> Reading \cup Writing,
     VIEWER |-> Reading]

\* No router asks requirePermission for one of them.
PermissionOf ==
    [uploadDocument |-> "DOCUMENT_CREATE", processDocument |-> "DOCUMENT_UPDATE",
     grantPermission |-> "DOCUMENT_SHARE", revokePermission |-> "DOCUMENT_SHARE",
     listDocuments |-> "DOCUMENT_READ", getDocument |-> "DOCUMENT_READ",
     createConversation |-> "CONVERSATION_CREATE",
     deleteConversation |-> "CONVERSATION_DELETE", listConversations |-> "CONVERSATION_READ",
     search |-> "SEARCH_EXECUTE", query |-> "QUERY_EXECUTE",
     createDataset |-> "EVALUATION_MANAGE", createRun |-> "EVALUATION_MANAGE",
     listRuns |-> "EVALUATION_READ"]

\* A member's request succeeds only if a role the member held since it arrived
\* has the permission of its route, so a viewer only reads. Violated: the
\* routes of documents, conversations and evaluations ask for no permission.
WritersArePermitted ==
    \A r \in Visits :
        visits[r] # Waiting /\ Succeeded(r) /\ visits[r].credential = "token"
        /\ visits[r].route \in DOMAIN PermissionOf =>
            \E role \in DOMAIN RolePermissions :
                /\ <<visits[r].organization, role>> \in roleSeen[r]
                /\ PermissionOf[visits[r].route] \in RolePermissions[role]
=============================================================================
