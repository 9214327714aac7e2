----------------------------- MODULE MCServices -----------------------------
(***************************************************************************)
(* The components that share no state with each other, checked in one run: *)
(* part says which of them moves, the others stay where they start.        *)
(* Conversations are two parts, messages against renames and listings       *)
(* against messages; together they do not fit.                             *)
(***************************************************************************)
EXTENDS Conversations, Sessions, ApiKeys, RateLimiter, Shutdown, DocumentAccess,
        Retrieval, Indexing, ProviderCalls, AuditTrail, HttpRequests

CONSTANTS t1, t2, o, m, v, p1, c1, c2, c3, c4, e1, e2, e3

VARIABLE part

Parts == {"talk", "listing", "sessions", "keys", "limits", "shutdown", "access",
          "retrieval", "indexing", "calls", "audit", "http"}

TheRoles == [u \in People |-> CASE u = o -> "OWNER" [] u = m -> "MEMBER" [] u = v -> "VIEWER"]
TheCreator == [p \in Papers |-> IF p = p1 THEN m ELSE o]

\* Two documents, a text that occurs in both, a long chunk.
TheDocumentOf == [c \in Chunks |-> IF c = c4 THEN "b" ELSE "a"]
TheSnippet == [c \in Chunks |-> IF c \in {c2, c4} THEN "same" ELSE c]
TheTokens == [c \in Chunks |-> IF c = c4 THEN 3 ELSE IF c = c3 THEN 2 ELSE 1]

TheRetries == [c \in Calls |-> 2]

\* Two changes of the same kind, user and organization, and another.
TheEventOf == [c \in Changes |-> IF c = e3 THEN "removed" ELSE "added"]

\* Of the routes of a router that pass the same middlewares and read the same
\* of the request, one or two.
TheVisited ==
    {"login", "me", "createOrganization", "getQuota", "getUsage"}
    \cup {"listMembers", "addMember", "removeMember"}
    \cup {"uploadDocument", "processDocument", "revokePermission", "listDocuments"}
    \cup {"createKey", "listKeys", "listAuditLogs"}
    \cup {"listConversations", "sendMessage", "createRun", "search", "query"}

TheHeld == [t \in Tenants |-> IF t = KeyTenant THEN "ADMIN" ELSE "MEMBER"]

servicesVars == <<part, convVars, sessVars, keyVars, limitVars, downVars, accessVars,
                  retVars, indexVars, callVars, auditVars, httpVars>>

ServicesInit ==
    /\ part \in Parts
    /\ ConvInit /\ SessInit /\ KeyInit /\ LimitInit /\ AccessInit /\ CallInit /\ AuditInit
    /\ DownInit /\ (part # "shutdown" => process = "api")
    /\ RetInit /\ (part # "retrieval" => hybrid)
    /\ IndexInit /\ (part # "indexing" => size = 1 /\ pages = <<>>)
    /\ HttpInit /\ held = TheHeld /\ good = Credentials /\ quotas = {}

\* Of two turns, which differ in nothing, t1 is the first.
FirstTurnFirst == turns'[t2].pc # "idle" => turns'[t1].pc # "idle"

\* Nobody lists; a document that goes before an answer cites it is one the
\* answer does not cite.
TalkPart ==
    /\ ConvNext /\ FirstTurnFirst
    /\ \A l \in Listings : listings'[l].pc = "idle"
    /\ document' \/ \E t \in Turns : turns'[t].cites

\* Somebody lists what answered messages leave, nobody renames or deletes.
ListingPart ==
    /\ ConvNext /\ FirstTurnFirst
    /\ title' # "default" /\ document'
    /\ \A t \in Turns : ~turns'[t].cites /\ turns'[t].pc # "failed"
    /\ \A e \in Editors : edits'[e].pc = "idle"

\* Redis fails in the first window only.
LimitPart == LimitNext /\ \A n \in 2 .. MaxLives : failures'[n] = 0

\* Nothing happens once every request is answered.
HttpPart == HttpNext /\ \E r \in Visits : visits[r].pc \notin {"refused", "handled"}

Conversing == (part = "talk" /\ TalkPart) \/ (part = "listing" /\ ListingPart)

ServicesNext ==
    /\ UNCHANGED part
    /\ \/ Conversing /\ UNCHANGED <<sessVars, keyVars, limitVars, downVars, accessVars, retVars,
                                    indexVars, callVars, auditVars, httpVars>>
       \/ /\ part = "sessions" /\ SessNext
          /\ UNCHANGED <<convVars, keyVars, limitVars, downVars, accessVars, retVars,
                         indexVars, callVars, auditVars, httpVars>>
       \/ /\ part = "keys" /\ KeyNext
          /\ UNCHANGED <<convVars, sessVars, limitVars, downVars, accessVars, retVars,
                         indexVars, callVars, auditVars, httpVars>>
       \/ /\ part = "limits" /\ LimitPart
          /\ UNCHANGED <<convVars, sessVars, keyVars, downVars, accessVars, retVars,
                         indexVars, callVars, auditVars, httpVars>>
       \/ /\ part = "shutdown" /\ DownNext
          /\ UNCHANGED <<convVars, sessVars, keyVars, limitVars, accessVars, retVars,
                         indexVars, callVars, auditVars, httpVars>>
       \/ /\ part = "access" /\ AccessNext
          /\ UNCHANGED <<convVars, sessVars, keyVars, limitVars, downVars, retVars,
                         indexVars, callVars, auditVars, httpVars>>
       \/ /\ part = "retrieval" /\ RetNext
          /\ UNCHANGED <<convVars, sessVars, keyVars, limitVars, downVars, accessVars,
                         indexVars, callVars, auditVars, httpVars>>
       \/ /\ part = "indexing" /\ IndexNext
          /\ UNCHANGED <<convVars, sessVars, keyVars, limitVars, downVars, accessVars,
                         retVars, callVars, auditVars, httpVars>>
       \/ /\ part = "calls" /\ CallNext
          /\ UNCHANGED <<convVars, sessVars, keyVars, limitVars, downVars, accessVars,
                         retVars, indexVars, auditVars, httpVars>>
       \/ /\ part = "audit" /\ AuditNext
          /\ UNCHANGED <<convVars, sessVars, keyVars, limitVars, downVars, accessVars,
                         retVars, indexVars, callVars, httpVars>>
       \/ /\ part = "http" /\ HttpPart
          /\ UNCHANGED <<convVars, sessVars, keyVars, limitVars, downVars, accessVars,
                         retVars, indexVars, callVars, auditVars>>

\* A component that starts has nothing to be fair about, so the conditions of
\* the others do not disturb the part that moves.
ServicesSpec ==
    /\ ServicesInit /\ [][ServicesNext]_servicesVars
    /\ SessFairness /\ LimitFairness /\ DownFairness /\ CallFairness

\* Every variable of every component has a value of its type.
ServicesTypeOK ==
    /\ ConvTypeOK /\ SessTypeOK /\ KeyTypeOK /\ LimitTypeOK /\ DownTypeOK
    /\ AccessTypeOK /\ RetTypeOK /\ IndexTypeOK /\ CallTypeOK /\ AuditTypeOK
    /\ HttpTypeOK
=============================================================================
