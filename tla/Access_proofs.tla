--------------------------- MODULE Access_proofs ---------------------------
(***************************************************************************)
(* Who gets in: accounts and sessions, API keys, grants on documents, rate *)
(* limits and the middlewares of every route, each for any number of       *)
(* clients, documents and requests.                                        *)
(***************************************************************************)
EXTENDS Sessions, ApiKeys, DocumentAccess, RateLimiter, HttpRequests, FiniteSetTheorems, TLAPS

----------------------------------------------------------------------------
\* Signing in. For any number of clients that register and log in with one
\* email: the state stays well-formed, and the registrations leave one account
\* with its workspace or nothing at all.
LEMMA SessInitTypeOK == SessInit => SessTypeOK
BY DEF SessInit, SessTypeOK, SignIn

LEMMA SessNextTypeOK == SessTypeOK /\ [SessNext]_sessVars => SessTypeOK'
<1> SUFFICES ASSUME SessTypeOK, [SessNext]_sessVars
             PROVE  SessTypeOK'
    OBVIOUS
<1> USE DEF SessTypeOK, SignIn
<1>1. ASSUME NEW c \in Clients, FindEmail(c) \/ FindUser(c) \/ Interrupt(c)
      PROVE  SessTypeOK'
  BY <1>1 DEF FindEmail, FindUser, Interrupt, Step
<1>2. ASSUME NEW c \in Clients, CreateAccount(c)
      PROVE  SessTypeOK'
  BY <1>2 DEF CreateAccount
<1>3. ASSUME NEW c \in Clients, IssueTokens(c)
      PROVE  SessTypeOK'
  BY <1>3 DEF IssueTokens, Step
<1>4. ASSUME NEW c \in Clients, LookUpToken(c) \/ GrantAccess(c)
      PROVE  SessTypeOK'
  BY <1>4 DEF LookUpToken, GrantAccess
<1>5. ASSUME NEW c \in Clients, Logout(c) \/ ExpireToken(c) \/ ExpireAccess(c)
      PROVE  SessTypeOK'
  BY <1>5 DEF Logout, ExpireToken, ExpireAccess
<1>6. CASE UNCHANGED sessVars
  BY <1>6 DEF sessVars
<1> QED BY <1>1, <1>2, <1>3, <1>4, <1>5, <1>6 DEF SessNext

\* The type invariant, for any number of clients.
THEOREM SessTypeCorrect == SessSpec => []SessTypeOK
BY SessInitTypeOK, SessNextTypeOK, PTL DEF SessSpec
----------------------------------------------------------------------------
\* Tokens are only issued where there is an account already, which is never
\* taken away: with it RegistrationsAreWhole is inductive.
IssuedToAccounts ==
    \A c \in Clients : signIns[c] \in {"issuing", "done"} => accounts # {}

SessInv == SessTypeOK /\ RegistrationsAreWhole /\ IssuedToAccounts

LEMMA SessInitInv == SessInit => SessInv
BY SessInitTypeOK DEF SessInit, SessInv, RegistrationsAreWhole, IssuedToAccounts

LEMMA SessNextInv == SessInv /\ [SessNext]_sessVars => SessInv'
<1> SUFFICES ASSUME SessInv, [SessNext]_sessVars
             PROVE  SessInv'
    OBVIOUS
<1>0. SessTypeOK /\ SessTypeOK'
  BY SessNextTypeOK DEF SessInv
<1> USE DEF SessInv, RegistrationsAreWhole, IssuedToAccounts
<1>1. ASSUME NEW c \in Clients, FindEmail(c)
      PROVE  SessInv'
  BY <1>0, <1>1 DEF FindEmail, Step, SessTypeOK
<1>2. ASSUME NEW c \in Clients, CreateAccount(c)
      PROVE  SessInv'
  <2>1. CASE accounts = {}
    <3>1. accounts' = {c} /\ workspaces' = {c} /\ tokens' = tokens
      BY <1>2, <2>1 DEF CreateAccount
    <3> QED BY <1>0, <3>1
  <2>2. CASE accounts # {}
    <3>1. UNCHANGED <<accounts, workspaces, tokens>>
      BY <1>2, <2>2 DEF CreateAccount
    <3> QED BY <1>0, <2>2, <3>1
  <2> QED BY <2>1, <2>2
<1>3. ASSUME NEW c \in Clients, FindUser(c)
      PROVE  SessInv'
  BY <1>0, <1>3 DEF FindUser, Step, SessTypeOK
<1>4. ASSUME NEW c \in Clients, IssueTokens(c)
      PROVE  SessInv'
  <2>1. accounts # {}
    BY <1>4 DEF IssueTokens, Step
  <2> QED BY <1>0, <1>4, <2>1 DEF IssueTokens
<1>5. ASSUME NEW c \in Clients, Interrupt(c)
      PROVE  SessInv'
  BY <1>0, <1>5 DEF Interrupt, SessTypeOK
<1>6. ASSUME NEW c \in Clients, LookUpToken(c) \/ GrantAccess(c) \/ ExpireAccess(c)
      PROVE  SessInv'
  <2>1. UNCHANGED <<accounts, workspaces, signIns, tokens>>
    BY <1>6 DEF LookUpToken, GrantAccess, ExpireAccess
  <2> QED BY <1>0, <2>1
<1>7. ASSUME NEW c \in Clients, Logout(c) \/ ExpireToken(c)
      PROVE  SessInv'
  <2>1. UNCHANGED <<accounts, workspaces, signIns>>
    BY <1>7 DEF Logout, ExpireToken
  <2>2. \A d \in Clients : tokens'[d] # "none" => tokens[d] # "none"
    BY <1>0, <1>7 DEF Logout, ExpireToken, SessTypeOK
  <2> QED BY <1>0, <2>1, <2>2
<1>8. CASE UNCHANGED sessVars
  BY <1>0, <1>8 DEF sessVars
<1> QED BY <1>1, <1>2, <1>3, <1>4, <1>5, <1>6, <1>7, <1>8 DEF SessNext

\* Of any number of registrations with one email one makes an account and its
\* workspace, the others make nothing, and only an account has sessions.
THEOREM RegistrationsAreWholeHolds == SessSpec => []RegistrationsAreWhole
<1>1. SessInv => RegistrationsAreWhole
  BY DEF SessInv
<1> QED BY SessInitInv, SessNextInv, <1>1, PTL DEF SessSpec
----------------------------------------------------------------------------
\* API keys. For any number of revoke and rotate requests and any time: the row
\* stays well-formed, and a secret that was refused once is refused for ever.
USE ApiKeysAssumption

LEMMA KeyInitTypeOK == KeyInit => KeyTypeOK
BY DEF KeyInit, KeyTypeOK, Key, NoKey, Managing

\* The expiries a request may choose are times.
LEMMA ExpiriesAreTimes ==
    ASSUME KeyTypeOK, NEW unchanged \in Nat, NEW expiresAt \in Expiries(unchanged)
    PROVE  expiresAt \in Nat
BY DEF Expiries, KeyTypeOK

LEMMA KeyNextTypeOK == KeyTypeOK /\ [KeyNext]_keyVars => KeyTypeOK'
<1> SUFFICES ASSUME KeyTypeOK, [KeyNext]_keyVars
             PROVE  KeyTypeOK'
    OBVIOUS
<1> USE DEF KeyTypeOK, Key, Managing
<1>1. ASSUME NEW expiresAt \in Expiries(0), CreateApiKey(expiresAt)
      PROVE  KeyTypeOK'
  BY <1>1, ExpiriesAreTimes DEF CreateApiKey
<1>2. ASSUME NEW r \in Managers, NEW op \in {"revoke", "rotate"}, FindKey(r, op)
      PROVE  KeyTypeOK'
  BY <1>2 DEF FindKey
<1>3. ASSUME NEW r \in Managers, RevokeApiKey(r)
      PROVE  KeyTypeOK'
  BY <1>3 DEF RevokeApiKey
<1>4. ASSUME NEW r \in Managers, NEW expiresAt \in Expiries(managing[r].expiresAt),
             RotateApiKey(r, expiresAt)
      PROVE  KeyTypeOK'
  <2>1. expiresAt \in Nat
    BY ExpiriesAreTimes
  <2> QED BY <1>4, <2>1 DEF RotateApiKey
<1>5. ASSUME NEW r \in Managers, AbandonManaging(r)
      PROVE  KeyTypeOK'
  BY <1>5 DEF AbandonManaging
<1>6. CASE Tick
  BY <1>6 DEF Tick
<1>7. CASE UNCHANGED keyVars
  BY <1>7 DEF keyVars
<1> QED BY <1>1, <1>2, <1>3, <1>4, <1>5, <1>6, <1>7 DEF KeyNext

\* The type invariant, for any number of requests and any time.
THEOREM KeyTypeCorrect == KeySpec => []KeyTypeOK
BY KeyInitTypeOK, KeyNextTypeOK, PTL DEF KeySpec
----------------------------------------------------------------------------
\* A step accepts only a secret it has just made or one accepted before.
LEMMA StepRefusesOnward ==
    ASSUME KeyTypeOK, [KeyNext]_keyVars, NEW s \in 1 .. secrets, s \notin Accepted
    PROVE  s \notin Accepted'
<1> USE DEF KeyTypeOK, Key, Accepted
<1>1. ASSUME NEW expiresAt, CreateApiKey(expiresAt)
      PROVE  s \notin Accepted'
  BY <1>1 DEF CreateApiKey
<1>2. ASSUME NEW r \in Managers, RevokeApiKey(r)
      PROVE  s \notin Accepted'
  <2>1. key'.revoked
    BY <1>2 DEF RevokeApiKey
  <2> QED BY <2>1
<1>3. ASSUME NEW r \in Managers, NEW expiresAt, RotateApiKey(r, expiresAt)
      PROVE  s \notin Accepted'
  BY <1>3 DEF RotateApiKey
<1>4. CASE Tick
  BY <1>4 DEF Tick
<1>5. ASSUME UNCHANGED <<key, secrets, now>>
      PROVE  s \notin Accepted'
  BY <1>5
<1> QED BY <1>1, <1>2, <1>3, <1>4, <1>5 DEF KeyNext, FindKey, AbandonManaging, keyVars

\* A secret that was refused once is refused for ever, for any number of
\* concurrent revocations and rotations.
THEOREM SecretsDieForGoodHolds == KeySpec => SecretsDieForGood
<1>1. KeyTypeOK /\ [KeyNext]_keyVars =>
        [\A s \in 1 .. secrets : s \notin Accepted => s \notin Accepted']_keyVars
  BY StepRefusesOnward
<1> QED BY <1>1, KeyTypeCorrect, PTL DEF KeySpec, SecretsDieForGood

HIDE ApiKeysAssumption
----------------------------------------------------------------------------
\* Document access. For any documents, members, roles and number of requests:
\* the grants stay well-formed, the two evaluations of them agree, and between
\* the first grant on a document and the last one grants only add.
USE DocumentAccessAssumption

LEMMA AccessInitTypeOK == AccessInit => AccessTypeOK
BY DEF AccessInit, AccessTypeOK, Grant, Requester, Ended

LEMMA AccessNextTypeOK == AccessTypeOK /\ [AccessNext]_accessVars => AccessTypeOK'
<1> SUFFICES ASSUME AccessTypeOK, [AccessNext]_accessVars
             PROVE  AccessTypeOK'
    OBVIOUS
<1> USE DEF AccessTypeOK, Requester, Ended
<1>1. ASSUME NEW r \in Requesters, NEW person \in People, NEW paper \in Papers,
             NEW op \in {"grant", "find"}, CheckAdmin(r, person, paper, op)
      PROVE  AccessTypeOK'
  BY <1>1 DEF CheckAdmin
<1>2. ASSUME NEW r \in Requesters, NEW grantee \in Grantees, NEW level \in Levels,
             GrantPermission(r, grantee, level)
      PROVE  AccessTypeOK'
  <2>1. requesters[r].paper \in Papers
    BY <1>2 DEF GrantPermission
  <2>2. [id |-> made + 1, paper |-> requesters[r].paper, grantee |-> grantee,
         level |-> level] \in Grant
    BY <1>2, <2>1 DEF Grant
  <2> QED BY <1>2, <2>2 DEF GrantPermission
<1>3. ASSUME NEW r \in Requesters, NEW g \in grants, FindGrant(r, g)
      PROVE  AccessTypeOK'
  <2>1. g.id \in Nat
    BY DEF Grant
  <2>2. requesters[r] \in Requester
    BY <1>3 DEF FindGrant
  <2> QED BY <1>3, <2>1, <2>2 DEF FindGrant
<1>4. ASSUME NEW r \in Requesters, RevokePermission(r)
      PROVE  AccessTypeOK'
  BY <1>4 DEF RevokePermission
<1>5. CASE UNCHANGED accessVars
  BY <1>5 DEF accessVars
<1> QED BY <1>1, <1>2, <1>3, <1>4, <1>5 DEF AccessNext

\* The type invariant, for any number of documents, members and requests.
THEOREM AccessTypeCorrect == AccessSpec => []AccessTypeOK
BY AccessInitTypeOK, AccessNextTypeOK, PTL DEF AccessSpec
----------------------------------------------------------------------------
\* Every grant is of a document that exists and of a level of the hierarchy.
LEMMA GrantsAreTyped ==
    ASSUME AccessTypeOK, NEW g \in grants
    PROVE  g.paper \in Papers /\ g.level \in 1 .. 3
BY DEF AccessTypeOK, Grant, Levels

\* The filter itself, for a member who does not administer.
LEMMA FilteredIsChecked ==
    ASSUME AccessTypeOK, NEW person \in People, NEW paper \in Papers, ~Administers(person)
    PROVE  paper \in Filtered(person, 1) <=> CanAccess(person, paper, 1)
<1>1. CASE GrantsOn(paper) = {}
  BY <1>1 DEF CanAccess, Filtered, DefaultAllows
<1>2. CASE GrantsOn(paper) # {}
  <2>1. paper \in {g.paper : g \in {h \in grants : h.level >= 1 /\ Concerns(h, person)}}
        <=> \E g \in GrantsOn(paper) : g.level >= 1 /\ Concerns(g, person)
    BY DEF GrantsOn
  <2> QED BY <1>2, <2>1 DEF CanAccess, Filtered
<1> QED BY <1>1, <1>2

LEMMA EvaluationsAgree == AccessTypeOK => FilterAgreesWithCheck
<1> SUFFICES ASSUME AccessTypeOK, NEW person \in People
             PROVE  \A paper \in Papers :
                /\ \A way \in {"list", "query"} :
                      paper \in Reached(person, way) <=> CanAccess(person, paper, 1)
                /\ \A way \in Ways : CanAccess(person, paper, 1) => paper \in Reached(person, way)
                /\ paper \in Reached(person, "queryOne") =>
                      \E other \in Papers : CanAccess(person, other, 1)
                /\ \A way \in {"search", "message"} : paper \in Reached(person, way)
    BY DEF FilterAgreesWithCheck
<1>1. \A paper \in Papers, way \in {"list", "query", "queryOne"} :
         paper \in Allowed(person, way) <=> CanAccess(person, paper, 1)
  <2>1. CASE Administers(person)
    BY <2>1 DEF Allowed, CanAccess
  <2>2. CASE ~Administers(person)
    BY <2>2, FilteredIsChecked DEF Allowed
  <2> QED BY <2>1, <2>2
<1>2. \A way \in {"list", "query"} : Reached(person, way) = Allowed(person, way)
  BY DEF Reached
<1>3. \A way \in {"search", "message"} : Reached(person, way) = Papers
  BY DEF Reached, Allowed
<1>4. Allowed(person, "queryOne") \subseteq Papers
  <2>1. Filtered(person, 1) \subseteq Papers
    BY GrantsAreTyped DEF Filtered
  <2> QED BY <2>1 DEF Allowed
<1>5. Reached(person, "queryOne") = IF Allowed(person, "queryOne") # {} THEN Papers ELSE {}
  BY DEF Reached
<1> QED BY <1>1, <1>2, <1>3, <1>4, <1>5 DEF Ways

\* A list and a question about all documents show a member exactly the
\* documents the member may open, for every set of grants that can come about;
\* a named document takes one the member may open, a search nothing.
THEOREM FilterAgreesWithCheckHolds == AccessSpec => []FilterAgreesWithCheck
BY AccessTypeCorrect, EvaluationsAgree, PTL
----------------------------------------------------------------------------
\* What one step of the grants does to one person's access to one document.
LEMMA AccessChanges ==
    ASSUME NEW paper \in Papers, NEW person \in People, NEW level \in Levels
    PROVE  /\ CanAccess(person, paper, level) /\ ~CanAccess(person, paper, level)' =>
                \/ GrantsOn(paper) = {}
                \/ Helping(person, paper, level) \ Helping(person, paper, level)' # {}
           /\ ~CanAccess(person, paper, level) /\ CanAccess(person, paper, level)' =>
                \/ Helping(person, paper, level)' \ Helping(person, paper, level) # {}
                \/ GrantsOn(paper)' = {}
           /\ GrantsOn(paper) = {} /\ GrantsOn(paper)' # {} /\ CanAccess(person, paper, level)' =>
                \/ Helping(person, paper, level)' # {}
                \/ Administers(person) \/ Creator[paper] = person
           /\ GrantsOn(paper)' = {} => CanAccess(person, paper, 1)'
<1> DEFINE exempt == Administers(person) \/ Creator[paper] = person
           helping == Helping(person, paper, level)
\* Beyond role and authorship a document's grants decide, unless it has none.
<1>1. CanAccess(person, paper, level) <=>
         exempt \/ IF GrantsOn(paper) = {} THEN DefaultAllows(person, level) ELSE helping # {}
  BY DEF CanAccess, Helping
<1>2. Administers(person)' <=> Administers(person)
  BY DEF Administers
<1>3. DefaultAllows(person, level)' <=> DefaultAllows(person, level)
  BY DEF DefaultAllows
<1>4. CanAccess(person, paper, level)' <=>
         exempt \/ IF GrantsOn(paper)' = {} THEN DefaultAllows(person, level) ELSE helping' # {}
  BY <1>1, <1>2, <1>3 DEF CanAccess, Helping
<1>5. GrantsOn(paper) = {} => helping = {}
  BY DEF Helping
<1>6. GrantsOn(paper)' = {} => helping' = {}
  BY DEF Helping
<1>7. GrantsOn(paper)' = {} => CanAccess(person, paper, 1)'
  BY DEF CanAccess, DefaultAllows
<1> HIDE DEF exempt, helping
<1>8. CanAccess(person, paper, level) /\ ~CanAccess(person, paper, level)' =>
         GrantsOn(paper) = {} \/ helping \ helping' # {}
  BY <1>1, <1>4, <1>6
<1>9. ~CanAccess(person, paper, level) /\ CanAccess(person, paper, level)' =>
         helping' \ helping # {} \/ GrantsOn(paper)' = {}
  BY <1>1, <1>4, <1>5
<1>10. GrantsOn(paper) = {} /\ GrantsOn(paper)' # {} /\ CanAccess(person, paper, level)' =>
          helping' # {} \/ exempt
  BY <1>4
<1> QED BY <1>7, <1>8, <1>9, <1>10 DEF helping, exempt

\* Access follows the grants: the first grant, the ones between and the last
\* revocation each change exactly what they are to change, for any number of
\* documents, members and requests.
THEOREM AccessFollowsTheGrantsHolds == AccessSpec => AccessFollowsTheGrants
<1>1. [AccessNext]_accessVars =>
        [\A paper \in Papers, person \in People, level \in Levels :
          /\ CanAccess(person, paper, level) /\ ~CanAccess(person, paper, level)' =>
                \/ GrantsOn(paper) = {}
                \/ Helping(person, paper, level) \ Helping(person, paper, level)' # {}
          /\ ~CanAccess(person, paper, level) /\ CanAccess(person, paper, level)' =>
                \/ Helping(person, paper, level)' \ Helping(person, paper, level) # {}
                \/ GrantsOn(paper)' = {}
          /\ GrantsOn(paper) = {} /\ GrantsOn(paper)' # {} /\ CanAccess(person, paper, level)' =>
                \/ Helping(person, paper, level)' # {}
                \/ Administers(person) \/ Creator[paper] = person
          /\ GrantsOn(paper)' = {} => CanAccess(person, paper, 1)']_accessVars
  BY AccessChanges
<1> QED BY <1>1, PTL DEF AccessSpec, AccessFollowsTheGrants

HIDE DocumentAccessAssumption
----------------------------------------------------------------------------
\* Rate limits. For any number of requests, any limit and any number of
\* windows: within one window no more requests are let through than the limit
\* and one more for each failure. The proof counts the requests that were
\* counted within the limit and have not been decided yet together with those
\* that were let through.
USE RateLimiterAssumption

LEMMA LimitInitTypeOK == LimitInit => LimitTypeOK
<1> SUFFICES ASSUME LimitInit PROVE LimitTypeOK
    OBVIOUS
<1>1. ttl \in BOOLEAN
  BY DEF LimitInit
<1>2. /\ count \in Nat /\ life \in Nat
      /\ admitted \in [1 .. MaxLives -> Nat] /\ failures \in [1 .. MaxLives -> Nat]
  BY DEF LimitInit
<1>3. senders \in [Senders -> Sender]
  BY DEF LimitInit, Sender, NoSender
<1> QED BY <1>1, <1>2, <1>3 DEF LimitTypeOK

\* A request is decided in a life of the key that there was or still is.
CountedInLives ==
    /\ count > 0 => life \in 1 .. MaxLives
    /\ \A r \in Senders :
          senders[r].pc \in {"expire", "decide"} =>
             senders[r].life \in 1 .. MaxLives /\ senders[r].life <= life

LimitTyped == LimitTypeOK /\ CountedInLives

LEMMA LimitInitTyped == LimitInit => LimitTyped
BY LimitInitTypeOK DEF LimitInit, LimitTyped, CountedInLives, NoSender

\* Where the key's expiry is a truth value, kept apart from the arithmetic.
LEMMA NextTtl == LimitTypeOK /\ [LimitNext]_limitVars => ttl' \in BOOLEAN
<1> SUFFICES ASSUME LimitTypeOK, [LimitNext]_limitVars
             PROVE  ttl' \in BOOLEAN
    OBVIOUS
<1>1. ASSUME NEW r \in Senders, SetExpiry(r)
      PROVE  ttl' \in BOOLEAN
  <2>1. CASE count > 0
    BY <1>1, <2>1 DEF SetExpiry
  <2>2. CASE ~(count > 0)
    BY <1>1, <2>2 DEF SetExpiry
  <2> QED BY <2>1, <2>2
<1>2. CASE ExpireKey
  BY <1>2 DEF ExpireKey
<1>3. CASE UNCHANGED ttl
  BY <1>3 DEF LimitTypeOK
<1> QED
  BY <1>1, <1>2, <1>3 DEF LimitNext, Increment, PassWithoutRedis, FailExpiry, LoseExpiry, Admit,
     Refuse, Retry, limitVars

LEMMA LimitNextTyped == LimitTyped /\ [LimitNext]_limitVars => LimitTyped'
<1> SUFFICES ASSUME LimitTyped, [LimitNext]_limitVars
             PROVE  LimitTyped'
    OBVIOUS
<1>0. ttl' \in BOOLEAN
  BY NextTtl DEF LimitTyped
<1> USE DEF LimitTyped, LimitTypeOK, CountedInLives, Sender, NoSender
<1>1. ASSUME NEW r \in Senders, Increment(r)
      PROVE  LimitTyped'
  <2>1. count' = count + 1 /\ life' \in 1 .. MaxLives
    BY <1>1 DEF Increment
  <2> QED BY <1>0, <1>1, <2>1 DEF Increment
<1>2. ASSUME NEW r \in Senders, SetExpiry(r)
      PROVE  LimitTyped'
  BY <1>0, <1>2 DEF SetExpiry
<1>3. ASSUME NEW r \in Senders, LoseExpiry(r) \/ Retry(r)
      PROVE  LimitTyped'
  <2>1. NoSender \in Sender
    OBVIOUS
  <2>2. senders' = [senders EXCEPT ![r] = NoSender] /\ UNCHANGED <<count, life, admitted, failures>>
    BY <1>3 DEF LoseExpiry, Retry
  <2> QED BY <1>0, <2>1, <2>2
<1>4. ASSUME NEW r \in Senders, Admit(r)
      PROVE  LimitTyped'
  BY <1>0, <1>4 DEF Admit
<1>5. ASSUME NEW r \in Senders, Refuse(r)
      PROVE  LimitTyped'
  BY <1>0, <1>5 DEF Refuse
<1>6. CASE ExpireKey
  BY <1>0, <1>6 DEF ExpireKey
<1>7. CASE UNCHANGED limitVars
  BY <1>0, <1>7 DEF limitVars
<1>8. ASSUME NEW r \in Senders, PassWithoutRedis(r)
      PROVE  LimitTyped'
  <2>1. life \in 1 .. MaxLives
    BY <1>8 DEF PassWithoutRedis
  <2>2. UNCHANGED <<count, life, senders>>
    BY <1>8 DEF PassWithoutRedis
  <2>3. /\ admitted' = [admitted EXCEPT ![life] = @ + 1]
        /\ failures' = [failures EXCEPT ![life] = @ + 1]
    BY <1>8 DEF PassWithoutRedis, LetThroughUncounted
  <2>4. admitted' \in [1 .. MaxLives -> Nat] /\ failures' \in [1 .. MaxLives -> Nat]
    BY <2>1, <2>3
  <2> QED BY <1>0, <2>2, <2>4
<1>9. ASSUME NEW r \in Senders, FailExpiry(r)
      PROVE  LimitTyped'
  <2>1. NoSender \in Sender
    OBVIOUS
  <2> QED BY <1>0, <1>9, <2>1 DEF FailExpiry, LetThroughUncounted
<1> QED BY <1>1, <1>2, <1>3, <1>4, <1>5, <1>6, <1>7, <1>8, <1>9 DEF LimitNext

\* The type invariant, for any number of requests and windows.
THEOREM LimitTypeCorrect == LimitSpec => []LimitTypeOK
<1>1. LimitTyped => LimitTypeOK
  BY DEF LimitTyped
<1> QED BY LimitInitTyped, LimitNextTyped, <1>1, PTL DEF LimitSpec
----------------------------------------------------------------------------
\* Counted within the limit in the n-th life of the key, and not yet decided.
Pending(n) ==
    {r \in Senders : /\ senders[r].pc \in {"expire", "decide"}
                     /\ senders[r].life = n
                     /\ senders[r].count <= LimitMax}

\* What has been and may still be let through in a life of the key.
Through(n) == admitted[n] + Cardinality(Pending(n))

LimitInv ==
    /\ LimitTyped
    /\ \A n \in 1 .. MaxLives :
          /\ Through(n) <= LimitMax + failures[n]
          /\ count > 0 /\ n = life => Through(n) <= count + failures[n]
          /\ n > life => Through(n) = 0

LEMMA PendingIsFinite ==
    ASSUME NEW n
    PROVE  IsFiniteSet(Pending(n)) /\ Cardinality(Pending(n)) \in Nat
BY FS_Subset, FS_CardinalityType DEF Pending

LEMMA PendingIsFiniteNext ==
    ASSUME NEW n
    PROVE  IsFiniteSet(Pending(n)') /\ Cardinality(Pending(n)') \in Nat
BY FS_Subset, FS_CardinalityType DEF Pending

LEMMA LimitInitInv == LimitInit => LimitInv
<1> SUFFICES ASSUME LimitInit PROVE LimitInv
    OBVIOUS
<1>1. \A n : Pending(n) = {}
  BY DEF LimitInit, Pending, NoSender
<1>3. \A n \in 1 .. MaxLives : failures[n] = 0
  BY DEF LimitInit
<1>2. \A n \in 1 .. MaxLives : Through(n) = 0
  <2>1. Cardinality({}) = 0
    BY FS_EmptySet
  <2>2. \A n \in 1 .. MaxLives : admitted[n] = 0
    BY DEF LimitInit
  <2> QED BY <1>1, <2>1, <2>2 DEF Through
<1> QED BY <1>2, <1>3, LimitInitTyped DEF LimitInit, LimitInv

LEMMA LimitNextInv == LimitInv /\ [LimitNext]_limitVars => LimitInv'
<1> SUFFICES ASSUME LimitInv, [LimitNext]_limitVars
             PROVE  LimitInv'
    OBVIOUS
<1>0. LimitTyped /\ LimitTyped'
  BY LimitNextTyped DEF LimitInv
<1> USE DEF LimitTyped, LimitTypeOK, Sender, NoSender
<1>a. \A n \in 1 .. MaxLives : Through(n) \in Nat /\ Through(n)' \in Nat
  <2> SUFFICES ASSUME NEW n \in 1 .. MaxLives
               PROVE  Through(n) \in Nat /\ Through(n)' \in Nat
      OBVIOUS
  <2>1. admitted[n] \in Nat /\ admitted'[n] \in Nat
    BY <1>0
  <2> HIDE DEF LimitTyped, LimitTypeOK, Sender, NoSender
  <2> QED BY <2>1, PendingIsFinite, PendingIsFiniteNext DEF Through
\* Steps that count nobody and open no window.
<1>b. ASSUME UNCHANGED <<life, failures>>, count' \in {0, count},
             \A n \in 1 .. MaxLives : Through(n)' <= Through(n)
      PROVE  LimitInv'
  <2> SUFFICES ASSUME NEW n \in 1 .. MaxLives
               PROVE  /\ Through(n)' <= LimitMax + failures[n]
                      /\ count' > 0 /\ n = life => Through(n)' <= count' + failures[n]
                      /\ n > life => Through(n)' = 0
      BY <1>0, <1>b DEF LimitInv
  <2>1. /\ Through(n) \in Nat /\ Through(n)' \in Nat /\ Through(n)' <= Through(n)
        /\ count \in Nat /\ life \in Nat /\ failures[n] \in Nat
    BY <1>0, <1>a, <1>b
  <2>2. /\ Through(n) <= LimitMax + failures[n]
        /\ count > 0 /\ n = life => Through(n) <= count + failures[n]
        /\ n > life => Through(n) = 0
    BY DEF LimitInv
  <2> HIDE DEF LimitTyped, LimitTypeOK, Sender, NoSender
  <2> QED BY <1>b, <2>1, <2>2
\* Fewer undecided requests, nobody let through.
<1>c. ASSUME UNCHANGED <<admitted, failures, life>>, count' \in {0, count},
             \A n \in 1 .. MaxLives : Pending(n)' \subseteq Pending(n)
      PROVE  LimitInv'
  <2>1. \A n \in 1 .. MaxLives : Cardinality(Pending(n)') <= Cardinality(Pending(n))
    BY <1>c, PendingIsFinite, FS_Subset
  <2>2. \A n \in 1 .. MaxLives : Through(n)' <= Through(n)
    BY <1>0, <1>c, <2>1, PendingIsFinite, PendingIsFiniteNext DEF Through
  <2> QED BY <1>b, <1>c, <2>2
<1>1. ASSUME NEW r \in Senders, Increment(r)
      PROVE  LimitInv'
  <2>1. /\ count' = count + 1 /\ life' \in 1 .. MaxLives /\ admitted' = admitted /\ failures' = failures
        /\ life' = IF count = 0 THEN life + 1 ELSE life
        /\ r \notin Pending(life')
    BY <1>0, <1>1 DEF Increment, CountedInLives, Pending
  <2>2. \A n \in 1 .. MaxLives : n # life' => Pending(n)' = Pending(n)
    BY <1>0, <1>1, <2>1 DEF Increment, Pending
  <2>3. Pending(life)' = IF count + 1 <= LimitMax THEN Pending(life') \cup {r} ELSE Pending(life')
    BY <1>0, <1>1, <2>1 DEF Increment, Pending
  <2>a. Cardinality(Pending(life') \cup {r}) = Cardinality(Pending(life')) + 1
    BY <2>1, PendingIsFinite, FS_AddElement
  <2>b. Cardinality(Pending(life')) \in Nat /\ admitted[life'] \in Nat
    BY <1>0, <2>1, PendingIsFinite
  <2>c. /\ Through(life)' = admitted[life'] + Cardinality(Pending(life)')
        /\ Through(life') = admitted[life'] + Cardinality(Pending(life'))
    BY <2>1 DEF Through
  <2>4. Through(life)' = IF count + 1 <= LimitMax THEN Through(life') + 1 ELSE Through(life')
    <3> HIDE DEF LimitTyped, LimitTypeOK, Sender, NoSender
    <3>1. CASE count + 1 <= LimitMax
      BY <2>3, <2>a, <2>b, <2>c, <3>1
    <3>2. CASE ~(count + 1 <= LimitMax)
      BY <2>3, <2>c, <3>2
    <3> QED BY <3>1, <3>2
  <2>5. \A n \in 1 .. MaxLives : n # life' => Through(n)' = Through(n)
    BY <2>1, <2>2 DEF Through
  <2>7. count \in Nat /\ life \in Nat /\ \A n \in 1 .. MaxLives : failures[n] \in Nat
    BY <1>0
  <2>6. /\ Through(life') <= count + failures[life']
        /\ Through(life') <= LimitMax + failures[life']
    <3> HIDE DEF LimitTyped, LimitTypeOK, Sender, NoSender
    <3>1. /\ Through(life') <= LimitMax + failures[life']
          /\ count > 0 /\ life' = life => Through(life') <= count + failures[life']
          /\ life' > life => Through(life') = 0
      BY <2>1 DEF LimitInv
    <3> QED BY <2>1, <2>7, <3>1
  <2> SUFFICES ASSUME NEW n \in 1 .. MaxLives
               PROVE  /\ Through(n)' <= LimitMax + failures[n]
                      /\ count' > 0 /\ n = life' => Through(n)' <= count' + failures[n]
                      /\ n > life' => Through(n)' = 0
      BY <1>0, <2>1 DEF LimitInv
  <2> HIDE DEF LimitTyped, LimitTypeOK, Sender, NoSender
  <2>8. CASE n = life'
    <3>1. Through(n)' = Through(life)'
      BY <2>8 DEF Through, Pending
    <3>2. Through(life') \in Nat
      BY <1>a, <2>1
    <3> QED BY <2>1, <2>4, <2>6, <2>7, <2>8, <3>1, <3>2
  <2>9. CASE n # life'
    <3>1. Through(n) <= LimitMax + failures[n] /\ (n > life => Through(n) = 0)
      BY DEF LimitInv
    <3> QED BY <2>1, <2>5, <2>7, <2>9, <3>1
  <2> QED BY <2>8, <2>9
<1>2. ASSUME NEW r \in Senders, SetExpiry(r)
      PROVE  LimitInv'
  <2>1. \A n \in 1 .. MaxLives : Pending(n)' \subseteq Pending(n)
    BY <1>0, <1>2 DEF SetExpiry, Pending
  <2> QED BY <1>2, <1>c, <2>1 DEF SetExpiry
<1>3. ASSUME NEW r \in Senders, LoseExpiry(r) \/ Retry(r)
      PROVE  LimitInv'
  <2>1. \A n \in 1 .. MaxLives : Pending(n)' \subseteq Pending(n)
    BY <1>0, <1>3, SMTT(30) DEF LoseExpiry, Retry, Pending
  <2> QED BY <1>3, <1>c, <2>1 DEF LoseExpiry, Retry
<1>4. ASSUME NEW r \in Senders, Admit(r)
      PROVE  LimitInv'
  <2> DEFINE m == senders[r].life
  <2>1. m \in 1 .. MaxLives /\ r \in Pending(m)
    BY <1>0, <1>4 DEF Admit, CountedInLives, Pending
  <2>a. senders' = [senders EXCEPT ![r] = NoSender]
    BY <1>4 DEF Admit
  <2>b. admitted' = [admitted EXCEPT ![m] = @ + 1]
    BY <1>4 DEF Admit
  <2>2. admitted'[m] = admitted[m] + 1
    BY <1>0, <2>1, <2>b
  <2>3. \A n \in 1 .. MaxLives : n # m => Pending(n)' = Pending(n) /\ admitted'[n] = admitted[n]
    BY <1>0, <2>a, <2>b DEF Pending
  <2>c. \A n : n = m => Pending(n)' = Pending(m) \ {r}
    BY <1>0, <2>a DEF Pending
  <2>4. Cardinality(Pending(m) \ {r}) = Cardinality(Pending(m)) - 1
    BY <2>1, PendingIsFinite, FS_RemoveElement
  <2>5. ASSUME NEW n \in 1 .. MaxLives
        PROVE  Through(n)' = Through(n)
    <3>1. Through(n)' = admitted'[n] + Cardinality(Pending(n)')
      BY DEF Through
    <3>2. Through(n) = admitted[n] + Cardinality(Pending(n))
      BY DEF Through
    <3>3. admitted[n] \in Nat /\ Cardinality(Pending(n)) \in Nat
      BY <1>0, PendingIsFinite
    <3> HIDE DEF LimitTyped, LimitTypeOK, Sender, NoSender, m
    <3>4. CASE n = m
      <4>1. Pending(n)' = Pending(m) \ {r} /\ Pending(n) = Pending(m)
        BY <2>c, <3>4
      <4>2. Cardinality(Pending(n)') = Cardinality(Pending(n)) - 1
        BY <2>4, <4>1
      <4>3. admitted'[n] = admitted[n] + 1
        BY <2>2, <3>4
      <4> QED BY <3>1, <3>2, <3>3, <4>2, <4>3
    <3>5. CASE n # m
      BY <2>3, <3>1, <3>2, <3>5
    <3> QED BY <3>4, <3>5
  <2> QED BY <1>4, <1>a, <1>b, <2>5 DEF Admit
<1>5. ASSUME NEW r \in Senders, Refuse(r)
      PROVE  LimitInv'
  <2>1. \A n \in 1 .. MaxLives : Pending(n)' \subseteq Pending(n)
    BY <1>0, <1>5 DEF Refuse, Pending
  <2> QED BY <1>5, <1>c, <2>1 DEF Refuse
<1>6. CASE ExpireKey
  <2>1. \A n \in 1 .. MaxLives : Pending(n)' \subseteq Pending(n)
    BY <1>6 DEF ExpireKey, Pending
  <2> QED BY <1>6, <1>c, <2>1 DEF ExpireKey
<1>7. CASE UNCHANGED limitVars
  <2>1. \A n \in 1 .. MaxLives : Pending(n)' \subseteq Pending(n)
    BY <1>7 DEF limitVars, Pending
  <2> QED BY <1>7, <1>c, <2>1 DEF limitVars
\* Somebody is let through by a failure: one more, and one more allowed.
<1>d. ASSUME NEW m \in 1 .. MaxLives, m <= life, UNCHANGED <<count, life>>,
             LetThroughUncounted(m), \A n \in 1 .. MaxLives : Pending(n)' \subseteq Pending(n)
      PROVE  LimitInv'
  <2>1. /\ admitted'[m] = admitted[m] + 1 /\ failures'[m] = failures[m] + 1
        /\ \A n \in 1 .. MaxLives : n # m => admitted'[n] = admitted[n] /\ failures'[n] = failures[n]
    BY <1>0, <1>d DEF LetThroughUncounted
  <2>2. \A n \in 1 .. MaxLives : Cardinality(Pending(n)') <= Cardinality(Pending(n))
    BY <1>d, PendingIsFinite, FS_Subset
  <2> SUFFICES ASSUME NEW n \in 1 .. MaxLives
               PROVE  /\ Through(n)' <= LimitMax + failures'[n]
                      /\ count > 0 /\ n = life => Through(n)' <= count + failures'[n]
                      /\ n > life => Through(n)' = 0
      BY <1>0, <1>d DEF LimitInv
  <2>3. /\ Through(n) <= LimitMax + failures[n]
        /\ count > 0 /\ n = life => Through(n) <= count + failures[n]
        /\ n > life => Through(n) = 0
    BY DEF LimitInv
  <2>4. /\ Through(n)' = admitted'[n] + Cardinality(Pending(n)')
        /\ Through(n) = admitted[n] + Cardinality(Pending(n))
    BY DEF Through
  <2>5. /\ admitted[n] \in Nat /\ failures[n] \in Nat /\ count \in Nat /\ life \in Nat
        /\ Cardinality(Pending(n)) \in Nat /\ Cardinality(Pending(n)') \in Nat
    BY <1>0, PendingIsFinite, PendingIsFiniteNext
  <2>6. Cardinality(Pending(n)') <= Cardinality(Pending(n))
    BY <2>2
  <2> HIDE DEF LimitTyped, LimitTypeOK, Sender, NoSender
  <2>7. CASE n = m
    BY <1>d, <2>1, <2>3, <2>4, <2>5, <2>6, <2>7
  <2>8. CASE n # m
    BY <2>1, <2>3, <2>4, <2>5, <2>6, <2>8
  <2> QED BY <2>7, <2>8
<1>8. ASSUME NEW r \in Senders, PassWithoutRedis(r)
      PROVE  LimitInv'
  <2>1. \A n \in 1 .. MaxLives : Pending(n)' \subseteq Pending(n)
    BY <1>8 DEF PassWithoutRedis, Pending
  <2>2. life \in 1 .. MaxLives /\ life <= life
    BY <1>0, <1>8 DEF PassWithoutRedis, CountedInLives
  <2> QED BY <1>8, <1>d, <2>1, <2>2 DEF PassWithoutRedis
<1>9. ASSUME NEW r \in Senders, FailExpiry(r)
      PROVE  LimitInv'
  <2>1. \A n \in 1 .. MaxLives : Pending(n)' \subseteq Pending(n)
    BY <1>0, <1>9 DEF FailExpiry, Pending
  <2>2. senders[r].life \in 1 .. MaxLives /\ senders[r].life <= life
    BY <1>0, <1>9 DEF FailExpiry, CountedInLives
  <2> QED BY <1>9, <1>d, <2>1, <2>2 DEF FailExpiry
<1> QED BY <1>1, <1>2, <1>3, <1>4, <1>5, <1>6, <1>7, <1>8, <1>9 DEF LimitNext

\* Of all the requests let through in a window those beyond the limit are no
\* more than the failures in it, for any number of requests and any
\* interleaving of their calls.
THEOREM WindowsAreLimitedHolds == LimitSpec => []WindowsAreLimited
<1>1. LimitInv => WindowsAreLimited
  <2> SUFFICES ASSUME LimitInv, NEW n \in 1 .. MaxLives
               PROVE  admitted[n] <= LimitMax + failures[n]
      BY DEF WindowsAreLimited
  <2>1. /\ admitted[n] \in Nat /\ failures[n] \in Nat /\ Cardinality(Pending(n)) \in Nat
        /\ Through(n) <= LimitMax + failures[n]
    BY PendingIsFinite DEF LimitInv, LimitTyped, LimitTypeOK
  <2> QED BY <2>1 DEF Through
<1> QED BY LimitInitInv, LimitNextInv, <1>1, PTL DEF LimitSpec

HIDE RateLimiterAssumption
----------------------------------------------------------------------------
\* Requests. The route tables first: among the first n middlewares of a chain
\* there is this one.
Has(chain, middleware, n) == \E i \in 1 .. n : chain[i] = middleware

\* Who uploads, names an organization or needs a role has signed in before,
\* and a role is looked at in an organization that does not change any more.
Ordered(chain) ==
    /\ Len(chain) \in Nat
    /\ \A i \in 1 .. Len(chain) :
          /\ chain[i] \in {"organization", "role", "store"} => Has(chain, "authenticate", i - 1)
          /\ chain[i] = "role" => Has(chain, "organization", i - 1)
          /\ chain[i] = "organization" => ~Has(chain, "role", i - 1)

\* Chains for everybody, for those who sign in, for members, for administrators.
OpenChain(chain) == Ordered(chain) /\ ~Has(chain, "role", Len(chain))
SignedChain(chain) == OpenChain(chain) /\ Has(chain, "authenticate", Len(chain))
MemberChain(chain) == SignedChain(chain) /\ Has(chain, "organization", Len(chain))
AdminChain(chain) ==
    /\ Ordered(chain) /\ Has(chain, "authenticate", Len(chain))
    /\ Has(chain, "organization", Len(chain)) /\ Has(chain, "role", Len(chain))

Door(middlewares) == <<"parse", "limit">> \o middlewares

LEMMA OpenChains == OpenChain(Door(<<"validate">>))
<1> DEFINE c == Door(<<"validate">>)
<1>1. Len(c) = 3 /\ c[1] = "parse" /\ c[2] = "limit" /\ c[3] = "validate"
  BY DEF Door
<1> HIDE DEF c
<1>2. OpenChain(c)
  BY <1>1 DEF OpenChain, Ordered, Has
<1> QED BY <1>2 DEF c

LEMMA SignedChains ==
    /\ SignedChain(Door(<<"authenticate">>))
    /\ SignedChain(Door(<<"authenticate", "validate">>))
<1>1. SignedChain(Door(<<"authenticate">>))
  <2> DEFINE c == Door(<<"authenticate">>)
  <2>1. Len(c) = 3 /\ c[1] = "parse" /\ c[2] = "limit" /\ c[3] = "authenticate"
    BY DEF Door
  <2> HIDE DEF c
  <2>2. SignedChain(c)
    BY <2>1 DEF SignedChain, OpenChain, Ordered, Has
  <2> QED BY <2>2 DEF c
<1>2. SignedChain(Door(<<"authenticate", "validate">>))
  <2> DEFINE c == Door(<<"authenticate", "validate">>)
  <2>1. /\ Len(c) = 4 /\ c[1] = "parse" /\ c[2] = "limit" /\ c[3] = "authenticate"
        /\ c[4] = "validate"
    BY DEF Door
  <2> HIDE DEF c
  <2>2. SignedChain(c)
    BY <2>1 DEF SignedChain, OpenChain, Ordered, Has
  <2> QED BY <2>2 DEF c
<1> QED BY <1>1, <1>2

\* What stands behind the authentication, shown once for the long chains.
LEMMA ChainOfMembers ==
    ASSUME NEW c, Len(c) \in Nat, NEW o \in 4 .. Len(c),
           c[1] = "parse", c[2] = "limit", c[3] = "authenticate", c[o] = "organization",
           \A i \in 4 .. Len(c) : i # o => c[i] \in {"limit", "authenticate", "store", "validate"}
    PROVE  MemberChain(c)
<1>1. \A i \in 1 .. Len(c) : i > 3 => Has(c, "authenticate", i - 1)
  BY DEF Has
<1>2. \A i \in 1 .. Len(c) : i = 1 \/ i = 2 \/ i = 3 \/ i \in 4 .. Len(c)
  OBVIOUS
<1>3. \A i \in 1 .. Len(c) : c[i] # "role"
  BY <1>2
<1>4. \A i \in 1 .. Len(c) : c[i] \in {"organization", "role", "store"} => i > 3
  BY <1>2
<1>5. \A i \in 1 .. Len(c) : c[i] = "organization" => ~Has(c, "role", i - 1)
  BY <1>3 DEF Has
<1>6. Has(c, "authenticate", Len(c)) /\ Has(c, "organization", Len(c)) /\ ~Has(c, "role", Len(c))
  BY <1>3 DEF Has
<1> QED BY <1>1, <1>3, <1>4, <1>5, <1>6 DEF MemberChain, SignedChain, OpenChain, Ordered

LEMMA ChainOfAdmins ==
    ASSUME NEW c, Len(c) \in Nat, NEW o \in Nat, NEW p \in Nat, 3 < o, o < p, p <= Len(c),
           c[1] = "parse", c[2] = "limit", c[3] = "authenticate", c[o] = "organization",
           c[p] = "role",
           \A i \in 4 .. Len(c) : i # o /\ i # p =>
               c[i] \in {"limit", "authenticate", "validate"}
    PROVE  AdminChain(c)
<1>1. \A i \in 1 .. Len(c) : i > 3 => Has(c, "authenticate", i - 1)
  BY DEF Has
<1>2. \A i \in 1 .. Len(c) : i = 1 \/ i = 2 \/ i = 3 \/ i \in 4 .. Len(c)
  OBVIOUS
<1>3. \A i \in 1 .. Len(c) : c[i] = "role" => i = p
  BY <1>2
<1>4. \A i \in 1 .. Len(c) : c[i] = "organization" => i = o
  BY <1>2
<1>5. \A i \in 1 .. Len(c) : c[i] \in {"organization", "role", "store"} => i > 3
  BY <1>2
<1>6. \A i \in 1 .. Len(c) : c[i] = "role" => Has(c, "organization", i - 1)
  BY <1>3 DEF Has
<1>7. \A i \in 1 .. Len(c) : c[i] = "organization" => ~Has(c, "role", i - 1)
  BY <1>3, <1>4 DEF Has
<1>8. Has(c, "authenticate", Len(c)) /\ Has(c, "organization", Len(c)) /\ Has(c, "role", Len(c))
  BY DEF Has
<1> QED BY <1>1, <1>5, <1>6, <1>7, <1>8 DEF AdminChain, Ordered

Behind == <<"authenticate", "limit">> \o Tenanted

LEMMA MemberChains ==
    /\ MemberChain(Door(Tenanted))
    /\ MemberChain(Door(Tenanted \o <<"validate">>))
    /\ MemberChain(Door(Behind \o <<"validate">>))
    /\ MemberChain(Door(<<"authenticate", "store", "organization">>))
<1>1. MemberChain(Door(Tenanted))
  <2> DEFINE c == Door(Tenanted)
  <2>1. /\ Len(c) = 4 /\ c[1] = "parse" /\ c[2] = "limit" /\ c[3] = "authenticate"
        /\ c[4] = "organization"
    BY DEF Door, Tenanted
  <2> HIDE DEF c
  <2>2. \A i \in 4 .. Len(c) : i # 4 => c[i] \in {"limit", "authenticate", "store", "validate"}
    BY <2>1
  <2>3. /\ Len(c) \in Nat /\ 4 \in 4 .. Len(c)
        /\ c[1] = "parse" /\ c[2] = "limit" /\ c[3] = "authenticate" /\ c[4] = "organization"
    BY <2>1
  <2>4. MemberChain(c)
    BY <2>2, <2>3, ChainOfMembers
  <2> QED BY <2>4 DEF c
<1>2. MemberChain(Door(Tenanted \o <<"validate">>))
  <2> DEFINE c == Door(Tenanted \o <<"validate">>)
  <2>1. /\ Len(c) = 5 /\ c[1] = "parse" /\ c[2] = "limit" /\ c[3] = "authenticate"
        /\ c[4] = "organization" /\ c[5] = "validate"
    BY DEF Door, Tenanted
  <2> HIDE DEF c
  <2>2. \A i \in 4 .. Len(c) : i # 4 => c[i] \in {"limit", "authenticate", "store", "validate"}
    BY <2>1
  <2>3. /\ Len(c) \in Nat /\ 4 \in 4 .. Len(c)
        /\ c[1] = "parse" /\ c[2] = "limit" /\ c[3] = "authenticate" /\ c[4] = "organization"
    BY <2>1
  <2>4. MemberChain(c)
    BY <2>2, <2>3, ChainOfMembers
  <2> QED BY <2>4 DEF c
<1>3. MemberChain(Door(Behind \o <<"validate">>))
  <2> DEFINE c == Door(Behind \o <<"validate">>)
  <2>1. /\ Len(c) = 7 /\ c[1] = "parse" /\ c[2] = "limit" /\ c[3] = "authenticate"
        /\ c[4] = "limit" /\ c[5] = "authenticate" /\ c[6] = "organization"
        /\ c[7] = "validate"
    BY DEF Door, Behind, Tenanted
  <2> HIDE DEF c
  <2>2. \A i \in 4 .. Len(c) : i # 6 => c[i] \in {"limit", "authenticate", "store", "validate"}
    BY <2>1
  <2>3. /\ Len(c) \in Nat /\ 6 \in 4 .. Len(c)
        /\ c[1] = "parse" /\ c[2] = "limit" /\ c[3] = "authenticate" /\ c[6] = "organization"
    BY <2>1
  <2>4. MemberChain(c)
    BY <2>2, <2>3, ChainOfMembers
  <2> QED BY <2>4 DEF c
<1>4. MemberChain(Door(<<"authenticate", "store", "organization">>))
  <2> DEFINE c == Door(<<"authenticate", "store", "organization">>)
  <2>1. /\ Len(c) = 5 /\ c[1] = "parse" /\ c[2] = "limit" /\ c[3] = "authenticate"
        /\ c[4] = "store" /\ c[5] = "organization"
    BY DEF Door
  <2> HIDE DEF c
  <2>2. \A i \in 4 .. Len(c) : i # 5 => c[i] \in {"limit", "authenticate", "store", "validate"}
    BY <2>1
  <2>3. /\ Len(c) \in Nat /\ 5 \in 4 .. Len(c)
        /\ c[1] = "parse" /\ c[2] = "limit" /\ c[3] = "authenticate" /\ c[5] = "organization"
    BY <2>1
  <2>4. MemberChain(c)
    BY <2>2, <2>3, ChainOfMembers
  <2> QED BY <2>4 DEF c
<1> QED BY <1>1, <1>2, <1>3, <1>4

LEMMA AdminChains ==
    /\ AdminChain(Door(Tenanted \o <<"role">>))
    /\ AdminChain(Door(Tenanted \o <<"role", "validate">>))
    /\ AdminChain(Door(Behind \o <<"role", "validate">>))
<1>1. AdminChain(Door(Tenanted \o <<"role">>))
  <2> DEFINE c == Door(Tenanted \o <<"role">>)
  <2>1. /\ Len(c) = 5 /\ c[1] = "parse" /\ c[2] = "limit" /\ c[3] = "authenticate"
        /\ c[4] = "organization" /\ c[5] = "role"
    BY DEF Door, Tenanted
  <2> HIDE DEF c
  <2>2. \A i \in 4 .. Len(c) : i # 4 /\ i # 5 => c[i] \in {"limit", "authenticate", "validate"}
    BY <2>1
  <2>3. /\ Len(c) \in Nat /\ 3 < 4 /\ 4 < 5 /\ 5 <= Len(c)
        /\ c[1] = "parse" /\ c[2] = "limit" /\ c[3] = "authenticate"
        /\ c[4] = "organization" /\ c[5] = "role"
    BY <2>1
  <2>4. AdminChain(c)
    BY <2>2, <2>3, ChainOfAdmins
  <2> QED BY <2>4 DEF c
<1>2. AdminChain(Door(Tenanted \o <<"role", "validate">>))
  <2> DEFINE c == Door(Tenanted \o <<"role", "validate">>)
  <2>1. /\ Len(c) = 6 /\ c[1] = "parse" /\ c[2] = "limit" /\ c[3] = "authenticate"
        /\ c[4] = "organization" /\ c[5] = "role" /\ c[6] = "validate"
    BY DEF Door, Tenanted
  <2> HIDE DEF c
  <2>2. \A i \in 4 .. Len(c) : i # 4 /\ i # 5 => c[i] \in {"limit", "authenticate", "validate"}
    BY <2>1
  <2>3. /\ Len(c) \in Nat /\ 3 < 4 /\ 4 < 5 /\ 5 <= Len(c)
        /\ c[1] = "parse" /\ c[2] = "limit" /\ c[3] = "authenticate"
        /\ c[4] = "organization" /\ c[5] = "role"
    BY <2>1
  <2>4. AdminChain(c)
    BY <2>2, <2>3, ChainOfAdmins
  <2> QED BY <2>4 DEF c
<1>3. AdminChain(Door(Behind \o <<"role", "validate">>))
  <2> DEFINE c == Door(Behind \o <<"role", "validate">>)
  <2>1. /\ Len(c) = 8 /\ c[1] = "parse" /\ c[2] = "limit" /\ c[3] = "authenticate"
        /\ c[4] = "limit" /\ c[5] = "authenticate" /\ c[6] = "organization" /\ c[7] = "role"
        /\ c[8] = "validate"
    BY DEF Door, Behind, Tenanted
  <2> HIDE DEF c
  <2>2. \A i \in 4 .. Len(c) : i # 6 /\ i # 7 => c[i] \in {"limit", "authenticate", "validate"}
    BY <2>1
  <2>3. /\ Len(c) \in Nat /\ 3 < 6 /\ 6 < 7 /\ 7 <= Len(c)
        /\ c[1] = "parse" /\ c[2] = "limit" /\ c[3] = "authenticate"
        /\ c[6] = "organization" /\ c[7] = "role"
    BY <2>1
  <2>4. AdminChain(c)
    BY <2>2, <2>3, ChainOfAdmins
  <2> QED BY <2>4 DEF c
<1> QED BY <1>1, <1>2, <1>3

\* Every route has the chain of its class.
Guards(route, chain) ==
    /\ route \in OpenRoutes => OpenChain(chain)
    /\ route \in PersonalRoutes => SignedChain(chain)
    /\ route \in AdminRoutes => AdminChain(chain)
    /\ route \notin OpenRoutes \cup PersonalRoutes \cup AdminRoutes => MemberChain(chain)

LEMMA RoutersGuard ==
    \A router \in Routers : \A route \in DOMAIN router : Guards(route, Door(router[route]))
<1>1. \A route \in DOMAIN AuthRoutes : Guards(route, Door(AuthRoutes[route]))
  <2>1. \A route \in DOMAIN AuthRoutes :
          /\ route \notin AdminRoutes
          /\ \/ /\ route \in OpenRoutes /\ route \notin PersonalRoutes
                /\ AuthRoutes[route] = <<"validate">>
             \/ /\ route \in PersonalRoutes /\ route \notin OpenRoutes
                /\ AuthRoutes[route] = <<"authenticate">>
    BY DEF AuthRoutes, OpenRoutes, PersonalRoutes, AdminRoutes, OrganizationRoutes, ApiKeyRoutes
  <2> QED BY <2>1, OpenChains, SignedChains DEF Guards
<1>2. \A route \in DOMAIN OrganizationRoutes : Guards(route, Door(OrganizationRoutes[route]))
  <2>1. \A route \in DOMAIN OrganizationRoutes :
          /\ route \notin OpenRoutes \cup AdminRoutes /\ route \in PersonalRoutes
          /\ OrganizationRoutes[route] \in {<<"authenticate">>, <<"authenticate", "validate">>}
    BY DEF OpenRoutes, PersonalRoutes, AdminRoutes, OrganizationRoutes, ApiKeyRoutes
  <2> QED BY <2>1, SignedChains DEF Guards
<1>3. \A route \in DOMAIN MemberRoutes : Guards(route, Door(MemberRoutes[route]))
  <2>1. \A route \in DOMAIN MemberRoutes :
          /\ route \notin OpenRoutes \cup PersonalRoutes
          /\ MemberRoutes[route] = Behind \o (IF route \in AdminRoutes
                                               THEN <<"role", "validate">> ELSE <<"validate">>)
    BY DEF MemberRoutes, Behind, OpenRoutes, PersonalRoutes, AdminRoutes, OrganizationRoutes,
           ApiKeyRoutes
  <2> QED BY <2>1, MemberChains, AdminChains DEF Guards
<1>5. \A route \in DOMAIN ApiKeyRoutes : Guards(route, Door(ApiKeyRoutes[route]))
  <2>1. \A route \in DOMAIN ApiKeyRoutes :
          ApiKeyRoutes[route] \in {Tenanted \o <<"role">>, Tenanted \o <<"role", "validate">>}
    BY DEF ApiKeyRoutes
  <2>2. \A route \in DOMAIN ApiKeyRoutes : route \in AdminRoutes
    BY DEF AdminRoutes
  <2>3. \A route \in DOMAIN ApiKeyRoutes : route \notin OpenRoutes \cup PersonalRoutes
    BY DEF OpenRoutes, PersonalRoutes, OrganizationRoutes, ApiKeyRoutes
  <2> QED BY <2>1, <2>2, <2>3, AdminChains DEF Guards
<1>6. \A route \in DOMAIN AuditRoutes : Guards(route, Door(AuditRoutes[route]))
  <2>1. \A route \in DOMAIN AuditRoutes :
          /\ route \notin OpenRoutes \cup PersonalRoutes /\ route \in AdminRoutes
          /\ AuditRoutes[route] = Tenanted \o <<"role", "validate">>
    BY DEF AuditRoutes, OpenRoutes, PersonalRoutes, AdminRoutes, OrganizationRoutes, ApiKeyRoutes
  <2> QED BY <2>1, AdminChains DEF Guards
\* The routers that are only for members.
<1>a. ASSUME NEW route,
             route \notin OpenRoutes \cup PersonalRoutes \cup AdminRoutes,
             NEW middlewares \in {Tenanted, Tenanted \o <<"validate">>,
                                  <<"authenticate", "store", "organization">>}
      PROVE  Guards(route, Door(middlewares))
  BY <1>a, MemberChains DEF Guards
<1>4. \A route \in DOMAIN DocumentRoutes : Guards(route, Door(DocumentRoutes[route]))
  <2>1. \A route \in DOMAIN DocumentRoutes :
          route \notin OpenRoutes \cup PersonalRoutes \cup AdminRoutes
    BY DEF DocumentRoutes, OpenRoutes, PersonalRoutes, AdminRoutes, OrganizationRoutes,
           ApiKeyRoutes
  <2>2. \A route \in DOMAIN DocumentRoutes :
          DocumentRoutes[route] \in {Tenanted, Tenanted \o <<"validate">>,
                                    <<"authenticate", "store", "organization">>}
    BY DEF DocumentRoutes
  <2> QED BY <1>a, <2>1, <2>2
<1>7. \A route \in DOMAIN ConversationRoutes : Guards(route, Door(ConversationRoutes[route]))
  <2>1. \A route \in DOMAIN ConversationRoutes :
          route \notin OpenRoutes \cup PersonalRoutes \cup AdminRoutes
    BY DEF ConversationRoutes, OpenRoutes, PersonalRoutes, AdminRoutes, OrganizationRoutes,
           ApiKeyRoutes
  <2>2. \A route \in DOMAIN ConversationRoutes :
          ConversationRoutes[route] \in {Tenanted, Tenanted \o <<"validate">>}
    BY DEF ConversationRoutes
  <2> QED BY <1>a, <2>1, <2>2
<1>8. \A route \in DOMAIN EvaluationRoutes : Guards(route, Door(EvaluationRoutes[route]))
  <2>1. \A route \in DOMAIN EvaluationRoutes :
          route \notin OpenRoutes \cup PersonalRoutes \cup AdminRoutes
    BY DEF EvaluationRoutes, OpenRoutes, PersonalRoutes, AdminRoutes, OrganizationRoutes,
           ApiKeyRoutes
  <2>2. \A route \in DOMAIN EvaluationRoutes :
          EvaluationRoutes[route] \in {Tenanted, Tenanted \o <<"validate">>}
    BY DEF EvaluationRoutes
  <2> QED BY <1>a, <2>1, <2>2
<1>9. \A route \in DOMAIN SearchRoutes : Guards(route, Door(SearchRoutes[route]))
  <2>1. \A route \in DOMAIN SearchRoutes :
          route \notin OpenRoutes \cup PersonalRoutes \cup AdminRoutes
    BY DEF SearchRoutes, OpenRoutes, PersonalRoutes, AdminRoutes, OrganizationRoutes,
           ApiKeyRoutes
  <2>2. \A route \in DOMAIN SearchRoutes :
          SearchRoutes[route] \in {Tenanted, Tenanted \o <<"validate">>}
    BY DEF SearchRoutes
  <2> QED BY <1>a, <2>1, <2>2
<1>10. \A route \in DOMAIN QueryRoutes : Guards(route, Door(QueryRoutes[route]))
  <2>1. \A route \in DOMAIN QueryRoutes :
          route \notin OpenRoutes \cup PersonalRoutes \cup AdminRoutes
    BY DEF QueryRoutes, OpenRoutes, PersonalRoutes, AdminRoutes, OrganizationRoutes,
           ApiKeyRoutes
  <2>2. \A route \in DOMAIN QueryRoutes :
          QueryRoutes[route] \in {Tenanted, Tenanted \o <<"validate">>}
    BY DEF QueryRoutes
  <2> QED BY <1>a, <2>1, <2>2
<1> QED BY <1>1, <1>2, <1>3, <1>4, <1>5, <1>6, <1>7, <1>8, <1>9, <1>10 DEF Routers

LEMMA RoutesGuard == \A route \in Routes : Guards(route, Chain(route))
<1> TAKE route \in Routes
<1>1. \E router \in Routers : route \in DOMAIN router
  BY DEF Routes
<1> DEFINE router == CHOOSE r \in Routers : route \in DOMAIN r
<1>2. router \in Routers /\ route \in DOMAIN router
  BY <1>1
<1>3. Chain(route) = Door(router[route])
  BY DEF Chain, Door
<1> HIDE DEF router
<1> QED BY <1>2, <1>3, RoutersGuard

\* No handler reads what its chain has not set.
LEMMA ReadsAreModest ==
    \A route \in Routes :
        /\ Reads(route) \subseteq {"user", "organization", "membership"}
        /\ route \in OpenRoutes => Reads(route) = {}
        /\ route \in PersonalRoutes => Reads(route) \subseteq {"user"}
<1> SUFFICES ASSUME NEW route \in Routes
             PROVE  /\ Reads(route) \subseteq {"user", "organization", "membership"}
                    /\ route \in OpenRoutes => Reads(route) = {}
                    /\ route \in PersonalRoutes => Reads(route) \subseteq {"user"}
    OBVIOUS
<1> USE DEF Reads, AuthReads, OrganizationReads, MemberReads, DocumentReads, ApiKeyReads,
            AuditReads, ConversationReads, EvaluationReads, SearchReads, QueryReads,
            OpenRoutes, PersonalRoutes, AuthRoutes, OrganizationRoutes, MemberRoutes,
            DocumentRoutes, ApiKeyRoutes, AuditRoutes, ConversationRoutes, EvaluationRoutes,
            SearchRoutes, QueryRoutes
<1>1. CASE route \in DOMAIN AuthRoutes
  BY <1>1
<1>2. CASE route \in DOMAIN OrganizationRoutes
  BY <1>2
<1>3. CASE route \in DOMAIN MemberRoutes
  BY <1>3
<1>4. CASE route \in DOMAIN DocumentRoutes
  BY <1>4
<1>5. CASE route \in DOMAIN ApiKeyRoutes
  BY <1>5
<1>6. CASE route \in DOMAIN AuditRoutes
  BY <1>6
<1>7. CASE route \in DOMAIN ConversationRoutes
  BY <1>7
<1>8. CASE route \in DOMAIN EvaluationRoutes
  BY <1>8
<1>9. CASE route \in DOMAIN SearchRoutes
  BY <1>9
<1>10. CASE route \in DOMAIN QueryRoutes
  BY <1>10
<1>11. \E router \in Routers : route \in DOMAIN router
  BY DEF Routes
<1> QED
  BY <1>1, <1>2, <1>3, <1>4, <1>5, <1>6, <1>7, <1>8, <1>9, <1>10, <1>11, Zenon DEF Routers
----------------------------------------------------------------------------
\* The type invariant.
USE HttpRequestsAssumption

LEMMA HttpInitTypeOK == HttpInit => HttpTypeOK
<1>1. Waiting \in Visit \cup {Waiting}
  OBVIOUS
<1> HIDE DEF Waiting
<1> QED BY <1>1 DEF HttpInit, HttpTypeOK

LEMMA AVisit ==
    \A v \in Visit \cup {Waiting} :
        (v # Waiting <=> v.pc # "waiting") /\ (v # Waiting <=> v \in Visit)
BY DEF Visit, Waiting

\* A step of a request that leaves the others alone.
LEMMA VisitsStayTyped ==
    ASSUME HttpTypeOK, NEW r \in Visits, NEW v \in Visit, visits' = [visits EXCEPT ![r] = v]
    PROVE  /\ visits' \in [Visits -> Visit \cup {Waiting}]
           /\ visits'[r] = v /\ \A k \in Visits : k # r => visits'[k] = visits[k]
BY DEF HttpTypeOK

\* What going on, being turned away and being answered leave of a request.
LEMMA PassStep ==
    ASSUME HttpTypeOK, NEW r \in Visits, NEW v \in Visit, Pass(r, v)
    PROVE  LET w == visits'[r]
           IN /\ w \in Visit /\ w.at = v.at + 1
              /\ w.pc = v.pc /\ w.route = v.route /\ w.credential = v.credential
              /\ w.header = v.header /\ w.path = v.path /\ w.user = v.user /\ w.key = v.key
              /\ w.organization = v.organization /\ w.membership = v.membership
              /\ w.file = v.file /\ w.status = v.status
              /\ \A k \in Visits : k # r => visits'[k] = visits[k]
              /\ visits' \in [Visits -> Visit \cup {Waiting}]
<1> DEFINE w == [v EXCEPT !.at = v.at + 1]
<1>1. v.at \in Nat /\ v.at + 1 \in Nat
  BY DEF Visit
<1>2. w \in Visit
  BY <1>1 DEF Visit
<1>3. /\ w.at = v.at + 1
      /\ w.pc = v.pc /\ w.route = v.route /\ w.credential = v.credential
      /\ w.header = v.header /\ w.path = v.path /\ w.user = v.user /\ w.key = v.key
      /\ w.organization = v.organization /\ w.membership = v.membership
      /\ w.file = v.file /\ w.status = v.status
  BY DEF Visit
<1>4. visits' = [visits EXCEPT ![r] = w]
  BY DEF Pass
<1> HIDE DEF w
<1>5. /\ visits' \in [Visits -> Visit \cup {Waiting}]
      /\ visits'[r] = w /\ \A k \in Visits : k # r => visits'[k] = visits[k]
  BY <1>2, <1>4, VisitsStayTyped
<1> QED BY <1>2, <1>3, <1>5

Ends(r, pc, status) == visits' = [visits EXCEPT ![r].pc = pc, ![r].status = status]

LEMMA EndingStep ==
    ASSUME HttpTypeOK, NEW r \in Visits, visits[r] \in Visit,
           NEW pc \in {"allowed", "creating", "refused", "handled"}, NEW status \in Nat,
           Ends(r, pc, status)
    PROVE  LET v == visits[r]
               w == visits'[r]
           IN /\ w \in Visit /\ w.pc = pc /\ w.status = status
              /\ w.at = v.at /\ w.route = v.route /\ w.credential = v.credential
              /\ w.header = v.header /\ w.path = v.path /\ w.user = v.user /\ w.key = v.key
              /\ w.organization = v.organization /\ w.membership = v.membership
              /\ w.file = v.file
              /\ \A k \in Visits : k # r => visits'[k] = visits[k]
              /\ visits' \in [Visits -> Visit \cup {Waiting}]
<1> DEFINE v == visits[r]
           w == [v EXCEPT !.pc = pc, !.status = status]
<1>1. w \in Visit
  BY DEF Visit
<1>2. /\ w.pc = pc /\ w.status = status
      /\ w.at = v.at /\ w.route = v.route /\ w.credential = v.credential
      /\ w.header = v.header /\ w.path = v.path /\ w.user = v.user /\ w.key = v.key
      /\ w.organization = v.organization /\ w.membership = v.membership
      /\ w.file = v.file
  BY DEF Visit
<1>3. visits' = [visits EXCEPT ![r] = w]
  BY DEF HttpTypeOK, Ends
<1> HIDE DEF w
<1>4. /\ visits' \in [Visits -> Visit \cup {Waiting}]
      /\ visits'[r] = w /\ \A k \in Visits : k # r => visits'[k] = visits[k]
  BY <1>1, <1>3, VisitsStayTyped
<1> QED BY <1>1, <1>2, <1>4

LEMMA Statuses ==
    /\ ErrorStatus.BadRequest = 400 /\ ErrorStatus.Unauthorized = 401
    /\ ErrorStatus.Forbidden = 403 /\ ErrorStatus.UniqueViolation = 409
    /\ ErrorStatus.Unknown = 500 /\ ErrorStatus.MalformedBody = 400
    /\ \A error \in DOMAIN ErrorStatus :
          ErrorStatus[error] \in {400, 401, 403, 404, 409, 422, 500}
BY DEF ErrorStatus, AppErrors, OtherErrors
----------------------------------------------------------------------------
\* What a request has passed it has proved, and what it was refused for was so.
Passed(v, middleware) == Has(Chain(v.route), middleware, v.at)

Member(v, roles) ==
    IF v.key
    THEN v.header \in {"none", KeyTenant}
    ELSE /\ v.header = v.organization /\ v.organization \in Tenants
         /\ v.membership # "none" /\ <<v.organization, v.membership>> \in roles

VisitSound(v, roles, credentials) ==
    /\ v.at <= Len(Chain(v.route))
    /\ v.pc \in {"allowed", "creating", "handled"} => v.at = Len(Chain(v.route))
    /\ Passed(v, "authenticate") => v.user
    /\ v.user => v.credential \in credentials /\ (v.key <=> v.credential = "key")
    /\ v.key => v.user /\ v.organization = KeyTenant /\ v.membership = "ADMIN"
    /\ Passed(v, "organization") => Member(v, roles)
    /\ Passed(v, "role") => v.membership \in Admins
    /\ v.file # "none" => v.user

OfQuotas == {"getQuota", "getUsage"}

AnswerSound(v, roles, rows, valid) ==
    /\ v.pc \in {"allowed", "creating"} => v.route \in OfQuotas
    /\ v.route \in OfQuotas
       /\ (v.pc \in {"allowed", "creating"} \/ (v.pc = "handled" /\ v.status \in {200, 201})) =>
          \E role \in HeldRoles \ {"none"} : <<v.path, role>> \in roles
    /\ v.pc = "handled" /\ v.route = "getQuota" /\ v.status \in {200, 409} => v.path \in rows
    /\ v.pc = "refused" /\ v.status = 401 => v.credential \notin valid
    /\ v.pc = "refused" /\ v.status = 403 =>
          IF v.credential = "key"
          THEN v.header \notin {"none", KeyTenant}
          ELSE \E role \in HeldRoles \ RolesDemanded(v.route) : <<v.header, role>> \in roles

\* While a request is under way, what holds now has been seen.
WorldSeen(r) ==
    Underway(r) => good \subseteq goodSeen[r] /\ \A t \in Tenants : <<t, held[t]>> \in roleSeen[r]

Known(r) ==
    visits[r].pc # "waiting" =>
        /\ VisitSound(visits[r], roleSeen[r], goodSeen[r])
        /\ AnswerSound(visits[r], roleSeen[r], quotas, good)
        /\ WorldSeen(r)

HttpInv == HttpTypeOK /\ \A r \in Visits : Known(r)

\* More that was seen, more quotas and fewer valid credentials refute nothing.
LEMMA SoundStays ==
    ASSUME NEW v, NEW roles, NEW roles2, NEW credentials, NEW rows, NEW rows2, NEW valid,
           NEW valid2, roles \subseteq roles2, rows \subseteq rows2, valid2 \subseteq valid
    PROVE  /\ VisitSound(v, roles, credentials) => VisitSound(v, roles2, credentials)
           /\ AnswerSound(v, roles, rows, valid) => AnswerSound(v, roles2, rows2, valid2)
<1>1. VisitSound(v, roles, credentials) => VisitSound(v, roles2, credentials)
  BY DEF VisitSound, Member
<1>2. AnswerSound(v, roles, rows, valid) => AnswerSound(v, roles2, rows2, valid2)
  <2> SUFFICES ASSUME AnswerSound(v, roles, rows, valid)
               PROVE  AnswerSound(v, roles2, rows2, valid2)
      OBVIOUS
  <2>1. ASSUME v.pc = "refused", v.status = 403, v.credential # "key"
        PROVE  \E role \in HeldRoles \ RolesDemanded(v.route) : <<v.header, role>> \in roles2
    <3>1. PICK role \in HeldRoles \ RolesDemanded(v.route) : <<v.header, role>> \in roles
      BY <2>1 DEF AnswerSound
    <3> QED BY <3>1
  <2>2. v.route \in OfQuotas
        /\ (v.pc \in {"allowed", "creating"} \/ (v.pc = "handled" /\ v.status \in {200, 201})) =>
          \E role \in HeldRoles \ {"none"} : <<v.path, role>> \in roles2
    BY DEF AnswerSound
  <2> QED BY <2>1, <2>2 DEF AnswerSound
<1> QED BY <1>1, <1>2

\* A step of one request, with the rest of the world as it was.
LEMMA OneRequestMoves ==
    ASSUME HttpInv, NEW r \in Visits,
           visits' \in [Visits -> Visit \cup {Waiting}],
           \A k \in Visits : k # r => visits'[k] = visits[k],
           UNCHANGED <<held, good, events, roleSeen, goodSeen>>,
           quotas \subseteq quotas', quotas' \subseteq Tenants,
           Underway(r),
           VisitSound(visits'[r], roleSeen[r], goodSeen[r]),
           AnswerSound(visits'[r], roleSeen[r], quotas', good)
    PROVE  HttpInv'
<1>1. HttpTypeOK'
  BY DEF HttpInv, HttpTypeOK
<1>2. Known(r)'
  BY DEF HttpInv, Known, WorldSeen, Underway
<1>3. ASSUME NEW k \in Visits, k # r
      PROVE  Known(k)'
  <2>1. visits'[k] = visits[k] /\ Known(k)
    BY <1>3 DEF HttpInv
  <2>2. AnswerSound(visits[k], roleSeen[k], quotas, good) =>
          AnswerSound(visits[k], roleSeen[k], quotas', good)
    BY SoundStays
  <2> QED BY <2>1, <2>2 DEF Known, WorldSeen, Underway
<1> QED BY <1>1, <1>2, <1>3 DEF HttpInv

LEMMA PassedGrows ==
    ASSUME NEW v, NEW w, w.route = v.route, v.at \in Nat, w.at = v.at + 1,
           NEW middleware, Chain(v.route)[v.at + 1] = middleware, NEW x
    PROVE  Passed(w, x) <=> Passed(v, x) \/ x = middleware
BY DEF Passed, Has

\* What a request at a middleware may use.
LEMMA AtMiddleware ==
    ASSUME HttpInv, NEW r \in Visits, NEW middleware, Before(r, middleware)
    PROVE  LET v == visits[r]
           IN /\ v \in Visit /\ v.pc = "chain" /\ Underway(r) /\ WorldSeen(r)
              /\ v.at \in Nat /\ Len(Chain(v.route)) \in Nat
              /\ v.at + 1 <= Len(Chain(v.route))
              /\ Chain(v.route)[v.at + 1] = middleware
              /\ VisitSound(v, roleSeen[r], goodSeen[r])
              /\ middleware \in {"organization", "role", "store"} => v.user
              /\ middleware = "role" => Passed(v, "organization") /\ v.route \in AdminRoutes
              /\ middleware = "organization" => ~Passed(v, "role")
              /\ Passed(v, "organization") => v.user
<1> DEFINE v == visits[r]
           c == Chain(v.route)
<1>1. v \in Visit /\ v.pc = "chain"
  BY DEF HttpInv, HttpTypeOK, Before, Visit, Waiting
<1>2. v.at \in Nat /\ v.route \in Routes /\ v.at < Len(c) /\ c[v.at + 1] = middleware
  BY <1>1 DEF Before, Visit
<1>3. Guards(v.route, c)
  BY <1>2, RoutesGuard
<1>4. Ordered(c) /\ (v.route \notin AdminRoutes => ~Has(c, "role", Len(c)))
  BY <1>3 DEF Guards, OpenChain, SignedChain, MemberChain, AdminChain
<1>5. Len(c) \in Nat /\ v.at + 1 <= Len(c) /\ v.at + 1 \in 1 .. Len(c) /\ (v.at + 1) - 1 = v.at
  BY <1>2, <1>4 DEF Ordered
<1>6. VisitSound(v, roleSeen[r], goodSeen[r]) /\ Underway(r) /\ WorldSeen(r)
  BY <1>1 DEF HttpInv, Known, Underway
<1> HIDE DEF v, c
<1>7. /\ middleware \in {"organization", "role", "store"} => Has(c, "authenticate", v.at)
      /\ middleware = "role" => Has(c, "organization", v.at)
      /\ middleware = "organization" => ~Has(c, "role", v.at)
  BY <1>2, <1>4, <1>5 DEF Ordered
<1>8. middleware = "role" => v.route \in AdminRoutes
  BY <1>2, <1>4, <1>5 DEF Has
<1>9. Has(c, "organization", v.at) => Has(c, "authenticate", v.at)
  <2> SUFFICES ASSUME NEW i \in 1 .. v.at, c[i] = "organization"
               PROVE  Has(c, "authenticate", v.at)
      BY DEF Has
  <2>1. i \in 1 .. Len(c)
    BY <1>2, <1>5
  <2>2. Has(c, "authenticate", i - 1)
    BY <1>4, <2>1 DEF Ordered
  <2> QED BY <1>2, <2>2 DEF Has
<1>10. \A x : Has(c, x, v.at) <=> Passed(v, x)
  BY DEF Passed, c
<1>11. /\ middleware \in {"organization", "role", "store"} => v.user
       /\ Passed(v, "organization") => v.user
  BY <1>6, <1>7, <1>9, <1>10 DEF VisitSound
<1> QED BY <1>1, <1>2, <1>5, <1>6, <1>7, <1>8, <1>10, <1>11 DEF v, c

\* Passing a middleware: only what that one lets through has to be shown.
LEMMA PassKeepsInv ==
    ASSUME HttpInv, NEW r \in Visits, NEW middleware, Before(r, middleware),
           NEW v \in Visit, Pass(r, v), UnchangedWorld,
           v.pc = visits[r].pc, v.route = visits[r].route, v.at = visits[r].at,
           \A x : Passed(visits[r], x) \/ x = middleware =>
               /\ x = "authenticate" => v.user
               /\ x = "organization" => Member(v, roleSeen[r])
               /\ x = "role" => v.membership \in Admins,
           v.user => v.credential \in goodSeen[r] /\ (v.key <=> v.credential = "key"),
           v.key => v.user /\ v.organization = KeyTenant /\ v.membership = "ADMIN",
           v.file # "none" => v.user
    PROVE  HttpInv'
<1> DEFINE w == visits'[r]
           u == visits[r]
<1>1. /\ w \in Visit /\ w.at = v.at + 1
      /\ w.pc = v.pc /\ w.route = v.route /\ w.credential = v.credential
      /\ w.header = v.header /\ w.path = v.path /\ w.user = v.user /\ w.key = v.key
      /\ w.organization = v.organization /\ w.membership = v.membership
      /\ w.file = v.file /\ w.status = v.status
      /\ \A k \in Visits : k # r => visits'[k] = visits[k]
      /\ visits' \in [Visits -> Visit \cup {Waiting}]
  BY PassStep DEF HttpInv
<1>2. /\ u.pc = "chain" /\ Underway(r) /\ u.at \in Nat
      /\ u.at + 1 <= Len(Chain(u.route))
      /\ Chain(u.route)[u.at + 1] = middleware
  BY AtMiddleware
<1>3. w.route = u.route /\ w.at = u.at + 1 /\ w.pc = "chain"
  BY <1>1, <1>2
<1> HIDE DEF w, u
<1>4. \A x : Passed(w, x) => Passed(u, x) \/ x = middleware
  BY <1>2, <1>3, PassedGrows
<1>5. Member(v, roleSeen[r]) => Member(w, roleSeen[r])
  BY <1>1 DEF Member
<1>6. VisitSound(w, roleSeen[r], goodSeen[r])
  <2>1. w.at <= Len(Chain(w.route))
    BY <1>2, <1>3
  <2>2. /\ Passed(w, "authenticate") => w.user
        /\ Passed(w, "organization") => Member(w, roleSeen[r])
        /\ Passed(w, "role") => w.membership \in Admins
    BY <1>1, <1>4, <1>5 DEF u
  <2> QED BY <1>1, <1>3, <2>1, <2>2 DEF VisitSound
<1>7. AnswerSound(w, roleSeen[r], quotas, good)
  BY <1>3 DEF AnswerSound
<1>8. quotas' = quotas /\ quotas \subseteq Tenants
  BY DEF UnchangedWorld, HttpInv, HttpTypeOK
<1> QED BY <1>1, <1>2, <1>6, <1>7, <1>8, OneRequestMoves DEF w, UnchangedWorld

\* A middleware that looks at nothing the invariant is about.
LEMMA PlainPassKeepsInv ==
    ASSUME HttpInv, NEW r \in Visits, NEW middleware \in {"parse", "limit", "validate"},
           Before(r, middleware), Pass(r, visits[r]), UnchangedWorld
    PROVE  HttpInv'
<1> DEFINE v == visits[r]
<1>1. v \in Visit /\ VisitSound(v, roleSeen[r], goodSeen[r])
  BY AtMiddleware
<1>2. \A x : Passed(v, x) \/ x = middleware =>
        /\ x = "authenticate" => v.user
        /\ x = "organization" => Member(v, roleSeen[r])
        /\ x = "role" => v.membership \in Admins
  BY <1>1 DEF VisitSound
<1>3. /\ v.user => v.credential \in goodSeen[r] /\ (v.key <=> v.credential = "key")
      /\ v.key => v.user /\ v.organization = KeyTenant /\ v.membership = "ADMIN"
      /\ v.file # "none" => v.user
  BY <1>1 DEF VisitSound
<1> QED BY <1>1, <1>2, <1>3, PassKeepsInv

\* An answer ends the chain with a status that says the truth.
LEMMA EndKeepsInv ==
    ASSUME HttpInv, NEW r \in Visits, visits[r] \in Visit, Underway(r),
           NEW pc \in {"allowed", "creating", "refused", "handled"}, NEW status \in Nat,
           Ends(r, pc, status),
           UNCHANGED <<held, good, events, roleSeen, goodSeen>>,
           quotas \subseteq quotas', quotas' \subseteq Tenants,
           pc = "refused" \/ visits[r].at = Len(Chain(visits[r].route)),
           AnswerSound(visits'[r], roleSeen[r], quotas', good)
    PROVE  HttpInv'
<1> DEFINE v == visits[r]
           w == visits'[r]
<1>0. HttpTypeOK
  BY DEF HttpInv
<1>1. /\ w \in Visit /\ w.pc = pc /\ w.status = status
      /\ w.at = v.at /\ w.route = v.route /\ w.credential = v.credential
      /\ w.header = v.header /\ w.path = v.path /\ w.user = v.user /\ w.key = v.key
      /\ w.organization = v.organization /\ w.membership = v.membership
      /\ w.file = v.file
      /\ \A k \in Visits : k # r => visits'[k] = visits[k]
      /\ visits' \in [Visits -> Visit \cup {Waiting}]
  BY <1>0, EndingStep
<1>2. VisitSound(v, roleSeen[r], goodSeen[r])
  BY DEF HttpInv, Known, Underway
<1> HIDE DEF w
<1>3. \A x : Passed(w, x) <=> Passed(v, x)
  BY <1>1 DEF Passed
<1>4. Member(v, roleSeen[r]) => Member(w, roleSeen[r])
  BY <1>1 DEF Member
<1>5. VisitSound(w, roleSeen[r], goodSeen[r])
  BY <1>1, <1>2, <1>3, <1>4 DEF VisitSound
<1> QED BY <1>1, <1>5, OneRequestMoves DEF w

\* Being refused at a middleware.
LEMMA RefusalKeepsInv ==
    ASSUME HttpInv, NEW r \in Visits, NEW middleware, Before(r, middleware),
           NEW status \in Nat, RefuseWith(r, status), UnchangedWorld,
           status = 401 => visits[r].credential \notin good,
           status = 403 =>
              IF visits[r].credential = "key"
              THEN visits[r].header \notin {"none", KeyTenant}
              ELSE \E role \in HeldRoles \ RolesDemanded(visits[r].route) :
                      <<visits[r].header, role>> \in roleSeen[r]
    PROVE  HttpInv'
<1> DEFINE v == visits[r]
           w == visits'[r]
<1>1. v \in Visit /\ Underway(r)
  BY AtMiddleware
<1>2. Ends(r, "refused", status)
  BY DEF RefuseWith, Ends
<1>3. HttpTypeOK /\ quotas' = quotas /\ quotas \subseteq Tenants
  BY DEF HttpInv, HttpTypeOK, UnchangedWorld
<1>4. w.pc = "refused" /\ w.status = status /\ w.credential = v.credential
      /\ w.header = v.header /\ w.route = v.route
  BY <1>1, <1>2, <1>3, EndingStep
<1> HIDE DEF w
<1>5. AnswerSound(w, roleSeen[r], quotas', good)
  BY <1>3, <1>4 DEF AnswerSound
<1> QED BY <1>1, <1>2, <1>3, <1>5, EndKeepsInv DEF w, UnchangedWorld

LEMMA AuthenticateKeepsInv ==
    ASSUME HttpInv, NEW r \in Visits, AuthenticateKey(r) \/ AuthenticateToken(r)
    PROVE  HttpInv'
<1> DEFINE v == visits[r]
<1>0. Before(r, "authenticate") /\ UnchangedWorld
  BY DEF AuthenticateKey, AuthenticateToken
<1>1. /\ v \in Visit /\ VisitSound(v, roleSeen[r], goodSeen[r]) /\ v.pc = "chain"
      /\ Passed(v, "organization") => v.user
  BY <1>0, AtMiddleware
<1>2. good \subseteq goodSeen[r]
  BY <1>0, AtMiddleware DEF WorldSeen
<1>3. CASE v.credential \in good /\ AuthenticateKey(r)
  <2> DEFINE w == [v EXCEPT !.user = TRUE, !.key = TRUE, !.organization = KeyTenant,
                            !.membership = "ADMIN"]
  <2>1. Pass(r, w) /\ v.credential = "key"
    BY <1>3 DEF AuthenticateKey
  <2>2. w \in Visit
    BY <1>1 DEF Visit, HeldRoles
  <2>3. /\ w.pc = v.pc /\ w.route = v.route /\ w.at = v.at /\ w.credential = v.credential
        /\ w.user = TRUE /\ w.key = TRUE /\ w.organization = KeyTenant /\ w.membership = "ADMIN"
        /\ w.header = v.header
    BY <1>1 DEF Visit
  <2> HIDE DEF w
  <2>4. Passed(v, "organization") => Member(w, roleSeen[r])
    BY <1>1, <2>1, <2>3 DEF VisitSound, Member
  <2>5. \A x : Passed(v, x) \/ x = "authenticate" =>
          /\ x = "authenticate" => w.user
          /\ x = "organization" => Member(w, roleSeen[r])
          /\ x = "role" => w.membership \in Admins
    BY <2>3, <2>4 DEF Admins
  <2>6. /\ w.user => w.credential \in goodSeen[r] /\ (w.key <=> w.credential = "key")
        /\ w.key => w.user /\ w.organization = KeyTenant /\ w.membership = "ADMIN"
        /\ w.file # "none" => w.user
    BY <1>2, <1>3, <2>1, <2>3
  <2> QED BY <1>0, <2>1, <2>2, <2>3, <2>5, <2>6, PassKeepsInv
<1>4. CASE v.credential \in good /\ AuthenticateToken(r)
  <2> DEFINE w == [v EXCEPT !.user = TRUE]
  <2>1. Pass(r, w) /\ v.credential # "key"
    BY <1>4 DEF AuthenticateToken
  <2>2. w \in Visit
    BY <1>1 DEF Visit
  <2>3. /\ w.pc = v.pc /\ w.route = v.route /\ w.at = v.at /\ w.credential = v.credential
        /\ w.user = TRUE /\ w.key = v.key /\ w.organization = v.organization
        /\ w.membership = v.membership /\ w.header = v.header
    BY <1>1 DEF Visit
  <2> HIDE DEF w
  <2>4. ~v.key
    BY <1>1, <2>1 DEF VisitSound
  <2>5. \A x : Passed(v, x) \/ x = "authenticate" =>
          /\ x = "authenticate" => w.user
          /\ x = "organization" => Member(w, roleSeen[r])
          /\ x = "role" => w.membership \in Admins
    BY <1>1, <2>3 DEF VisitSound, Member
  <2>6. /\ w.user => w.credential \in goodSeen[r] /\ (w.key <=> w.credential = "key")
        /\ w.key => w.user /\ w.organization = KeyTenant /\ w.membership = "ADMIN"
        /\ w.file # "none" => w.user
    BY <1>2, <1>4, <2>1, <2>3, <2>4
  <2> QED BY <1>0, <2>1, <2>2, <2>3, <2>5, <2>6, PassKeepsInv
<1>5. CASE v.credential \notin good
  <2>1. RefuseWith(r, 401)
    BY <1>5, Statuses DEF AuthenticateKey, AuthenticateToken
  <2> QED BY <1>0, <1>5, <2>1, RefusalKeepsInv
<1> QED BY <1>3, <1>4, <1>5

LEMMA StoreKeepsInv ==
    ASSUME HttpInv, NEW r \in Visits, StoreUpload(r)
    PROVE  HttpInv'
<1> DEFINE v == visits[r]
<1>0. Before(r, "store") /\ UnchangedWorld
  BY DEF StoreUpload
<1>1. v \in Visit /\ VisitSound(v, roleSeen[r], goodSeen[r]) /\ v.user
  BY <1>0, AtMiddleware
<1>2. ASSUME NEW file \in {"stored", "none"}, Pass(r, [v EXCEPT !.file = file])
      PROVE  HttpInv'
  <2> DEFINE w == [v EXCEPT !.file = file]
  <2>1. w \in Visit
    BY <1>1 DEF Visit
  <2>2. /\ w.pc = v.pc /\ w.route = v.route /\ w.at = v.at /\ w.credential = v.credential
        /\ w.user = v.user /\ w.key = v.key /\ w.organization = v.organization
        /\ w.membership = v.membership /\ w.header = v.header
    BY <1>1 DEF Visit
  <2>3. Pass(r, w)
    BY <1>2
  <2> HIDE DEF w
  <2>4. \A x : Passed(v, x) \/ x = "store" =>
          /\ x = "authenticate" => w.user
          /\ x = "organization" => Member(w, roleSeen[r])
          /\ x = "role" => w.membership \in Admins
    BY <1>1, <2>2 DEF VisitSound, Member
  <2>5. /\ w.user => w.credential \in goodSeen[r] /\ (w.key <=> w.credential = "key")
        /\ w.key => w.user /\ w.organization = KeyTenant /\ w.membership = "ADMIN"
        /\ w.file # "none" => w.user
    BY <1>1, <2>2 DEF VisitSound
  <2> QED BY <1>0, <2>1, <2>2, <2>3, <2>4, <2>5, PassKeepsInv
<1>3. ASSUME NEW status \in {400, 500}, RefuseWith(r, status)
      PROVE  HttpInv'
  BY <1>0, <1>3, RefusalKeepsInv
<1> QED BY <1>2, <1>3, Statuses DEF StoreUpload

LEMMA ResolveOfKeyKeepsInv ==
    ASSUME HttpInv, NEW r \in Visits, ResolveOfKey(r)
    PROVE  HttpInv'
<1> DEFINE v == visits[r]
<1>0. Before(r, "organization") /\ UnchangedWorld /\ v.key
  BY DEF ResolveOfKey
<1>1. v \in Visit /\ VisitSound(v, roleSeen[r], goodSeen[r])
  BY <1>0, AtMiddleware
<1>2. v.organization = KeyTenant /\ v.credential = "key"
  BY <1>0, <1>1 DEF VisitSound
<1>3. CASE v.header \in {"none", KeyTenant}
  <2>1. Pass(r, v)
    BY <1>2, <1>3 DEF ResolveOfKey
  <2>2. \A x : Passed(v, x) \/ x = "organization" =>
          /\ x = "authenticate" => v.user
          /\ x = "organization" => Member(v, roleSeen[r])
          /\ x = "role" => v.membership \in Admins
    BY <1>0, <1>1, <1>3 DEF VisitSound, Member
  <2>3. /\ v.user => v.credential \in goodSeen[r] /\ (v.key <=> v.credential = "key")
        /\ v.key => v.user /\ v.organization = KeyTenant /\ v.membership = "ADMIN"
        /\ v.file # "none" => v.user
    BY <1>1 DEF VisitSound
  <2> QED BY <1>0, <1>1, <2>1, <2>2, <2>3, PassKeepsInv
<1>4. CASE v.header \notin {"none", KeyTenant}
  <2>1. RefuseWith(r, 403)
    BY <1>2, <1>4, Statuses DEF ResolveOfKey
  <2> QED BY <1>0, <1>2, <1>4, <2>1, RefusalKeepsInv
<1> QED BY <1>3, <1>4

LEMMA NoneIsNobody == \A route : "none" \in HeldRoles \ RolesDemanded(route)
BY DEF HeldRoles, RolesDemanded, Admins

LEMMA ResolveOrganizationKeepsInv ==
    ASSUME HttpInv, NEW r \in Visits, ResolveOrganization(r)
    PROVE  HttpInv'
<1> DEFINE v == visits[r]
           header == v.header
<1>0. Before(r, "organization") /\ UnchangedWorld /\ ~v.key
  BY DEF ResolveOrganization
<1>1. /\ v \in Visit /\ VisitSound(v, roleSeen[r], goodSeen[r]) /\ v.user
      /\ ~Passed(v, "role")
      /\ \A t \in Tenants : <<t, held[t]>> \in roleSeen[r]
  BY <1>0, AtMiddleware DEF WorldSeen
<1>2. v.credential # "key"
  BY <1>0, <1>1 DEF VisitSound
<1>3. CASE header \in Tenants /\ held[header] # "none" /\ Pass(r, [v EXCEPT !.organization = header, !.membership = held[header]])
  <2> DEFINE w == [v EXCEPT !.organization = header, !.membership = held[header]]
  <2>1. held[header] \in HeldRoles
    BY <1>3 DEF HttpInv, HttpTypeOK
  <2>2. w \in Visit
    BY <1>1, <1>3, <2>1 DEF Visit
  <2>3. /\ w.pc = v.pc /\ w.route = v.route /\ w.at = v.at /\ w.credential = v.credential
        /\ w.user = v.user /\ w.key = v.key /\ w.organization = header
        /\ w.membership = held[header] /\ w.header = header /\ w.file = v.file
    BY <1>1 DEF Visit
  <2>4. Pass(r, w)
    BY <1>3
  <2> HIDE DEF w
  <2>5. Member(w, roleSeen[r])
    BY <1>0, <1>1, <1>3, <2>3 DEF Member
  <2>6. \A x : Passed(v, x) \/ x = "organization" =>
          /\ x = "authenticate" => w.user
          /\ x = "organization" => Member(w, roleSeen[r])
          /\ x = "role" => w.membership \in Admins
    BY <1>1, <2>3, <2>5
  <2>7. /\ w.user => w.credential \in goodSeen[r] /\ (w.key <=> w.credential = "key")
        /\ w.key => w.user /\ w.organization = KeyTenant /\ w.membership = "ADMIN"
        /\ w.file # "none" => w.user
    BY <1>0, <1>1, <2>3 DEF VisitSound
  <2> QED BY <1>0, <2>2, <2>3, <2>4, <2>6, <2>7, PassKeepsInv
<1>4. CASE RefuseWith(r, 400)
  BY <1>0, <1>4, RefusalKeepsInv
<1>5. CASE header \in Tenants /\ held[header] = "none" /\ RefuseWith(r, 403)
  <2>1. <<header, "none">> \in roleSeen[r]
    BY <1>1, <1>5
  <2>2. \E role \in HeldRoles \ RolesDemanded(v.route) : <<v.header, role>> \in roleSeen[r]
    BY <2>1, NoneIsNobody
  <2> QED BY <1>0, <1>2, <1>5, <2>2, RefusalKeepsInv
<1> QED BY <1>1, <1>3, <1>4, <1>5, Statuses DEF ResolveOrganization

LEMMA RequireRoleKeepsInv ==
    ASSUME HttpInv, NEW r \in Visits, RequireRole(r)
    PROVE  HttpInv'
<1> DEFINE v == visits[r]
<1>0. Before(r, "role") /\ UnchangedWorld
  BY DEF RequireRole
<1>1. /\ v \in Visit /\ VisitSound(v, roleSeen[r], goodSeen[r]) /\ v.user
      /\ Passed(v, "organization") /\ v.route \in AdminRoutes
  BY <1>0, AtMiddleware
<1>2. CASE v.membership \in Admins
  <2>1. Pass(r, v)
    BY <1>2 DEF RequireRole
  <2>2. \A x : Passed(v, x) \/ x = "role" =>
          /\ x = "authenticate" => v.user
          /\ x = "organization" => Member(v, roleSeen[r])
          /\ x = "role" => v.membership \in Admins
    BY <1>1, <1>2 DEF VisitSound
  <2>3. /\ v.user => v.credential \in goodSeen[r] /\ (v.key <=> v.credential = "key")
        /\ v.key => v.user /\ v.organization = KeyTenant /\ v.membership = "ADMIN"
        /\ v.file # "none" => v.user
    BY <1>1 DEF VisitSound
  <2> QED BY <1>0, <1>1, <2>1, <2>2, <2>3, PassKeepsInv
<1>3. CASE v.membership \notin Admins
  <2>1. RefuseWith(r, 403)
    BY <1>3, Statuses DEF RequireRole
  <2>2. ~v.key /\ v.credential # "key" /\ Member(v, roleSeen[r])
    BY <1>1, <1>3 DEF VisitSound, Admins
  <2>3. v.membership \in HeldRoles \ RolesDemanded(v.route) /\ <<v.header, v.membership>> \in roleSeen[r]
    BY <1>1, <1>3, <2>2 DEF Member, RolesDemanded, Visit
  <2> QED BY <1>0, <2>1, <2>2, <2>3, RefusalKeepsInv
<1> QED BY <1>2, <1>3

\* What a request at its handler, or at a later step of one, may use.
LEMMA AtHandlerFacts ==
    ASSUME HttpInv, NEW r \in Visits, AtHandler(r) \/ visits[r].pc \in {"allowed", "creating"}
    PROVE  /\ visits[r] \in Visit /\ Underway(r) /\ WorldSeen(r)
           /\ visits[r].at = Len(Chain(visits[r].route))
           /\ VisitSound(visits[r], roleSeen[r], goodSeen[r])
           /\ AnswerSound(visits[r], roleSeen[r], quotas, good)
<1>1. visits[r].pc # "waiting" /\ visits[r] \in Visit /\ Underway(r)
  <2>1. visits[r].pc \in {"chain", "allowed", "creating"}
    BY DEF AtHandler
  <2>2. visits[r] \in Visit \cup {Waiting}
    BY DEF HttpInv, HttpTypeOK
  <2> QED BY <2>1, <2>2, AVisit DEF Underway
<1> QED BY <1>1 DEF HttpInv, Known, VisitSound, AtHandler

\* A handler that answers.
LEMMA AnswerKeepsInv ==
    ASSUME HttpInv, NEW r \in Visits, AtHandler(r) \/ visits[r].pc \in {"allowed", "creating"},
           NEW pc \in {"allowed", "creating", "handled"}, NEW status \in Nat,
           Ends(r, pc, status),
           UNCHANGED <<held, good, events, roleSeen, goodSeen>>,
           quotas \subseteq quotas', quotas' \subseteq Tenants,
           pc # "handled" => visits[r].route \in OfQuotas,
           visits[r].route \in OfQuotas /\ (pc # "handled" \/ status \in {200, 201}) =>
               \E role \in HeldRoles \ {"none"} : <<visits[r].path, role>> \in roleSeen[r],
           pc = "handled" /\ visits[r].route = "getQuota" /\ status \in {200, 409} =>
               visits[r].path \in quotas'
    PROVE  HttpInv'
<1> DEFINE v == visits[r]
           w == visits'[r]
<1>1. /\ v \in Visit /\ Underway(r) /\ HttpTypeOK
      /\ v.at = Len(Chain(v.route))
  BY AtHandlerFacts DEF HttpInv
<1>2. /\ w.pc = pc /\ w.status = status /\ w.route = v.route /\ w.path = v.path
  BY <1>1, EndingStep
<1> HIDE DEF w
<1>3. AnswerSound(w, roleSeen[r], quotas', good)
  BY <1>2 DEF AnswerSound
<1> QED BY <1>1, <1>3, EndKeepsInv DEF w

LEMMA HandleKeepsInv ==
    ASSUME HttpInv, NEW r \in Visits, Handle(r)
    PROVE  HttpInv'
<1>1. /\ AtHandler(r) /\ UNCHANGED <<held, good, quotas, events, roleSeen, goodSeen>>
      /\ visits[r].route \notin OfQuotas /\ quotas \subseteq Tenants
  BY DEF Handle, UnchangedWorld, OfQuotas, HttpInv, HttpTypeOK
<1>2. PICK status \in {200, 201, 400, 401, 403, 404, 409, 422, 500} : AnswerWith(r, status)
  BY Statuses DEF Handle
<1>3. Ends(r, "handled", status)
  BY <1>2 DEF AnswerWith, Ends
<1>4. visits[r].route # "getQuota"
  BY <1>1 DEF OfQuotas
<1> QED BY <1>1, <1>2, <1>3, <1>4, AnswerKeepsInv

LEMMA HandleUploadKeepsInv ==
    ASSUME HttpInv, NEW r \in Visits, HandleUpload(r)
    PROVE  HttpInv'
<1> DEFINE v == visits[r]
<1>1. /\ AtHandler(r) /\ UNCHANGED <<held, good, quotas, events, roleSeen, goodSeen>>
      /\ v.route = "uploadDocument" /\ quotas \subseteq Tenants
  BY DEF HandleUpload, UnchangedWorld, HttpInv, HttpTypeOK
<1>2. v.route \notin OfQuotas /\ v.route # "getQuota"
  BY <1>1 DEF OfQuotas
<1>3. ASSUME NEW status \in {400, 500}, AnswerWith(r, status)
      PROVE  HttpInv'
  <2>1. Ends(r, "handled", status)
    BY <1>3 DEF AnswerWith, Ends
  <2> QED BY <1>1, <1>2, <2>1, AnswerKeepsInv
<1>4. CASE v.file # "none" /\ visits' = [visits EXCEPT ![r].pc = "handled", ![r].status = 201,
                                                      ![r].file = "owned"]
  <2> DEFINE w == [v EXCEPT !.pc = "handled", !.status = 201, !.file = "owned"]
  <2>1. /\ v \in Visit /\ VisitSound(v, roleSeen[r], goodSeen[r]) /\ Underway(r)
        /\ v.at = Len(Chain(v.route))
    BY <1>1, AtHandlerFacts
  <2>a. \A pc \in {"handled"}, status \in Nat, file \in {"owned"} :
          [v EXCEPT !.pc = pc, !.status = status, !.file = file] \in Visit
    BY <2>1 DEF Visit
  <2>b. "handled" \in {"handled"} /\ 201 \in Nat /\ "owned" \in {"owned"}
    OBVIOUS
  <2>2. w \in Visit
    BY <2>a, <2>b, Zenon
  <2>3. /\ w.pc = "handled" /\ w.status = 201 /\ w.at = v.at /\ w.route = v.route
        /\ w.credential = v.credential /\ w.header = v.header /\ w.path = v.path
        /\ w.user = v.user /\ w.key = v.key /\ w.organization = v.organization
        /\ w.membership = v.membership /\ w.file = "owned"
    BY <2>1 DEF Visit
  <2>c. HttpTypeOK /\ visits \in [Visits -> Visit \cup {Waiting}]
    BY DEF HttpInv, HttpTypeOK
  <2>4. visits' = [visits EXCEPT ![r] = w]
    BY <1>4, <2>c, ZenonT(30)
  <2> HIDE DEF w
  <2>5. /\ visits' \in [Visits -> Visit \cup {Waiting}]
        /\ visits'[r] = w /\ \A k \in Visits : k # r => visits'[k] = visits[k]
    BY <2>2, <2>4, <2>c, VisitsStayTyped
  <2>6. \A x : Passed(w, x) <=> Passed(v, x)
    BY <2>3 DEF Passed
  <2>7. Member(v, roleSeen[r]) => Member(w, roleSeen[r])
    BY <2>3 DEF Member
  <2>8. v.user
    BY <1>4, <2>1 DEF VisitSound
  <2>9. VisitSound(w, roleSeen[r], goodSeen[r])
    BY <2>1, <2>3, <2>6, <2>7, <2>8 DEF VisitSound
  <2>10. AnswerSound(w, roleSeen[r], quotas', good)
    BY <1>2, <2>3 DEF AnswerSound
  <2> QED BY <1>1, <2>1, <2>5, <2>9, <2>10, OneRequestMoves
<1> QED BY <1>3, <1>4, Statuses DEF HandleUpload

LEMMA QuotaStepsKeepInv ==
    ASSUME HttpInv, NEW r \in Visits,
           CheckPathMembership(r) \/ GetUsage(r) \/ FindQuota(r) \/ CreateQuota(r)
    PROVE  HttpInv'
<1> DEFINE v == visits[r]
<1>0. AtHandler(r) \/ v.pc \in {"allowed", "creating"}
  BY DEF CheckPathMembership, GetUsage, FindQuota, CreateQuota
<1>1. /\ v \in Visit /\ AnswerSound(v, roleSeen[r], quotas, good) /\ Underway(r)
      /\ \A t \in Tenants : <<t, held[t]>> \in roleSeen[r]
      /\ v.status \in Nat /\ v.path \in Tenants
      /\ held[v.path] \in HeldRoles /\ quotas \subseteq Tenants
      /\ visits \in [Visits -> Visit \cup {Waiting}]
  BY <1>0, AtHandlerFacts DEF WorldSeen, Visit, HttpInv, HttpTypeOK
<1>a. /\ v.pc \in {"allowed", "creating"} => v.route \in OfQuotas
      /\ v.route \in OfQuotas /\ v.pc \in {"allowed", "creating"} =>
            \E role \in HeldRoles \ {"none"} : <<v.path, role>> \in roleSeen[r]
  <2> HIDE DEF v
  <2>1. AnswerSound(v, roleSeen[r], quotas, good)
    BY <1>1
  <2> QED BY <2>1 DEF AnswerSound
\* A step that only moves on keeps the status there was.
<1>2. ASSUME NEW pc \in {"allowed", "creating"}, visits' = [visits EXCEPT ![r].pc = pc]
      PROVE  Ends(r, pc, v.status)
  <2>1. [v EXCEPT !.pc = pc] = [v EXCEPT !.pc = pc, !.status = v.status]
    BY <1>1 DEF Visit
  <2>2. visits' = [visits EXCEPT ![r] = [v EXCEPT !.pc = pc]]
    BY <1>1, <1>2
  <2>3. visits' = [visits EXCEPT ![r] = [v EXCEPT !.pc = pc, !.status = v.status]]
    BY <2>1, <2>2
  <2> QED BY <1>1, <2>3 DEF Ends
<1>3. CASE CheckPathMembership(r)
  <2>1. v.route \in OfQuotas /\ UNCHANGED <<held, good, quotas, events, roleSeen, goodSeen>>
    BY <1>3 DEF CheckPathMembership, OfQuotas, UnchangedWorld
  <2>2. CASE held[v.path] = "none"
    <3>1. Ends(r, "handled", 403)
      BY <1>3, <2>2, Statuses DEF CheckPathMembership, AnswerWith, Ends
    <3> QED BY <1>0, <1>1, <2>1, <3>1, AnswerKeepsInv
  <2>3. CASE held[v.path] # "none"
    <3>1. Ends(r, "allowed", v.status)
      BY <1>2, <1>3, <2>3 DEF CheckPathMembership
    <3>2. \E role \in HeldRoles \ {"none"} : <<v.path, role>> \in roleSeen[r]
      BY <1>1, <2>3
    <3> QED BY <1>0, <1>1, <2>1, <3>1, <3>2, AnswerKeepsInv
  <2> QED BY <2>2, <2>3
<1>4. CASE GetUsage(r)
  <2>1. /\ v.route = "getUsage" /\ v.pc = "allowed"
        /\ UNCHANGED <<held, good, quotas, events, roleSeen, goodSeen>>
    BY <1>4 DEF GetUsage, UnchangedWorld
  <2>2. \E role \in HeldRoles \ {"none"} : <<v.path, role>> \in roleSeen[r]
    BY <1>a, <2>1
  <2>3. Ends(r, "handled", 200)
    BY <1>4 DEF GetUsage, AnswerWith, Ends
  <2> QED BY <1>0, <1>1, <2>1, <2>2, <2>3, AnswerKeepsInv
<1>5. CASE FindQuota(r)
  <2>1. /\ v.route = "getQuota" /\ v.pc = "allowed" /\ v.route \in OfQuotas
        /\ UNCHANGED <<held, good, quotas, events, roleSeen, goodSeen>>
    BY <1>5 DEF FindQuota, UnchangedWorld, OfQuotas
  <2>2. \E role \in HeldRoles \ {"none"} : <<v.path, role>> \in roleSeen[r]
    BY <1>a, <2>1
  <2>3. CASE v.path \in quotas
    <3>1. Ends(r, "handled", 200)
      BY <1>5, <2>3 DEF FindQuota, AnswerWith, Ends
    <3> QED BY <1>0, <1>1, <2>1, <2>2, <2>3, <3>1, AnswerKeepsInv
  <2>4. CASE v.path \notin quotas
    <3>1. Ends(r, "creating", v.status)
      BY <1>2, <1>5, <2>4 DEF FindQuota
    <3> QED BY <1>0, <1>1, <2>1, <2>2, <3>1, AnswerKeepsInv
  <2> QED BY <2>3, <2>4
<1>6. CASE CreateQuota(r)
  <2>1. /\ v.pc = "creating" /\ quotas' = quotas \cup {v.path}
        /\ UNCHANGED <<held, good, events, roleSeen, goodSeen>>
    BY <1>6 DEF CreateQuota
  <2>2. v.route \in OfQuotas /\ \E role \in HeldRoles \ {"none"} : <<v.path, role>> \in roleSeen[r]
    BY <1>a, <2>1
  <2>a. PICK status \in {200, 409} : AnswerWith(r, status)
    BY <1>6, Statuses DEF CreateQuota
  <2>3. Ends(r, "handled", status)
    BY <2>a DEF AnswerWith, Ends
  <2>4. quotas \subseteq quotas' /\ quotas' \subseteq Tenants /\ v.path \in quotas'
    BY <1>1, <2>1
  <2> QED BY <1>0, <2>1, <2>2, <2>3, <2>4, AnswerKeepsInv
<1> QED BY <1>3, <1>4, <1>5, <1>6

LEMMA ArriveKeepsInv ==
    ASSUME HttpInv, NEW r \in Visits, NEW route \in Routes,
           NEW credential \in Credentials \cup {"none"}, NEW header \in Tenants \cup {"none"},
           NEW path \in Tenants, Arrive(r, route, credential, header, path)
    PROVE  HttpInv'
<1> DEFINE w == [pc |-> "chain", route |-> route, credential |-> credential,
                 header |-> header, path |-> path, at |-> 0, user |-> FALSE, key |-> FALSE,
                 organization |-> "none", membership |-> "none", file |-> "none",
                 status |-> 0]
           roles == {<<t, held[t]>> : t \in Tenants}
<1>1. w \in Visit
  BY DEF Visit, HeldRoles
<1>2. /\ w.pc = "chain" /\ w.at = 0 /\ w.user = FALSE /\ w.key = FALSE /\ w.file = "none"
      /\ w.route = route
  OBVIOUS
<1>3. /\ visits' = [visits EXCEPT ![r] = w]
      /\ roleSeen' = [roleSeen EXCEPT ![r] = roles]
      /\ goodSeen' = [goodSeen EXCEPT ![r] = good]
      /\ UNCHANGED <<held, good, quotas, events>>
  BY DEF Arrive
<1> HIDE DEF w
<1>4. HttpTypeOK
  BY DEF HttpInv
<1>5. /\ visits' \in [Visits -> Visit \cup {Waiting}]
      /\ visits'[r] = w /\ \A k \in Visits : k # r => visits'[k] = visits[k]
  BY <1>1, <1>3, <1>4, VisitsStayTyped
<1>6. roles \in SUBSET (Tenants \X HeldRoles)
  BY <1>4 DEF HttpTypeOK
<1>7. /\ roleSeen'[r] = roles /\ goodSeen'[r] = good
      /\ \A k \in Visits : k # r => roleSeen'[k] = roleSeen[k] /\ goodSeen'[k] = goodSeen[k]
  BY <1>3, <1>4 DEF HttpTypeOK
<1>8. HttpTypeOK'
  BY <1>3, <1>4, <1>5, <1>6 DEF HttpTypeOK
<1>9. VisitSound(w, roles, good)
  <2>1. Ordered(Chain(w.route))
    BY <1>2, RoutesGuard DEF Guards, OpenChain, SignedChain, MemberChain, AdminChain
  <2>2. \A x : ~Passed(w, x)
    BY <1>2 DEF Passed, Has
  <2> QED BY <1>2, <2>1, <2>2 DEF VisitSound, Ordered
<1>10. AnswerSound(w, roles, quotas, good)
  BY <1>2 DEF AnswerSound
<1>11. \A t \in Tenants : <<t, held[t]>> \in roles
  OBVIOUS
<1> HIDE DEF roles
<1>12. Known(r)'
  BY <1>3, <1>5, <1>7, <1>9, <1>10, <1>11 DEF Known, WorldSeen
<1>13. ASSUME NEW k \in Visits, k # r
       PROVE  Known(k)'
  BY <1>3, <1>5, <1>7, <1>13 DEF HttpInv, Known, WorldSeen, Underway
<1> QED BY <1>8, <1>12, <1>13 DEF HttpInv

\* The world changes under the requests.
LEMMA WorldKeepsInv ==
    ASSUME HttpInv,
           \/ \E t \in Tenants, role \in HeldRoles : ChangeRole(t, role)
           \/ \E c \in Credentials : LoseCredential(c)
           \/ \E t \in Tenants : QuotaElsewhere(t)
    PROVE  HttpInv'
<1>0. HttpTypeOK
  BY DEF HttpInv
<1>1. /\ visits' = visits /\ goodSeen' = goodSeen /\ good' \subseteq good
      /\ quotas \subseteq quotas' /\ quotas' \subseteq Tenants
      /\ events' = events + 1 /\ events < MaxEvents
  BY <1>0 DEF HttpTypeOK, ChangeRole, LoseCredential, QuotaElsewhere
<1>2. /\ \A r \in Visits : roleSeen[r] \subseteq roleSeen'[r]
      /\ \A r \in Visits, t \in Tenants :
            Underway(r) => <<t, held'[t]>> \in roleSeen'[r] \/ held'[t] = held[t]
      /\ held' \in [Tenants -> HeldRoles]
      /\ roleSeen' \in [Visits -> SUBSET (Tenants \X HeldRoles)]
  <2>1. ASSUME NEW t \in Tenants, NEW role \in HeldRoles, ChangeRole(t, role)
        PROVE  <1>2
    <3>1. /\ held' = [held EXCEPT ![t] = role]
          /\ roleSeen' = [r \in Visits |-> roleSeen[r] \cup
                            (IF Underway(r) THEN {<<t, role>>} ELSE {})]
      BY <2>1 DEF ChangeRole
    <3>2. \A r \in Visits : /\ roleSeen[r] \subseteq roleSeen'[r]
                            /\ Underway(r) => <<t, role>> \in roleSeen'[r]
                            /\ roleSeen'[r] \in SUBSET (Tenants \X HeldRoles)
      BY <1>0, <3>1 DEF HttpTypeOK
    <3>3. /\ held'[t] = role /\ \A u \in Tenants : u # t => held'[u] = held[u]
          /\ held' \in [Tenants -> HeldRoles]
      BY <1>0, <3>1 DEF HttpTypeOK
    <3>4. roleSeen' \in [Visits -> SUBSET (Tenants \X HeldRoles)]
      BY <3>1, <3>2
    <3> QED BY <3>2, <3>3, <3>4
  <2>2. CASE UNCHANGED <<held, roleSeen>>
    BY <1>0, <2>2 DEF HttpTypeOK
  <2> QED BY <2>1, <2>2 DEF LoseCredential, QuotaElsewhere
<1>3. HttpTypeOK'
  BY <1>0, <1>1, <1>2 DEF HttpTypeOK
<1>4. ASSUME NEW r \in Visits, visits[r].pc # "waiting"
      PROVE  Known(r)'
  <2>1. Known(r)
    BY DEF HttpInv
  <2>2. VisitSound(visits[r], roleSeen'[r], goodSeen[r])
    BY <1>1, <1>2, <1>4, <2>1, SoundStays DEF Known
  <2>3. AnswerSound(visits[r], roleSeen'[r], quotas', good')
    BY <1>1, <1>2, <1>4, <2>1, SoundStays DEF Known
  <2>4. WorldSeen(r)'
    BY <1>1, <1>2, <1>4, <2>1 DEF Known, WorldSeen, Underway
  <2> QED BY <1>1, <2>2, <2>3, <2>4 DEF Known
<1>5. \A r \in Visits : visits'[r].pc = "waiting" => Known(r)'
  BY DEF Known
<1> QED BY <1>1, <1>3, <1>4, <1>5 DEF HttpInv

LEMMA HttpInitInv == HttpInit => HttpInv
<1>1. HttpInit => \A r \in Visits : visits[r].pc = "waiting"
  <2>1. Waiting.pc = "waiting"
    BY DEF Waiting
  <2> QED BY <2>1 DEF HttpInit
<1> QED BY <1>1, HttpInitTypeOK DEF HttpInv, Known

LEMMA HttpNextInv == HttpInv /\ [HttpNext]_httpVars => HttpInv'
<1> SUFFICES ASSUME HttpInv, [HttpNext]_httpVars
             PROVE  HttpInv'
    OBVIOUS
<1>1. ASSUME NEW r \in Visits, NEW route \in Visited, NEW credential \in Credentials \cup {"none"},
             NEW header \in Tenants \cup {"none"}, NEW path \in Tenants,
             Arrive(r, route, credential, header, path)
      PROVE  HttpInv'
  BY <1>1, VisitedAssumption, ArriveKeepsInv
<1>2. ASSUME NEW r \in Visits, ParseBody(r) \/ LimitRate(r) \/ Validate(r)
      PROVE  HttpInv'
  <2>1. PICK middleware \in {"parse", "limit", "validate"} :
          /\ Before(r, middleware) /\ UnchangedWorld
          /\ Pass(r, visits[r]) \/ \E status \in {400, 422, 429, 500} : RefuseWith(r, status)
    BY <1>2, Statuses DEF ParseBody, LimitRate, Validate
  <2>2. ASSUME NEW status \in {400, 422, 429, 500}, RefuseWith(r, status)
        PROVE  HttpInv'
    BY <2>1, <2>2, RefusalKeepsInv
  <2> QED BY <2>1, <2>2, PlainPassKeepsInv
<1>3. ASSUME NEW r \in Visits,
             \/ AuthenticateKey(r) \/ AuthenticateToken(r) \/ StoreUpload(r)
             \/ ResolveOfKey(r) \/ ResolveOrganization(r) \/ RequireRole(r)
             \/ Handle(r) \/ HandleUpload(r)
             \/ CheckPathMembership(r) \/ GetUsage(r) \/ FindQuota(r) \/ CreateQuota(r)
      PROVE  HttpInv'
  BY <1>3, AuthenticateKeepsInv, StoreKeepsInv, ResolveOfKeyKeepsInv,
     ResolveOrganizationKeepsInv, RequireRoleKeepsInv, HandleKeepsInv, HandleUploadKeepsInv,
     QuotaStepsKeepInv
<1>4. CASE UNCHANGED httpVars
  BY <1>4 DEF httpVars, HttpInv, HttpTypeOK, Known, WorldSeen, Underway
<1> QED BY <1>1, <1>2, <1>3, <1>4, WorldKeepsInv DEF HttpNext

\* The type invariant, for any number of requests and organizations.
THEOREM HttpTypeCorrect == HttpSpec => []HttpTypeOK
<1>1. HttpInv => HttpTypeOK
  BY DEF HttpInv
<1> QED BY HttpInitInv, HttpNextInv, <1>1, PTL DEF HttpSpec

\* Behind every route's chain there is what its handler reads, and what
\* entitles the request to it.
LEMMA HandlersAreBehind ==
    ASSUME HttpInv, NEW r \in Visits, visits[r] # Waiting,
           AtHandler(r) \/ visits[r].pc \in {"allowed", "creating", "handled"}
    PROVE  /\ Reads(visits[r].route) \subseteq Bound(r)
           /\ Proven(r)
           /\ visits[r].route \notin OpenRoutes \cup PersonalRoutes =>
                 MeetsDemands(r, visits[r].organization)
<1> DEFINE v == visits[r]
           c == Chain(v.route)
<1>1. v \in Visit /\ VisitSound(v, roleSeen[r], goodSeen[r]) /\ v.route \in Routes
  BY AVisit DEF HttpInv, HttpTypeOK, Known, Visit
<1>2. v.at = Len(c)
  BY <1>1 DEF AtHandler, VisitSound
<1>3. \A x : Passed(v, x) <=> Has(c, x, Len(c))
  BY <1>2 DEF Passed
<1>4. /\ v.route \notin OpenRoutes => Passed(v, "authenticate")
      /\ v.route \notin OpenRoutes \cup PersonalRoutes => Passed(v, "organization")
      /\ v.route \in AdminRoutes => Passed(v, "role")
  <2>1. Guards(v.route, c)
    BY <1>1, RoutesGuard
  <2> HIDE DEF v, c
  <2> QED BY <1>3, <2>1 DEF Guards, OpenChain, SignedChain, MemberChain, AdminChain
<1>5. v.route \notin OpenRoutes => v.user /\ v.credential \in goodSeen[r]
  BY <1>1, <1>4 DEF VisitSound
<1>6. ASSUME v.route \notin OpenRoutes \cup PersonalRoutes
      PROVE  v.organization # "none" /\ v.membership # "none" /\ MeetsDemands(r, v.organization)
  <2>1. Member(v, roleSeen[r]) /\ v.user
    BY <1>1, <1>4, <1>5, <1>6 DEF VisitSound
  <2>2. CASE v.key
    <3>1. v.credential = "key" /\ v.organization = KeyTenant /\ v.membership = "ADMIN"
      BY <1>1, <2>2 DEF VisitSound
    <3> QED BY <2>1, <2>2, <3>1 DEF Member, MeetsDemands
  <2>3. CASE ~v.key
    <3>1. /\ v.credential # "key" /\ v.header = v.organization /\ v.organization \in Tenants
          /\ v.membership # "none" /\ <<v.organization, v.membership>> \in roleSeen[r]
      BY <1>1, <2>1, <2>3 DEF VisitSound, Member
    <3>2. v.membership \in RolesDemanded(v.route)
      BY <1>1, <1>4, <3>1 DEF RolesDemanded, VisitSound, Visit
    <3> QED BY <3>1, <3>2 DEF MeetsDemands
  <2> QED BY <2>2, <2>3
<1>7. /\ Reads(v.route) \subseteq {"user", "organization", "membership"}
      /\ v.route \in OpenRoutes => Reads(v.route) = {}
      /\ v.route \in PersonalRoutes => Reads(v.route) \subseteq {"user"}
  BY <1>1, ReadsAreModest
<1>8. Reads(v.route) \subseteq Bound(r)
  BY <1>5, <1>6, <1>7 DEF Bound
<1> QED BY <1>5, <1>6, <1>8 DEF Proven

\* For any number of requests to any of the routes, with roles, keys and
\* tokens changing while they wait: a handler runs only for a request that met
\* what the routers demand of it, and one is refused only if it did not:
\* HandlersAreGuarded.
THEOREM HandlersAreGuardedHolds == HttpSpec => []HandlersAreGuarded
<1>1. HttpInv => HandlersAreGuarded
  <2> SUFFICES ASSUME HttpInv, NEW r \in Visits, visits[r] # Waiting
               PROVE  /\ AtHandler(r) \/ visits[r].pc \in {"allowed", "creating", "handled"} =>
                            /\ Reads(visits[r].route) \subseteq Bound(r)
                            /\ Proven(r)
                            /\ visits[r].route \notin OpenRoutes \cup PersonalRoutes =>
                                  MeetsDemands(r, visits[r].organization)
                      /\ visits[r].route \in {"getQuota", "getUsage"} /\ Succeeded(r) =>
                            \E role \in HeldRoles \ {"none"} : <<visits[r].path, role>> \in roleSeen[r]
                      /\ visits[r].pc = "handled" /\ visits[r].route = "getQuota"
                         /\ visits[r].status \in {200, 409} => visits[r].path \in quotas
                      /\ visits[r].file # "none" => Proven(r)
                      /\ visits[r].pc = "refused" /\ visits[r].status = 401 =>
                            visits[r].credential \notin good
                      /\ visits[r].pc = "refused" /\ visits[r].status = 403 =>
                            IF visits[r].credential = "key"
                            THEN visits[r].header \notin {"none", KeyTenant}
                            ELSE \E role \in HeldRoles \ RolesDemanded(visits[r].route) :
                                    <<visits[r].header, role>> \in roleSeen[r]
      BY DEF HandlersAreGuarded
  <2>1. /\ VisitSound(visits[r], roleSeen[r], goodSeen[r])
        /\ AnswerSound(visits[r], roleSeen[r], quotas, good)
    BY AVisit DEF HttpInv, HttpTypeOK, Known
  <2>2. visits[r].file # "none" => Proven(r)
    BY <2>1 DEF VisitSound, Proven
  <2>3. AtHandler(r) \/ visits[r].pc \in {"allowed", "creating", "handled"} =>
          /\ Reads(visits[r].route) \subseteq Bound(r)
          /\ Proven(r)
          /\ visits[r].route \notin OpenRoutes \cup PersonalRoutes =>
                MeetsDemands(r, visits[r].organization)
    BY HandlersAreBehind
  <2>4. visits[r].route \in {"getQuota", "getUsage"} /\ Succeeded(r) =>
          \E role \in HeldRoles \ {"none"} : <<visits[r].path, role>> \in roleSeen[r]
    BY <2>1 DEF AnswerSound, Succeeded, OfQuotas
  <2>5. /\ visits[r].pc = "handled" /\ visits[r].route = "getQuota"
           /\ visits[r].status \in {200, 409} => visits[r].path \in quotas
        /\ visits[r].pc = "refused" /\ visits[r].status = 401 => visits[r].credential \notin good
        /\ visits[r].pc = "refused" /\ visits[r].status = 403 =>
              IF visits[r].credential = "key"
              THEN visits[r].header \notin {"none", KeyTenant}
              ELSE \E role \in HeldRoles \ RolesDemanded(visits[r].route) :
                      <<visits[r].header, role>> \in roleSeen[r]
    BY <2>1 DEF AnswerSound
  <2> QED BY <2>2, <2>3, <2>4, <2>5
<1> QED BY HttpInitInv, HttpNextInv, <1>1, PTL DEF HttpSpec

HIDE HttpRequestsAssumption
=============================================================================
