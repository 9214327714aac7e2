------------------------------ MODULE ApiKeys ------------------------------
(***************************************************************************)
(* One API key of modules/api-keys: the requests that create, revoke and   *)
(* rotate it, the last two a lookup and an update with other requests      *)
(* between them, and which secret the authentication accepts as time goes. *)
(***************************************************************************)
EXTENDS Naturals

CONSTANTS
    Managers,  \* revoke and rotate requests, each made once
    MaxNow     \* bound: how far time goes

ASSUME ApiKeysAssumption == MaxNow \in Nat

VARIABLES
    key,       \* the row of api_keys
    secrets,   \* secrets made so far, numbered in the order of their writes
    managing,  \* revoke and rotate requests
    now        \* time

keyVars == <<key, secrets, managing, now>>
----------------------------------------------------------------------------

\* expiresAt 0 stands for a key that does not expire.
Key == [hashedSecret : Nat, revoked : BOOLEAN, expiresAt : Nat]
NoKey == [hashedSecret |-> 0, revoked |-> FALSE, expiresAt |-> 0]

Managing == [pc : {"idle", "revoke", "rotate", "done"}, expiresAt : Nat]

KeyInit ==
    /\ key = NoKey
    /\ secrets = 0
    /\ managing = [r \in Managers |-> [pc |-> "idle", expiresAt |-> 0]]
    /\ now = 1
----------------------------------------------------------------------------
\* expiresInDays: none, or a day from now.
Expiries(unchanged) == {unchanged, now + 1}

CreateApiKey(expiresAt) ==
    /\ key = NoKey
    /\ key' = [hashedSecret |-> secrets + 1, revoked |-> FALSE, expiresAt |-> expiresAt]
    /\ secrets' = secrets + 1
    /\ UNCHANGED <<managing, now>>

\* revokeApiKey and rotateApiKey find the key, whatever state it is in; the
\* expiry a rotation may keep is the one it reads here.
FindKey(r, op) ==
    /\ managing[r].pc = "idle" /\ key # NoKey
    /\ managing' = [managing EXCEPT ![r] = [pc |-> op, expiresAt |-> key.expiresAt]]
    /\ UNCHANGED <<key, secrets, now>>

RevokeApiKey(r) ==
    /\ managing[r].pc = "revoke"
    /\ key' = [key EXCEPT !.revoked = TRUE]
    /\ managing' = [managing EXCEPT ![r].pc = "done"]
    /\ UNCHANGED <<secrets, now>>

\* Mutant: an extension keeps the secret.
RotateKeeping(r, expiresAt) ==
    /\ managing[r].pc = "rotate"
    /\ key' = [key EXCEPT !.revoked = FALSE, !.expiresAt = expiresAt]
    /\ managing' = [managing EXCEPT ![r].pc = "done"]
    /\ UNCHANGED <<secrets, now>>

\* The update looks at nothing: it brings a revoked key back, with a secret
\* of its own.
RotateApiKey(r, expiresAt) ==
    /\ managing[r].pc = "rotate"
    /\ key' = [hashedSecret |-> secrets + 1, revoked |-> FALSE, expiresAt |-> expiresAt]
    /\ secrets' = secrets + 1
    /\ managing' = [managing EXCEPT ![r].pc = "done"]
    /\ UNCHANGED now

\* The lookup or the update throws.
AbandonManaging(r) ==
    /\ managing[r].pc \in {"revoke", "rotate"}
    /\ managing' = [managing EXCEPT ![r].pc = "done"]
    /\ UNCHANGED <<key, secrets, now>>

Tick ==
    /\ now < MaxNow
    /\ now' = now + 1
    /\ UNCHANGED <<key, secrets, managing>>

KeyNext ==
    \/ \E expiresAt \in Expiries(0) : CreateApiKey(expiresAt)
    \/ \E r \in Managers, op \in {"revoke", "rotate"} : FindKey(r, op)
    \/ \E r \in Managers : RevokeApiKey(r)
    \/ \E r \in Managers :
          \E expiresAt \in Expiries(managing[r].expiresAt) : RotateApiKey(r, expiresAt)
    \/ \E r \in Managers : AbandonManaging(r)
    \/ Tick

KeySpec == KeyInit /\ [][KeyNext]_keyVars
----------------------------------------------------------------------------
\* validateApiKey: the secret's hash finds the row, which is neither revoked
\* nor expired.
Accepted == {s \in 1 .. secrets :
                /\ key.hashedSecret = s
                /\ ~key.revoked
                /\ key.expiresAt = 0 \/ now <= key.expiresAt}

KeyTypeOK ==
    /\ key \in Key
    /\ secrets \in Nat
    /\ managing \in [Managers -> Managing]
    /\ now \in Nat

\* A secret that is not accepted any more, because the key was revoked,
\* expired or given a new secret, is never accepted again, although a rotation
\* un-revokes the key, a request may write on what it read before, and an
\* expiry can move either way.
SecretsDieForGood ==
    [][\A s \in 1 .. secrets : s \notin Accepted => s \notin Accepted']_keyVars
=============================================================================
