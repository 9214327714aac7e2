---------------------------- MODULE RateLimiter ----------------------------
(***************************************************************************)
(* One counter of middleware/rate-limiter: the key of a client in Redis,   *)
(* which services/redis increments and gives its expiry in two calls, and  *)
(* the requests that are admitted or refused by what they read.  Redis may *)
(* be away, and a process may die between the two calls.                   *)
(***************************************************************************)
EXTENDS Naturals, FiniteSets

CONSTANTS
    Senders,   \* requests of the client in flight
    LimitMax,  \* requests admitted in a window
    MaxLives,  \* bound: how often the key comes to life
    MaxCount,  \* bound: how far the key is counted
    MaxFailures \* bound: commands that fail in one life of the key

ASSUME RateLimiterAssumption ==
    /\ IsFiniteSet(Senders)
    /\ LimitMax \in Nat
    /\ MaxLives \in Nat
    /\ MaxCount \in Nat
    /\ MaxFailures \in Nat

VARIABLES
    count,     \* the value of the key, 0 when it does not exist
    ttl,       \* has the key an expiry
    life,      \* how often the key has come to life
    senders,   \* requests
    admitted,  \* history: requests let through, for whatever reason, per life
    failures   \* history: requests Redis failed, per life

limitVars == <<count, ttl, life, senders, admitted, failures>>
----------------------------------------------------------------------------

\* count and life are those of the key when the request was counted.
Sender == [pc : {"idle", "expire", "decide", "refused"}, count : Nat, life : Nat]
NoSender == [pc |-> "idle", count |-> 0, life |-> 0]

LimitInit ==
    /\ count = 0
    /\ ttl = FALSE
    /\ life = 0
    /\ senders = [r \in Senders |-> NoSender]
    /\ admitted = [n \in 1 .. MaxLives |-> 0]
    /\ failures = [n \in 1 .. MaxLives |-> 0]
----------------------------------------------------------------------------

\* Mutant: a counter read and written in two calls, here all of one value.
IncrementLater(r) ==
    /\ senders[r].pc = "idle" /\ count < MaxCount
    /\ count = 0 => life < MaxLives
    /\ count' = IF count = 0 THEN 1 ELSE count
    /\ life' = IF count = 0 THEN life + 1 ELSE life
    /\ senders' = [senders EXCEPT ![r] =
          [pc |-> IF ttl THEN "decide" ELSE "expire", count |-> count', life |-> life']]
    /\ UNCHANGED <<ttl, admitted, failures>>

\* Mutant: the expiry is left to the request that counted 1.
IncrementFirstExpires(r) ==
    /\ senders[r].pc = "idle" /\ count < MaxCount
    /\ count = 0 => life < MaxLives
    /\ count' = count + 1
    /\ life' = IF count = 0 THEN life + 1 ELSE life
    /\ senders' = [senders EXCEPT ![r] =
          [pc |-> IF count = 0 THEN "expire" ELSE "decide", count |-> count + 1, life |-> life']]
    /\ UNCHANGED <<ttl, admitted, failures>>

\* INCR and TTL in one MULTI: whoever finds no expiry sets one.
Increment(r) ==
    /\ senders[r].pc = "idle" /\ count < MaxCount
    /\ count = 0 => life < MaxLives
    /\ count' = count + 1
    /\ life' = IF count = 0 THEN life + 1 ELSE life
    /\ senders' = [senders EXCEPT ![r] =
          [pc |-> IF ttl THEN "decide" ELSE "expire", count |-> count + 1, life |-> life']]
    /\ UNCHANGED <<ttl, admitted, failures>>

\* EXPIRE, on whatever the key is by now.
SetExpiry(r) ==
    /\ senders[r].pc = "expire"
    /\ ttl' = (count > 0)
    /\ senders' = [senders EXCEPT ![r].pc = "decide"]
    /\ UNCHANGED <<count, life, admitted, failures>>

\* A request that Redis failed is let through: it belongs to the n-th life.
LetThroughUncounted(n) ==
    /\ failures[n] < MaxFailures
    /\ admitted' = [admitted EXCEPT ![n] = @ + 1]
    /\ failures' = [failures EXCEPT ![n] = @ + 1]

\* Redis is away while a window runs: nothing is counted.
PassWithoutRedis(r) ==
    /\ senders[r].pc = "idle" /\ count > 0
    /\ LetThroughUncounted(life)
    /\ UNCHANGED <<count, ttl, life, senders>>

\* EXPIRE fails: increment() throws its count away, be it beyond the limit.
FailExpiry(r) ==
    /\ senders[r].pc = "expire"
    /\ LetThroughUncounted(senders[r].life)
    /\ senders' = [senders EXCEPT ![r] = NoSender]
    /\ UNCHANGED <<count, ttl, life>>

\* The process dies between INCR and EXPIRE.
LoseExpiry(r) ==
    /\ senders[r].pc = "expire"
    /\ senders' = [senders EXCEPT ![r] = NoSender]
    /\ UNCHANGED <<count, ttl, life, admitted, failures>>

Admit(r) ==
    /\ senders[r].pc = "decide" /\ senders[r].count <= LimitMax
    /\ admitted' = [admitted EXCEPT ![senders[r].life] = @ + 1]
    /\ senders' = [senders EXCEPT ![r] = NoSender]
    /\ UNCHANGED <<count, ttl, life, failures>>

Refuse(r) ==
    /\ senders[r].pc = "decide" /\ senders[r].count > LimitMax
    /\ senders' = [senders EXCEPT ![r].pc = "refused"]
    /\ UNCHANGED <<count, ttl, life, admitted, failures>>

\* The client sends again.
Retry(r) ==
    /\ senders[r].pc = "refused"
    /\ senders' = [senders EXCEPT ![r] = NoSender]
    /\ UNCHANGED <<count, ttl, life, admitted, failures>>

\* The window ends.
ExpireKey ==
    /\ ttl
    /\ count' = 0
    /\ ttl' = FALSE
    /\ UNCHANGED <<life, senders, admitted, failures>>

LimitNext ==
    \/ \E r \in Senders : Increment(r)
    \/ \E r \in Senders : SetExpiry(r)
    \/ \E r \in Senders : PassWithoutRedis(r)
    \/ \E r \in Senders : FailExpiry(r)
    \/ \E r \in Senders : LoseExpiry(r)
    \/ \E r \in Senders : Admit(r)
    \/ \E r \in Senders : Refuse(r)
    \/ \E r \in Senders : Retry(r)
    \/ ExpireKey

LimitSpec == LimitInit /\ [][LimitNext]_limitVars

\* Redis expires the keys that have an expiry; no request need follow.
LimitFairness == WF_limitVars(ExpireKey)
----------------------------------------------------------------------------
LimitTypeOK ==
    /\ count \in Nat
    /\ ttl \in BOOLEAN
    /\ life \in Nat
    /\ senders \in [Senders -> Sender]
    /\ admitted \in [1 .. MaxLives -> Nat]
    /\ failures \in [1 .. MaxLives -> Nat]

\* Of all the requests let through in one window, however their calls
\* interleave and whoever lost its EXPIRE, no more than the limit were let
\* through in order: every other one took a failure of Redis of its own, and
\* neither a failed EXPIRE nor a dead process opens the window to the rest.
WindowsAreLimited == \A n \in 1 .. MaxLives : admitted[n] <= LimitMax + failures[n]

\* A client that was refused is not refused for ever: the key it was counted
\* in ends, even if the process that made it died before giving it an expiry,
\* without the help of another request.
RefusalsEnd ==
    \A r \in Senders, n \in 1 .. MaxLives :
        senders[r].pc = "refused" /\ senders[r].life = n ~> ~(life = n /\ count > 0)
=============================================================================
