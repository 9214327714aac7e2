------------------------------ MODULE Sessions ------------------------------
(***************************************************************************)
(* The accounts and sessions of modules/auth: registrations and logins     *)
(* with one email address, the refresh tokens they persist, the access     *)
(* tokens got with them, and logging out.  An access token is not stored:  *)
(* it is good until it expires.                                            *)
(***************************************************************************)
EXTENDS Naturals, FiniteSets

CONSTANT Clients  \* who registers or logs in, once each, with the same email

VARIABLES
    accounts,    \* rows of users with the email, named by their registrations
    workspaces,  \* organizations made by registrations
    signIns,     \* register and login requests
    tokens,      \* refresh_tokens, the row a client's sign-in made
    refreshes,   \* refresh requests, one at a time for a client
    access       \* clients that hold an access token that has not expired

sessVars == <<accounts, workspaces, signIns, tokens, refreshes, access>>
----------------------------------------------------------------------------

SignIn == {"idle", "hashing", "issuing", "done", "refused"}

SessInit ==
    /\ accounts = {}
    /\ workspaces = {}
    /\ signIns = [c \in Clients |-> "idle"]
    /\ tokens = [c \in Clients |-> "none"]
    /\ refreshes = [c \in Clients |-> "idle"]
    /\ access = {}
----------------------------------------------------------------------------
\* register and login

Step(c, from, to) == signIns[c] = from /\ signIns' = [signIns EXCEPT ![c] = to]

\* register: 409 when the email is taken.
FindEmail(c) ==
    /\ Step(c, "idle", IF accounts = {} THEN "hashing" ELSE "refused")
    /\ UNCHANGED <<accounts, workspaces, tokens, refreshes, access>>

\* Mutant: the user is created outside the transaction.
CreateUserFirst(c) ==
    /\ Step(c, "hashing", IF accounts = {} THEN "issuing" ELSE "refused")
    /\ workspaces' = workspaces \cup {c}
    /\ accounts' = IF accounts = {} THEN {c} ELSE accounts
    /\ UNCHANGED <<tokens, refreshes, access>>

\* The transaction makes the user, the workspace and its owner; users.email
\* is unique, so the second of two registrations fails as a whole.
CreateAccount(c) ==
    /\ signIns[c] = "hashing"
    /\ IF accounts = {}
       THEN /\ accounts' = {c}
            /\ workspaces' = workspaces \cup {c}
            /\ signIns' = [signIns EXCEPT ![c] = "issuing"]
       ELSE /\ signIns' = [signIns EXCEPT ![c] = "refused"]
            /\ UNCHANGED <<accounts, workspaces>>
    /\ UNCHANGED <<tokens, refreshes, access>>

\* login: the user must exist; a wrong password is Interrupt.
FindUser(c) ==
    /\ Step(c, "idle", IF accounts = {} THEN "refused" ELSE "issuing")
    /\ UNCHANGED <<accounts, workspaces, tokens, refreshes, access>>

\* generateAccessToken and createPersistedRefreshToken: the tokens are sent
\* once the row is written.
IssueTokens(c) ==
    /\ Step(c, "issuing", "done")
    /\ tokens' = [tokens EXCEPT ![c] = "live"]
    /\ access' = access \cup {c}
    /\ UNCHANGED <<accounts, workspaces, refreshes>>

\* A wrong password, a failing database call or a crash.
Interrupt(c) ==
    /\ signIns[c] \in {"hashing", "issuing"}
    /\ signIns' = [signIns EXCEPT ![c] = "refused"]
    /\ UNCHANGED <<accounts, workspaces, tokens, refreshes, access>>
----------------------------------------------------------------------------
\* refresh and logout

\* Mutant: the row is only looked up to see that it exists.
LookUpAnyToken(c) ==
    /\ refreshes[c] = "idle" /\ tokens[c] \notin {"none", "expired"}
    /\ refreshes' = [refreshes EXCEPT ![c] = "checked"]
    /\ UNCHANGED <<accounts, workspaces, signIns, tokens, access>>

\* The signature holds and the row is neither revoked nor expired; any other
\* request is refused here and changes nothing.
LookUpToken(c) ==
    /\ refreshes[c] = "idle" /\ tokens[c] = "live"
    /\ refreshes' = [refreshes EXCEPT ![c] = "checked"]
    /\ UNCHANGED <<accounts, workspaces, signIns, tokens, access>>

\* The user is still there, users are never deleted: a new access token.
GrantAccess(c) ==
    /\ refreshes[c] = "checked"
    /\ refreshes' = [refreshes EXCEPT ![c] = "idle"]
    /\ access' = access \cup {c}
    /\ UNCHANGED <<accounts, workspaces, signIns, tokens>>

\* The token must verify, so it has not expired, and revoking it again changes
\* nothing.  A failing update is swallowed and leaves everything as it is.
Logout(c) ==
    /\ tokens[c] = "live"
    /\ tokens' = [tokens EXCEPT ![c] = "revoked"]
    /\ UNCHANGED <<accounts, workspaces, signIns, refreshes, access>>

ExpireToken(c) ==
    /\ tokens[c] = "live"
    /\ tokens' = [tokens EXCEPT ![c] = "expired"]
    /\ UNCHANGED <<accounts, workspaces, signIns, refreshes, access>>

ExpireAccess(c) ==
    /\ c \in access
    /\ access' = access \ {c}
    /\ UNCHANGED <<accounts, workspaces, signIns, tokens, refreshes>>
----------------------------------------------------------------------------
SessNext ==
    \/ \E c \in Clients : FindEmail(c)
    \/ \E c \in Clients : CreateAccount(c)
    \/ \E c \in Clients : FindUser(c)
    \/ \E c \in Clients : IssueTokens(c)
    \/ \E c \in Clients : Interrupt(c)
    \/ \E c \in Clients : LookUpToken(c)
    \/ \E c \in Clients : GrantAccess(c)
    \/ \E c \in Clients : Logout(c)
    \/ \E c \in Clients : ExpireToken(c)
    \/ \E c \in Clients : ExpireAccess(c)

SessSpec == SessInit /\ [][SessNext]_sessVars

\* A request goes on to its end, and an access token expires minutes after it
\* was made; nothing makes a client sign in, refresh or log out.
SessFairness ==
    \A c \in Clients : WF_sessVars(GrantAccess(c)) /\ WF_sessVars(ExpireAccess(c))
----------------------------------------------------------------------------
SessTypeOK ==
    /\ accounts \subseteq Clients
    /\ workspaces \subseteq Clients
    /\ signIns \in [Clients -> SignIn]
    /\ tokens \in [Clients -> {"none", "live", "revoked", "expired"}]
    /\ refreshes \in [Clients -> {"idle", "checked"}]
    /\ access \subseteq Clients

\* Of any number of registrations with one email one makes an account, and it
\* makes the workspace too: the others, which may have found the email free,
\* leave nothing behind, and nobody has a session without an account.
RegistrationsAreWhole ==
    /\ workspaces = accounts
    /\ \A c, d \in accounts : c = d
    /\ \A c \in Clients : tokens[c] # "none" => accounts # {}

\* A session whose logout was written is over for good once the access tokens
\* it got have expired, the one a refresh in flight still gets included.
LogoutEndsAccess ==
    \A c \in Clients : tokens[c] = "revoked" ~> [](c \notin access)
=============================================================================
