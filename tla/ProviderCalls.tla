---------------------------- MODULE ProviderCalls ----------------------------
(***************************************************************************)
(* The calls to the embedding and chat APIs: resilientFetch with its timer *)
(* per attempt, the two kinds of errors, the waits between attempts, and   *)
(* the providers that check what came back.                                *)
(*                                                                         *)
(* The timer is cleared when the headers are there, so the body is read    *)
(* without one. No caller passes a fallback, so none is modelled.          *)
(***************************************************************************)
EXTENDS Naturals

CONSTANTS
    Calls,   \* calls in flight
    Retries  \* how often each may be repeated (2 for chat, 3 for embeddings)

ASSUME ProviderCallsAssumption == Retries \in [Calls -> Nat]

VARIABLE calls

callVars == <<calls>>
----------------------------------------------------------------------------

CallSteps == {"idle", "waiting", "reading", "backoff", "answered", "failed"}
Answers == {"none", "ok", "transient", "permanent"}

\* sent: requests made; status: of the last answer.
Call == [pc : CallSteps, sent : Nat, status : Answers]

\* 429, 500, 502, 503 and 504 are transient, the other errors permanent.
HttpStatuses == {"ok", "transient", "permanent"}

CallInit == calls = [c \in Calls |-> [pc |-> "idle", sent |-> 0, status |-> "none"]]

\* Mutant: one attempt too many.
RetryOnceMore(c) ==
    calls' = [calls EXCEPT ![c].pc = IF calls[c].sent <= Retries[c] + 1
                                     THEN "backoff" ELSE "failed"]

\* Another attempt, or the error of the last one.
RetryOrGiveUp(c) ==
    calls' = [calls EXCEPT ![c].pc = IF calls[c].sent <= Retries[c]
                                     THEN "backoff" ELSE "failed"]

EndCall(c, how) == calls' = [calls EXCEPT ![c].pc = how]
----------------------------------------------------------------------------
Send(c) == calls' = [calls EXCEPT ![c] =
                        [pc |-> "waiting", sent |-> @.sent + 1, status |-> "none"]]

StartCall(c) == calls[c].pc = "idle" /\ Send(c)

\* The exponential delay is over.
SendAgain(c) == calls[c].pc = "backoff" /\ Send(c)

\* fetch() resolves and the timer is cleared.
HeadersArrive(c, status) ==
    /\ calls[c].pc = "waiting"
    /\ calls' = [calls EXCEPT ![c].pc = "reading", ![c].status = status]

\* Mutant: one timer for all attempts.
AbortFirstAttempt(c) == calls[c].pc = "waiting" /\ calls[c].sent = 1 /\ RetryOrGiveUp(c)

\* The timer aborts the request: an AbortError, which is transient.
AbortAttempt(c) == calls[c].pc = "waiting" /\ RetryOrGiveUp(c)

\* Connections refused or reset count as transient by their code; any other
\* error of fetch() ends the call at once.
ConnectionFails(c, transient) ==
    /\ calls[c].pc = "waiting"
    /\ IF transient THEN RetryOrGiveUp(c) ELSE EndCall(c, "failed")

\* The body of an error is read only for its message, and reading may fail.
ErrorEnds(c) ==
    /\ calls[c].pc = "reading" /\ calls[c].status # "ok"
    /\ IF calls[c].status = "transient" THEN RetryOrGiveUp(c) ELSE EndCall(c, "failed")

\* A body that breaks off, is not JSON, or lacks what the provider looks for is
\* an error nobody retries.
BodyEnds(c, usable) ==
    /\ calls[c].pc = "reading" /\ calls[c].status = "ok"
    /\ EndCall(c, IF usable THEN "answered" ELSE "failed")

CallNext ==
    \E c \in Calls :
        \/ StartCall(c) \/ SendAgain(c) \/ AbortAttempt(c) \/ ErrorEnds(c)
        \/ \E status \in HttpStatuses : HeadersArrive(c, status)
        \/ \E transient \in BOOLEAN : ConnectionFails(c, transient)
        \/ \E usable \in BOOLEAN : BodyEnds(c, usable)

\* Timers fire. Nothing makes a server send the rest of a body.
CallFairness ==
    \A c \in Calls : WF_callVars(SendAgain(c)) /\ WF_callVars(AbortAttempt(c))

CallSpec == CallInit /\ [][CallNext]_callVars /\ CallFairness
----------------------------------------------------------------------------
CallTypeOK ==
    /\ calls \in [Calls -> Call]
    /\ \A c \in Calls : calls[c].sent <= Retries[c] + 1

\* A call that was made ends, unless it waits for a body for ever: the one
\* thing no timer covers.
OnlyBodiesHang ==
    \A c \in Calls : calls[c].pc = "waiting" ~>
        (calls[c].pc \in {"answered", "failed"} \/ [](calls[c].pc = "reading"))
=============================================================================
