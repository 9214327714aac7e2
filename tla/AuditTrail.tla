----------------------------- MODULE AuditTrail -----------------------------
(***************************************************************************)
(* The audit events and notifications of member and organization changes:  *)
(* enqueued after the change is committed and without being awaited, with  *)
(* a job id that makes the same event of the same five minutes one job,    *)
(* and taken by workers that log them and store nothing.                   *)
(*                                                                         *)
(* BullMQ hands the job of a worker that died to another until it has      *)
(* stalled too often.  The handler of a worker that lives does not fail.   *)
(***************************************************************************)
EXTENDS Naturals, Sequences

CONSTANTS
    Changes,    \* changes made, each once
    EventOf,    \* action, acting user and organization of a change
    Notifies,   \* changes the user is also notified of (member.added)
    MaxBucket,  \* bound: five-minute buckets that pass
    MaxStalls,  \* BullMQ's maxStalledCount, which the worker leaves at 1
    KeepDone,   \* completed audit jobs Redis keeps (1000)
    KeepLost    \* failed audit jobs Redis keeps (5000)

ASSUME AuditTrailAssumption ==
    /\ DOMAIN EventOf = Changes
    /\ Notifies \subseteq Changes
    /\ MaxBucket \in Nat /\ MaxStalls \in Nat /\ KeepDone \in Nat /\ KeepLost \in Nat

VARIABLES
    bucket,   \* floor(now / 300000)
    redisUp,  \* isRedisReady()
    changes,  \* what became of each change
    jobs,     \* audit jobs to be done, by id
    doneLog,  \* ids of the completed audit jobs Redis still has, oldest first
    lostLog,  \* ids of the failed audit jobs Redis still has, oldest first
    notices,  \* notification jobs
    processed, \* history: changes whose own event a worker processed
    deaths    \* history: workers that died at a change's own event

jobVars == <<jobs, doneLog, lostLog, processed, deaths>>
auditVars == <<bucket, redisUp, changes, notices, jobVars>>
----------------------------------------------------------------------------

ChangeSteps == {"none", "committed", "audited", "over"}

\* of is the change whose event made the job and is its data.
AuditJob == [state : {"waiting", "active"}, of : Changes, stalls : 0 .. MaxStalls]

\* lost: Redis was away, or the process died, before the event was handed over;
\* at is the bucket of the hand-over.
Change == [pc : ChangeSteps, at : 0 .. MaxBucket, lost : BOOLEAN]

\* Mutant: the id without its bucket.
JobIdForEver(c) == [event |-> EventOf[c], bucket |-> 0]

\* audit_<action>_<user>_<organization>_<bucket>
JobId(c) == [event |-> EventOf[c], bucket |-> bucket]

\* The ids Redis knows: those of waiting, active and retained jobs.
KnownIds ==
    DOMAIN jobs \cup {doneLog[i] : i \in DOMAIN doneLog} \cup {lostLog[i] : i \in DOMAIN lostLog}

AuditInit ==
    /\ bucket = 0 /\ redisUp = TRUE
    /\ changes = [c \in Changes |-> [pc |-> "none", at |-> 0, lost |-> FALSE]]
    /\ jobs = <<>>
    /\ doneLog = <<>> /\ lostLog = <<>> /\ notices = {}
    /\ processed = {} /\ deaths = [c \in Changes |-> 0]
----------------------------------------------------------------------------
\* The member is added, changed, removed; the organization created. Caches are
\* emptied before the event goes out, and time passes.
CommitChange(c) ==
    /\ changes[c].pc = "none"
    /\ changes' = [changes EXCEPT ![c].pc = "committed"]
    /\ UNCHANGED <<bucket, redisUp, notices, jobVars>>

\* enqueueAuditEvent: nothing without Redis; an id Redis still has, whatever
\* became of that job, is the job that is already there.
EnqueueAuditEvent(c) ==
    /\ changes[c].pc = "committed"
    /\ changes' = [changes EXCEPT ![c] =
          [pc |-> IF c \in Notifies THEN "audited" ELSE "over",
           at |-> bucket, lost |-> ~redisUp]]
    /\ jobs' = IF ~redisUp \/ JobId(c) \in KnownIds
               THEN jobs
               ELSE [id \in DOMAIN jobs \cup {JobId(c)} |->
                        IF id \in DOMAIN jobs
                        THEN jobs[id]
                        ELSE [state |-> "waiting", of |-> c, stalls |-> 0]]
    /\ UNCHANGED <<bucket, redisUp, doneLog, lostLog, notices, processed, deaths>>

\* enqueueNotification: a job of its own each time.
EnqueueNotification(c) ==
    /\ changes[c].pc = "audited"
    /\ changes' = [changes EXCEPT ![c].pc = "over"]
    /\ notices' = IF redisUp THEN notices \cup {c} ELSE notices
    /\ UNCHANGED <<bucket, redisUp, jobVars>>

\* The process that made the change dies before the event is out.
ApiDies(c) ==
    /\ changes[c].pc \in {"committed", "audited"}
    /\ changes' = [changes EXCEPT ![c].pc = "over", ![c].lost = @ \/ changes[c].pc = "committed"]
    /\ UNCHANGED <<bucket, redisUp, notices, jobVars>>

\* The audit worker

TakeAuditJob(id) ==
    /\ redisUp /\ jobs[id].state = "waiting"
    /\ jobs' = [jobs EXCEPT ![id].state = "active"]
    /\ UNCHANGED <<bucket, redisUp, changes, doneLog, lostLog, notices, processed, deaths>>

\* A finished set takes an id and keeps its newest `keep' ones.
Keeping(log, id, keep) ==
    LET all == Append(log, id)
    IN  SubSeq(all, IF Len(all) > keep THEN 2 ELSE 1, Len(all))

Gone(id) == jobs' = [other \in DOMAIN jobs \ {id} |-> jobs[other]]

\* The worker writes two lines to the log, waits as a storage would, and the
\* job is completed.
FinishAuditJob(id) ==
    /\ redisUp /\ jobs[id].state = "active"
    /\ Gone(id)
    /\ processed' = processed \cup {jobs[id].of}
    /\ doneLog' = Keeping(doneLog, id, KeepDone)
    /\ UNCHANGED <<bucket, redisUp, changes, lostLog, notices, deaths>>

\* The worker dies and the stalled-job check hands its job back, or fails it
\* when it has stalled too often. No attempt has been used up by then, so the
\* `failed' listener leaves it out of the dead-letter store.
ReturnAuditJob(id) ==
    /\ redisUp /\ jobs[id].state = "active"
    /\ deaths' = [deaths EXCEPT ![jobs[id].of] = @ + 1]
    /\ IF jobs[id].stalls < MaxStalls
       THEN /\ jobs' = [jobs EXCEPT ![id].state = "waiting", ![id].stalls = @ + 1]
            /\ UNCHANGED lostLog
       ELSE Gone(id) /\ lostLog' = Keeping(lostLog, id, KeepLost)
    /\ UNCHANGED <<bucket, redisUp, changes, doneLog, notices, processed>>

Notify(c) ==
    /\ redisUp /\ c \in notices
    /\ notices' = notices \ {c}
    /\ UNCHANGED <<bucket, redisUp, changes, jobVars>>

RedisTurns ==
    /\ redisUp' = ~redisUp
    /\ UNCHANGED <<bucket, changes, notices, jobVars>>

FiveMinutesPass ==
    /\ bucket < MaxBucket
    /\ bucket' = bucket + 1
    /\ UNCHANGED <<redisUp, changes, notices, jobVars>>

AuditNext ==
    \/ \E c \in Changes : \/ CommitChange(c) \/ EnqueueAuditEvent(c)
                          \/ EnqueueNotification(c) \/ ApiDies(c) \/ Notify(c)
    \/ \E id \in DOMAIN jobs : TakeAuditJob(id) \/ FinishAuditJob(id) \/ ReturnAuditJob(id)
    \/ RedisTurns \/ FiveMinutesPass

AuditSpec == AuditInit /\ [][AuditNext]_auditVars
----------------------------------------------------------------------------
AuditTypeOK ==
    /\ bucket \in 0 .. MaxBucket /\ redisUp \in BOOLEAN
    /\ changes \in [Changes -> Change]
    /\ \A id \in DOMAIN jobs : jobs[id] \in AuditJob
    /\ Len(doneLog) <= KeepDone /\ Len(lostLog) <= KeepLost
    /\ notices \subseteq Notifies
    /\ processed \subseteq Changes
    /\ deaths \in [Changes -> Nat]

HandedOver(c) == changes[c].pc \in {"audited", "over"} /\ ~changes[c].lost

\* The own event of a change is waiting, taken or processed, or as many
\* workers as BullMQ allows, and one more, died at it.
Accounted(c) ==
    \/ c \in processed
    \/ \E id \in DOMAIN jobs : jobs[id].of = c
    \/ deaths[c] > MaxStalls

\* An event that was handed over reaches the worker, or was folded into one of
\* its kind, actor and organization handed over in the same five minutes which
\* does, however many jobs came between and whichever of them Redis has
\* already removed: what a change is accounted for by is never older than its
\* bucket. What the worker does with it is to log it: no audit row is written
\* (see README).
EventsReachTheWorker ==
    \A c \in Changes : HandedOver(c) =>
        \E d \in Changes :
            /\ HandedOver(d) /\ EventOf[d] = EventOf[c] /\ changes[d].at = changes[c].at
            /\ Accounted(d)
=============================================================================
