---------------------------- MODULE Services_proofs ----------------------------
(***************************************************************************)
(* Shutdowns, audit events and provider calls, for any number of signals,  *)
(* requests, workers, changes and calls; and all components in one run.    *)
(***************************************************************************)
EXTENDS MCServices, Access_proofs, Conversations_proofs, Retrieval_proofs, SequenceTheorems, TLAPS

----------------------------------------------------------------------------
\* Shutdown

LEMMA DownInitTypeOK == DownInit => DownTypeOK
BY ZenonT(60) DEF DownInit, DownTypeOK, Stages

LEMMA DownNextTypeOK == DownTypeOK /\ [DownNext]_downVars => DownTypeOK'
<1> SUFFICES ASSUME DownTypeOK, [DownNext]_downVars
             PROVE  DownTypeOK'
    OBVIOUS
<1> USE DEF DownTypeOK, Stages
<1>1. ASSUME NEW r \in Requests, AcceptRequest(r) \/ OpenQueue(r) \/ FinishRequest(r)
      PROVE  DownTypeOK'
  BY <1>1 DEF AcceptRequest, OpenQueue, FinishRequest
<1>2. CASE RedisReady
  BY <1>2, ZenonT(60) DEF RedisReady, StartWorkers
<1>3. CASE RedisLost
  BY <1>3 DEF RedisLost
<1>4. CASE StartTimer
  BY <1>4 DEF StartTimer, StartWorkers
<1>5. ASSUME NEW k \in Kinds, TakeJob(k) \/ FinishJob(k) \/ WorkerClosed(k) \/ GiveUp(k)
      PROVE  DownTypeOK'
  BY <1>5 DEF TakeJob, FinishJob, WorkerClosed, GiveUp
<1>6. ASSUME NEW s \in Signals, Signal(s) \/ HttpClosed(s)
      PROVE  DownTypeOK'
  BY <1>6 DEF Signal, HttpClosed
<1>7. ASSUME NEW s \in Signals, CloseWorkers(s)
      PROVE  DownTypeOK'
  BY <1>7 DEF CloseWorkers, AfterWorkers
<1>8. ASSUME NEW s \in Signals, AllClosed(s)
      PROVE  DownTypeOK'
  BY <1>8 DEF AllClosed, AfterWorkers
<1>9. ASSUME NEW s \in Signals,
             CloseQueues(s) \/ DisconnectRedis(s) \/ DisconnectDatabase(s) \/ ShutdownError(s)
      PROVE  DownTypeOK'
  BY <1>9 DEF CloseQueues, DisconnectRedis, DisconnectDatabase, ShutdownError
<1>10. CASE ForceExit
  BY <1>10 DEF ForceExit
<1>11. CASE UNCHANGED downVars
  BY <1>11 DEF downVars
<1> QED BY <1>1, <1>2, <1>3, <1>4, <1>5, <1>6, <1>7, <1>8, <1>9, <1>10, <1>11 DEF DownNext

\* The type invariant, for any number of signals, requests and workers.
THEOREM DownTypeCorrect == DownSpec => []DownTypeOK
BY DownInitTypeOK, DownNextTypeOK, PTL DEF DownSpec

\* A shutdown has waited for the requests; it has waited for the workers.
PastHttp(s) == stage[s] \notin {"none", "http"}
PastWorkers(s) == stage[s] \in {"queues", "redis", "database", "done"}

\* Nobody comes in and nothing is opened behind a shutdown's back.
StoresCloseLast ==
    /\ process = "api" => \A s, t \in Signals :
          stage[s] # "none" /\ stage[t] # "none" => s = t
    /\ process = "worker" => ~queues /\ \A r \in Requests : requests[r] = "none"
    /\ accepting => process = "api" /\ \A s \in Signals : stage[s] = "none"
    /\ \A s \in Signals : PastHttp(s) => \A r \in Requests : requests[r] # "serving"
    /\ \A s \in Signals : stage[s] \in {"redis", "database", "done"} => ~queues
    /\ redis = "quit" => \E s \in Signals : stage[s] \in {"database", "done"}

WaitedFor(k) == closing[k] \in {"closed", "givenUp"}

\* A worker that was started is on the list until it has been waited for; what
\* starts after the list was read starts late.
WorkersEndListed ==
    /\ \A k \in Kinds : closing[k] = "closed" => workers[k] # "busy"
    /\ \A k \in Kinds : workers[k] # "none" =>
          k = "evaluation" \/ k \in listed \/ WaitedFor(k)
    /\ \A s \in Signals : PastWorkers(s) =>
          \A k \in Kinds : workers[k] # "none" => k = "evaluation" \/ WaitedFor(k) \/ late

DownInv == DownTypeOK /\ StoresCloseLast /\ WorkersEndListed

LEMMA DownInitInv == DownInit => DownInv
BY DownInitTypeOK
   DEF DownInit, DownInv, StoresCloseLast, WorkersEndListed, PastHttp, PastWorkers

LEMMA NextStoresCloseLast ==
    ASSUME DownTypeOK, StoresCloseLast, [DownNext]_downVars
    PROVE  StoresCloseLast'
<1> USE DEF DownTypeOK, StoresCloseLast, PastHttp
<1>1. ASSUME NEW r \in Requests, AcceptRequest(r)
      PROVE  StoresCloseLast'
  BY <1>1 DEF AcceptRequest
<1>2. ASSUME NEW r \in Requests, OpenQueue(r)
      PROVE  StoresCloseLast'
  BY <1>2 DEF OpenQueue
<1>3. ASSUME NEW r \in Requests, FinishRequest(r)
      PROVE  StoresCloseLast'
  BY <1>3 DEF FinishRequest
<1>4. CASE RedisReady \/ RedisLost
  BY <1>4 DEF RedisReady, RedisLost
<1>5. ASSUME UNCHANGED <<process, stage, accepting, requests, redis, queues>>
      PROVE  StoresCloseLast'
  BY <1>5
<1>6. ASSUME NEW s \in Signals, Signal(s)
      PROVE  StoresCloseLast'
  BY <1>6 DEF Signal
<1>7. ASSUME NEW s \in Signals, HttpClosed(s)
      PROVE  StoresCloseLast'
  BY <1>7 DEF HttpClosed
<1>8. ASSUME NEW s \in Signals, CloseWorkers(s)
      PROVE  StoresCloseLast'
  BY <1>8 DEF CloseWorkers, AfterWorkers
<1>9. ASSUME NEW s \in Signals, AllClosed(s)
      PROVE  StoresCloseLast'
  BY <1>9 DEF AllClosed, AfterWorkers
<1>10. ASSUME NEW s \in Signals, CloseQueues(s)
      PROVE  StoresCloseLast'
  BY <1>10 DEF CloseQueues
<1>11. ASSUME NEW s \in Signals, DisconnectRedis(s)
      PROVE  StoresCloseLast'
  BY <1>11 DEF DisconnectRedis
<1>12. ASSUME NEW s \in Signals, DisconnectDatabase(s)
      PROVE  StoresCloseLast'
  BY <1>12 DEF DisconnectDatabase
<1> QED
  BY <1>1, <1>2, <1>3, <1>4, <1>5, <1>6, <1>7, <1>8, <1>9, <1>10, <1>11, <1>12
     DEF DownNext, StartTimer, TakeJob, FinishJob, WorkerClosed, GiveUp, ShutdownError,
         ForceExit, downVars

LEMMA NextWorkersEndListed ==
    ASSUME DownTypeOK, WorkersEndListed, [DownNext]_downVars
    PROVE  WorkersEndListed'
<1> USE DEF DownTypeOK, WorkersEndListed, PastWorkers, WaitedFor
<1>1. ASSUME StartWorkers, \A k \in Kinds : workers[k] = "none", UNCHANGED <<stage, closing>>
      PROVE  WorkersEndListed'
  BY <1>1 DEF StartWorkers
<1>2. CASE RedisReady \/ StartTimer
  BY <1>1, <1>2 DEF RedisReady, StartTimer
<1>3. ASSUME NEW k \in Kinds, TakeJob(k)
      PROVE  WorkersEndListed'
  BY <1>3 DEF TakeJob
<1>4. ASSUME NEW k \in Kinds, FinishJob(k)
      PROVE  WorkersEndListed'
  BY <1>4 DEF FinishJob
<1>5. ASSUME NEW k \in Kinds, WorkerClosed(k) \/ GiveUp(k)
      PROVE  WorkersEndListed'
  BY <1>5 DEF WorkerClosed, GiveUp
<1>6. ASSUME NEW s \in Signals, Signal(s) \/ HttpClosed(s)
      PROVE  WorkersEndListed'
  BY <1>6 DEF Signal, HttpClosed
<1>7. ASSUME NEW s \in Signals, CloseWorkers(s)
      PROVE  WorkersEndListed'
  <2>1. \A k \in Kinds : WaitedFor(k)' <=> WaitedFor(k)
    BY <1>7 DEF CloseWorkers
  <2>2. \A k \in Kinds : closing'[k] = "closed" => closing[k] = "closed"
    BY <1>7 DEF CloseWorkers
  <2>3. listed # {} => stage'[s] = "closing"
    BY <1>7 DEF CloseWorkers
  <2>4. \A t \in Signals : t # s => stage'[t] = stage[t]
    BY <1>7 DEF CloseWorkers
  <2>5. UNCHANGED <<workers, listed, late>>
    BY <1>7 DEF CloseWorkers
  <2> QED BY <2>1, <2>2, <2>3, <2>4, <2>5
<1>8. ASSUME NEW s \in Signals, AllClosed(s)
      PROVE  WorkersEndListed'
  BY <1>8 DEF AllClosed
<1>9. ASSUME NEW s \in Signals,
             CloseQueues(s) \/ DisconnectRedis(s) \/ DisconnectDatabase(s)
      PROVE  WorkersEndListed'
  BY <1>9 DEF CloseQueues, DisconnectRedis, DisconnectDatabase
<1>10. ASSUME UNCHANGED <<stage, workers, listed, closing, late>>
      PROVE  WorkersEndListed'
  BY <1>10
<1> QED
  BY <1>2, <1>3, <1>4, <1>5, <1>6, <1>7, <1>8, <1>9, <1>10
     DEF DownNext, AcceptRequest, OpenQueue, FinishRequest, RedisLost, ShutdownError,
         ForceExit, downVars

\* Redis and the queues are closed under nobody who was to be waited for, for
\* any number of signals, requests and workers: NothingRunsPastTheStores.
THEOREM NothingRunsPastTheStoresHolds == DownSpec => []NothingRunsPastTheStores
<1>1. DownInv /\ [DownNext]_downVars => DownInv'
  BY DownNextTypeOK, NextStoresCloseLast, NextWorkersEndListed DEF DownInv
<1>2. DownInv => NothingRunsPastTheStores
  BY DEF DownInv, NothingRunsPastTheStores, StoresCloseLast, WorkersEndListed, WaitedFor,
         PastHttp, PastWorkers, DownTypeOK
<1> QED BY DownInitInv, <1>1, <1>2, PTL DEF DownSpec
----------------------------------------------------------------------------
\* Audit events

USE AuditTrailAssumption

\* The ids an audit job may have.
JobIds == [event : {EventOf[c] : c \in Changes}, bucket : 0 .. MaxBucket]

\* The id the event of a change was handed over under.
IdOf(c) == [event |-> EventOf[c], bucket |-> changes[c].at]

\* A job to be done is the own event of a change handed over, and has been
\* given back as often as a worker died at it.
JobsAreOwn ==
    \A id \in DOMAIN jobs :
        /\ HandedOver(jobs[id].of) /\ id = IdOf(jobs[id].of)
        /\ deaths[jobs[id].of] >= jobs[id].stalls

\* An id whose job is over was that of an event accounted for.
OfOneDone(id) ==
    \E d \in Changes : /\ HandedOver(d) /\ id = IdOf(d)
                       /\ d \in processed \/ deaths[d] > MaxStalls

LogsAreEnded ==
    /\ \A i \in DOMAIN doneLog : OfOneDone(doneLog[i])
    /\ \A i \in DOMAIN lostLog : OfOneDone(lostLog[i])

AuditInv ==
    /\ AuditTypeOK
    /\ DOMAIN jobs \subseteq JobIds
    /\ doneLog \in Seq(JobIds) /\ lostLog \in Seq(JobIds)
    /\ \A c \in Changes : changes[c].pc = "audited" => c \in Notifies
    /\ JobsAreOwn /\ LogsAreEnded
    /\ EventsReachTheWorker

LEMMA AuditInitInv == AuditInit => AuditInv
<1> SUFFICES ASSUME AuditInit PROVE AuditInv
    OBVIOUS
<1>1. /\ doneLog = <<>> /\ Len(doneLog) = 0 /\ DOMAIN doneLog = {} /\ doneLog \in Seq(JobIds)
      /\ lostLog = <<>> /\ Len(lostLog) = 0 /\ DOMAIN lostLog = {} /\ lostLog \in Seq(JobIds)
  BY DEF AuditInit
<1>2. DOMAIN jobs = {}
  BY DEF AuditInit
<1>3. changes \in [Changes -> Change] /\ \A c \in Changes : changes[c].pc = "none"
  BY DEF AuditInit, Change, ChangeSteps
<1>4. deaths \in [Changes -> Nat] /\ processed \subseteq Changes
  BY DEF AuditInit
<1>5. AuditTypeOK
  BY <1>1, <1>2, <1>3, <1>4 DEF AuditInit, AuditTypeOK
<1>6. JobsAreOwn /\ LogsAreEnded /\ EventsReachTheWorker
  BY <1>1, <1>2, <1>3 DEF JobsAreOwn, LogsAreEnded, EventsReachTheWorker, HandedOver
<1> QED BY <1>1, <1>2, <1>3, <1>5, <1>6 DEF AuditInv

\* The job of a change handed over now has one of the ids.
LEMMA JobIdIsTyped ==
    ASSUME AuditTypeOK, NEW c \in Changes
    PROVE  JobId(c) \in JobIds
BY DEF AuditTypeOK, JobId, JobIds

\* A sequence, or all but its first element.
LEMMA SuffixKeeps ==
    ASSUME NEW all \in Seq(JobIds), NEW first \in 1 .. 2, first <= Len(all) + 1
    PROVE  /\ SubSeq(all, first, Len(all)) \in Seq(JobIds)
           /\ Len(SubSeq(all, first, Len(all))) = Len(all) + 1 - first
           /\ \A i \in DOMAIN SubSeq(all, first, Len(all)) :
                \E j \in DOMAIN all : SubSeq(all, first, Len(all))[i] = all[j]
<1> DEFINE kept == SubSeq(all, first, Len(all))
<1>1. Len(all) \in Nat /\ DOMAIN all = 1 .. Len(all) /\ first \in Int
  OBVIOUS
<1>2. \A i \in first .. Len(all) : all[i] \in JobIds
  BY <1>1
<1>3. /\ kept \in Seq(JobIds)
      /\ Len(kept) = IF first <= Len(all) THEN Len(all) - first + 1 ELSE 0
      /\ \A i \in 1 .. Len(all) - first + 1 : kept[i] = all[first + i - 1]
  BY <1>1, <1>2, SubSeqProperties
<1> HIDE DEF kept
<1>4. Len(kept) = Len(all) + 1 - first /\ DOMAIN kept = 1 .. Len(kept)
  BY <1>1, <1>3
<1>5. \A i \in DOMAIN kept : kept[i] = all[first + i - 1] /\ first + i - 1 \in DOMAIN all
  BY <1>1, <1>3, <1>4
<1> QED BY <1>3, <1>4, <1>5 DEF kept

\* A finished set takes an id.
LEMMA KeepingKeeps ==
    ASSUME NEW log \in Seq(JobIds), NEW id \in JobIds, NEW keep \in Nat, Len(log) <= keep
    PROVE  /\ Keeping(log, id, keep) \in Seq(JobIds)
           /\ Len(Keeping(log, id, keep)) <= keep
           /\ \A i \in DOMAIN Keeping(log, id, keep) :
                 \/ Keeping(log, id, keep)[i] = id
                 \/ \E k \in DOMAIN log : Keeping(log, id, keep)[i] = log[k]
<1> DEFINE all == Append(log, id)
           kept == Keeping(log, id, keep)
<1>1. /\ all \in Seq(JobIds) /\ Len(all) = Len(log) + 1 /\ Len(log) \in Nat
      /\ \A j \in DOMAIN all : all[j] = id \/ (j \in DOMAIN log /\ all[j] = log[j])
  OBVIOUS
<1>2. PICK first \in 1 .. 2 : /\ kept = SubSeq(all, first, Len(all))
                             /\ first = IF Len(all) > keep THEN 2 ELSE 1
  BY DEF Keeping
<1> HIDE DEF all, kept
<1>3. first <= Len(all) + 1
  BY <1>1
<1>4. /\ kept \in Seq(JobIds)
      /\ Len(kept) = Len(all) + 1 - first
      /\ \A i \in DOMAIN kept : \E k \in DOMAIN all : kept[i] = all[k]
  <2>1. /\ SubSeq(all, first, Len(all)) \in Seq(JobIds)
        /\ Len(SubSeq(all, first, Len(all))) = Len(all) + 1 - first
        /\ \A i \in DOMAIN SubSeq(all, first, Len(all)) :
              \E k \in DOMAIN all : SubSeq(all, first, Len(all))[i] = all[k]
    BY <1>1, <1>3, SuffixKeeps
  <2> QED BY <1>2, <2>1, Zenon
<1>5. Len(kept) <= keep
  BY <1>1, <1>2, <1>4
<1> QED BY <1>1, <1>4, <1>5 DEF kept

\* Steps that move no job: what was handed over stays so, and what came to be
\* handed over is accounted for.
LEMMA JobsStay ==
    ASSUME AuditInv, changes' \in [Changes -> Change], UNCHANGED jobVars,
           bucket' \in 0 .. MaxBucket, redisUp' \in BOOLEAN, notices' \subseteq Notifies,
           \A c \in Changes : changes'[c].pc = "audited" => c \in Notifies,
           \A c \in Changes : HandedOver(c)' => HandedOver(c),
           \A c \in Changes : HandedOver(c) => HandedOver(c)' /\ changes'[c].at = changes[c].at
    PROVE  AuditInv'
<1>1. UNCHANGED <<jobs, doneLog, lostLog, processed, deaths>>
  BY DEF jobVars
<1>2. AuditTypeOK'
  BY <1>1 DEF AuditInv, AuditTypeOK, AuditJob
<1>3. \A c \in Changes : HandedOver(c) => IdOf(c)' = IdOf(c)
  BY DEF IdOf
<1>4. \A c \in Changes : Accounted(c)' <=> Accounted(c)
  BY <1>1 DEF Accounted
<1>5. JobsAreOwn'
  BY <1>1, <1>3 DEF AuditInv, AuditTypeOK, AuditJob, JobsAreOwn
<1>6. \A id : OfOneDone(id) => OfOneDone(id)'
  BY <1>1, <1>3 DEF OfOneDone
<1>7. LogsAreEnded'
  BY <1>1, <1>6 DEF AuditInv, LogsAreEnded
<1>8. EventsReachTheWorker'
  <2> SUFFICES ASSUME NEW c \in Changes, HandedOver(c)'
               PROVE  \E d \in Changes :
                         /\ HandedOver(d)' /\ EventOf[d] = EventOf[c]
                         /\ changes'[d].at = changes'[c].at /\ Accounted(d)'
      BY DEF EventsReachTheWorker
  <2>1. PICK d \in Changes : /\ HandedOver(d) /\ EventOf[d] = EventOf[c]
                             /\ changes[d].at = changes[c].at /\ Accounted(d)
    BY DEF AuditInv, EventsReachTheWorker
  <2> QED BY <1>4, <2>1
<1> QED BY <1>1, <1>2, <1>5, <1>7, <1>8 DEF AuditInv

\* Steps of the worker: nobody is handed over, and a job that goes has been
\* processed or has stalled too often.
LEMMA WorkerStep ==
    ASSUME AuditInv, UNCHANGED <<bucket, redisUp, changes, notices>>,
           processed' \subseteq Changes, processed \subseteq processed',
           deaths' \in [Changes -> Nat], \A c \in Changes : deaths'[c] >= deaths[c],
           DOMAIN jobs' \subseteq DOMAIN jobs,
           \A id \in DOMAIN jobs' : /\ jobs'[id] \in AuditJob /\ jobs'[id].of = jobs[id].of
                                    /\ deaths'[jobs[id].of] >= jobs'[id].stalls,
           doneLog' \in Seq(JobIds), Len(doneLog') <= KeepDone,
           lostLog' \in Seq(JobIds), Len(lostLog') <= KeepLost,
           \A id \in DOMAIN jobs \ DOMAIN jobs' :
              jobs[id].of \in processed' \/ deaths'[jobs[id].of] > MaxStalls,
           \A i \in DOMAIN doneLog' : \/ doneLog'[i] \in DOMAIN jobs \ DOMAIN jobs'
                                      \/ \E k \in DOMAIN doneLog : doneLog'[i] = doneLog[k],
           \A i \in DOMAIN lostLog' : \/ lostLog'[i] \in DOMAIN jobs \ DOMAIN jobs'
                                      \/ \E k \in DOMAIN lostLog : lostLog'[i] = lostLog[k]
    PROVE  AuditInv'
<1>1. AuditTypeOK'
  BY DEF AuditInv, AuditTypeOK
<1>2. \A c \in Changes : (HandedOver(c)' <=> HandedOver(c)) /\ IdOf(c)' = IdOf(c)
  BY DEF HandedOver, IdOf
<1>3. \A id \in DOMAIN jobs : jobs[id].of \in Changes
  BY DEF AuditInv, AuditTypeOK, AuditJob
<1>4. \A c \in Changes : deaths[c] > MaxStalls => deaths'[c] > MaxStalls
  BY AuditTrailAssumption DEF AuditInv, AuditTypeOK
<1>5. \A c \in Changes : Accounted(c) => Accounted(c)'
  BY <1>4 DEF Accounted
<1>6. JobsAreOwn'
  BY <1>2, <1>3 DEF AuditInv, JobsAreOwn
<1>7. \A id : OfOneDone(id) => OfOneDone(id)'
  BY <1>2, <1>4 DEF OfOneDone
<1>8. ASSUME NEW id \in DOMAIN jobs \ DOMAIN jobs'
      PROVE  OfOneDone(id)'
  <2>1. PICK d \in Changes : d = jobs[id].of
    BY <1>3
  <2>2. HandedOver(d) /\ id = IdOf(d)
    BY <2>1 DEF AuditInv, JobsAreOwn
  <2>3. HandedOver(d)' /\ id = IdOf(d)'
    BY <1>2, <2>2
  <2>4. d \in processed' \/ deaths'[d] > MaxStalls
    BY <2>1
  <2> QED BY <2>3, <2>4 DEF OfOneDone
<1>9. LogsAreEnded'
  BY <1>7, <1>8 DEF AuditInv, LogsAreEnded
<1>10. EventsReachTheWorker'
  BY <1>2, <1>5 DEF AuditInv, EventsReachTheWorker
<1> QED BY <1>1, <1>6, <1>9, <1>10 DEF AuditInv

LEMMA EnqueueKeepsInv ==
    ASSUME AuditInv, NEW c \in Changes, EnqueueAuditEvent(c)
    PROVE  AuditInv'
<1>1. /\ changes' = [changes EXCEPT ![c] =
            [pc |-> IF c \in Notifies THEN "audited" ELSE "over", at |-> bucket, lost |-> ~redisUp]]
      /\ changes[c].pc = "committed"
      /\ UNCHANGED <<bucket, redisUp, doneLog, lostLog, notices, processed, deaths>>
  BY DEF EnqueueAuditEvent
<1>2. JobId(c) \in JobIds /\ JobId(c) = [event |-> EventOf[c], bucket |-> bucket]
  BY JobIdIsTyped DEF AuditInv, JobId
<1>3. /\ changes' \in [Changes -> Change]
      /\ \A d \in Changes : d # c => changes'[d] = changes[d]
      /\ changes'[c].pc \in {"audited", "over"} /\ changes'[c].at = bucket
      /\ changes'[c].lost = ~redisUp /\ (changes'[c].pc = "audited" => c \in Notifies)
  BY <1>1 DEF AuditInv, AuditTypeOK, Change, ChangeSteps
<1>4. ~HandedOver(c) /\ \A d \in Changes : HandedOver(d) => HandedOver(d)' /\ IdOf(d)' = IdOf(d)
  BY <1>1, <1>3 DEF HandedOver, IdOf
<1>5. HandedOver(c)' => redisUp /\ IdOf(c)' = JobId(c)
  BY <1>2, <1>3 DEF HandedOver, IdOf
<1>6. \A d \in Changes : HandedOver(d)' => d = c \/ HandedOver(d)
  BY <1>3 DEF HandedOver
<1>7. \A id : OfOneDone(id) => OfOneDone(id)'
  BY <1>1, <1>4 DEF OfOneDone
<1>8. LogsAreEnded'
  BY <1>1, <1>7 DEF AuditInv, LogsAreEnded
<1>9. CASE ~redisUp \/ JobId(c) \in KnownIds
  <2>1. UNCHANGED jobs
    BY <1>9 DEF EnqueueAuditEvent
  <2>2. AuditTypeOK'
    BY <1>1, <1>3, <2>1 DEF AuditInv, AuditTypeOK
  <2>3. JobsAreOwn'
    BY <1>1, <1>4, <2>1 DEF AuditInv, AuditTypeOK, AuditJob, JobsAreOwn
  <2>4. \A d \in Changes : Accounted(d) => Accounted(d)'
    BY <1>1, <2>1 DEF Accounted
  \* the id is that of a job still to be done, or of one that is over
  <2>5. JobId(c) \in KnownIds => \E d \in Changes : HandedOver(d) /\ IdOf(d) = JobId(c) /\ Accounted(d)
    <3>1. \A id \in DOMAIN jobs : \E d \in Changes : HandedOver(d) /\ IdOf(d) = id /\ Accounted(d)
      BY DEF AuditInv, AuditTypeOK, AuditJob, JobsAreOwn, Accounted
    <3>2. \A id : OfOneDone(id) => \E d \in Changes : HandedOver(d) /\ IdOf(d) = id /\ Accounted(d)
      BY DEF OfOneDone, Accounted
    <3> QED BY <3>1, <3>2 DEF AuditInv, LogsAreEnded, KnownIds
  <2>6. EventsReachTheWorker'
    <3> SUFFICES ASSUME NEW d \in Changes, HandedOver(d)'
                 PROVE  \E e \in Changes :
                           /\ HandedOver(e)' /\ EventOf[e] = EventOf[d]
                           /\ changes'[e].at = changes'[d].at /\ Accounted(e)'
        BY DEF EventsReachTheWorker
    <3>1. CASE d = c
      <4>1. PICK e \in Changes : HandedOver(e) /\ IdOf(e) = JobId(c) /\ Accounted(e)
        BY <1>5, <1>9, <2>5, <3>1
      <4>2. EventOf[e] = EventOf[c] /\ changes[e].at = bucket /\ e # c
        BY <1>2, <1>4, <4>1 DEF IdOf
      <4> QED BY <1>3, <1>4, <2>4, <3>1, <4>1, <4>2
    <3>2. CASE d # c
      <4>1. PICK e \in Changes : /\ HandedOver(e) /\ EventOf[e] = EventOf[d]
                                 /\ changes[e].at = changes[d].at /\ Accounted(e)
        BY <1>6, <3>2 DEF AuditInv, EventsReachTheWorker
      <4>2. e # c
        BY <1>4, <4>1
      <4> QED BY <1>3, <1>4, <2>4, <3>2, <4>1, <4>2
    <3> QED BY <3>1, <3>2
  <2> QED BY <1>1, <1>3, <1>8, <2>1, <2>2, <2>3, <2>6 DEF AuditInv
<1>10. CASE redisUp /\ JobId(c) \notin KnownIds
  <2> DEFINE mine == [state |-> "waiting", of |-> c, stalls |-> 0]
  <2>1. /\ DOMAIN jobs' = DOMAIN jobs \cup {JobId(c)}
        /\ \A id \in DOMAIN jobs : jobs'[id] = jobs[id]
        /\ JobId(c) \notin DOMAIN jobs /\ jobs'[JobId(c)] = mine
    BY <1>10 DEF EnqueueAuditEvent, KnownIds
  <2>2. mine \in AuditJob /\ mine.of = c /\ mine.stalls = 0
    BY AuditTrailAssumption DEF AuditJob
  <2> HIDE DEF mine
  <2>3. AuditTypeOK'
    <3>1. \A id \in DOMAIN jobs' : jobs'[id] \in AuditJob
      BY <2>1, <2>2 DEF AuditInv, AuditTypeOK
    <3> QED BY <1>1, <1>3, <3>1 DEF AuditInv, AuditTypeOK
  <2>4. HandedOver(c)'
    BY <1>3, <1>10 DEF HandedOver
  <2>5. JobsAreOwn'
    <3>1. \A id \in DOMAIN jobs : jobs[id].of \in Changes
      BY DEF AuditInv, AuditTypeOK, AuditJob
    <3>2. deaths[c] >= 0
      BY DEF AuditInv, AuditTypeOK
    <3>3. ASSUME NEW id \in DOMAIN jobs
          PROVE  /\ HandedOver(jobs[id].of)' /\ id = IdOf(jobs[id].of)'
                 /\ deaths'[jobs'[id].of] >= jobs'[id].stalls
      <4>1. PICK d \in Changes : d = jobs[id].of
        BY <3>1
      <4>2. HandedOver(d) /\ id = IdOf(d) /\ deaths[d] >= jobs[id].stalls
        BY <4>1 DEF AuditInv, JobsAreOwn
      <4>3. jobs'[id].of = d /\ jobs'[id].stalls = jobs[id].stalls
        BY <2>1, <4>1
      <4>4. HandedOver(d)' /\ id = IdOf(d)'
        BY <1>4, <4>2
      <4> QED BY <1>1, <4>2, <4>3, <4>4 DEF HandedOver, IdOf
    <3>4. /\ jobs'[JobId(c)].of = c /\ jobs'[JobId(c)].stalls = 0
          /\ HandedOver(c)' /\ JobId(c) = IdOf(c)' /\ deaths'[c] >= 0
      BY <1>1, <1>5, <2>1, <2>2, <2>4, <3>2
    <3> SUFFICES ASSUME NEW id \in DOMAIN jobs'
                 PROVE  /\ HandedOver(jobs[id].of)' /\ id = IdOf(jobs[id].of)'
                        /\ deaths'[jobs'[id].of] >= jobs'[id].stalls
        BY DEF JobsAreOwn
    <3>5. CASE id \in DOMAIN jobs
      BY <3>3, <3>5
    <3>6. CASE id = JobId(c)
      <4>1. jobs'[id].of = c /\ jobs'[id].stalls = 0
        BY <3>4, <3>6
      <4> QED BY <3>4, <3>6, <4>1 DEF HandedOver, IdOf
    <3> QED BY <2>1, <3>5, <3>6
  <2>6. \A d \in Changes : Accounted(d) => Accounted(d)'
    BY <1>1, <2>1 DEF Accounted
  <2>7. Accounted(c)'
    BY <2>1, <2>2 DEF Accounted
  <2>8. EventsReachTheWorker'
    <3> SUFFICES ASSUME NEW d \in Changes, HandedOver(d)'
                 PROVE  \E e \in Changes :
                           /\ HandedOver(e)' /\ EventOf[e] = EventOf[d]
                           /\ changes'[e].at = changes'[d].at /\ Accounted(e)'
        BY DEF EventsReachTheWorker
    <3>1. CASE d = c
      BY <2>4, <2>7, <3>1
    <3>2. CASE d # c
      <4>1. PICK e \in Changes : /\ HandedOver(e) /\ EventOf[e] = EventOf[d]
                                 /\ changes[e].at = changes[d].at /\ Accounted(e)
        BY <1>6, <3>2 DEF AuditInv, EventsReachTheWorker
      <4>2. e # c
        BY <1>4, <4>1
      <4> QED BY <1>3, <1>4, <2>6, <3>2, <4>1, <4>2
    <3> QED BY <3>1, <3>2
  <2>9. DOMAIN jobs' \subseteq JobIds
    BY <1>2, <2>1 DEF AuditInv
  <2> QED BY <1>1, <1>3, <1>8, <2>3, <2>5, <2>8, <2>9 DEF AuditInv
<1> QED BY <1>9, <1>10

LEMMA AuditNextInv == AuditInv /\ [AuditNext]_auditVars => AuditInv'
<1> SUFFICES ASSUME AuditInv, [AuditNext]_auditVars
             PROVE  AuditInv'
    OBVIOUS
<1>a. /\ bucket \in 0 .. MaxBucket /\ redisUp \in BOOLEAN /\ notices \subseteq Notifies
      /\ changes \in [Changes -> Change]
      /\ \A c \in Changes : changes[c].pc = "audited" => c \in Notifies
  BY DEF AuditInv, AuditTypeOK
<1>b. \A id \in DOMAIN jobs :
         /\ jobs[id] \in AuditJob /\ jobs[id].of \in Changes /\ id \in JobIds
         /\ deaths[jobs[id].of] >= jobs[id].stalls /\ jobs[id].stalls \in 0 .. MaxStalls
  BY DEF AuditInv, AuditTypeOK, AuditJob, JobsAreOwn
<1>c. /\ doneLog \in Seq(JobIds) /\ Len(doneLog) <= KeepDone
      /\ lostLog \in Seq(JobIds) /\ Len(lostLog) <= KeepLost
      /\ processed \subseteq Changes /\ deaths \in [Changes -> Nat]
      /\ MaxStalls \in Nat /\ KeepDone \in Nat /\ KeepLost \in Nat
  BY DEF AuditInv, AuditTypeOK
<1>0. ASSUME NEW c \in Changes, CommitChange(c)
      PROVE  AuditInv'
  <2>1. /\ changes' = [changes EXCEPT ![c].pc = "committed"] /\ changes[c].pc = "none"
        /\ UNCHANGED <<bucket, redisUp, notices, jobVars>>
    BY <1>0 DEF CommitChange
  <2>2. changes' \in [Changes -> Change]
    BY <1>a, <2>1 DEF Change, ChangeSteps
  <2> QED BY <1>a, <2>1, <2>2, JobsStay DEF HandedOver, Change
<1>1. ASSUME NEW c \in Changes, ApiDies(c)
      PROVE  AuditInv'
  <2>1. UNCHANGED <<bucket, redisUp, notices, jobVars>>
    BY <1>1 DEF ApiDies
  <2>2. /\ changes' \in [Changes -> Change]
        /\ \A d \in Changes : d # c => changes'[d] = changes[d]
        /\ changes'[c].at = changes[c].at /\ changes'[c].pc = "over"
    BY <1>1, <1>a, ZenonT(60) DEF ApiDies, Change, ChangeSteps
  <2>3. HandedOver(c)' <=> HandedOver(c)
    BY <1>1, <1>a, <2>2 DEF ApiDies, HandedOver, Change
  <2> QED BY <1>a, <2>1, <2>2, <2>3, JobsStay DEF HandedOver
<1>2. ASSUME NEW c \in Changes, EnqueueAuditEvent(c)
      PROVE  AuditInv'
  BY <1>2, EnqueueKeepsInv
<1>3. ASSUME NEW c \in Changes, EnqueueNotification(c)
      PROVE  AuditInv'
  <2>1. /\ changes' = [changes EXCEPT ![c].pc = "over"] /\ changes[c].pc = "audited"
        /\ notices' = IF redisUp THEN notices \cup {c} ELSE notices
        /\ UNCHANGED <<bucket, redisUp, jobVars>>
    BY <1>3 DEF EnqueueNotification
  <2>2. changes' \in [Changes -> Change] /\ c \in Notifies
    BY <1>a, <2>1 DEF Change, ChangeSteps
  <2> QED BY <1>a, <2>1, <2>2, JobsStay DEF HandedOver, Change
<1>4. ASSUME NEW c \in Changes, Notify(c)
      PROVE  AuditInv'
  BY <1>4, <1>a, JobsStay DEF Notify, HandedOver
<1>5. ASSUME NEW id \in DOMAIN jobs, TakeAuditJob(id)
      PROVE  AuditInv'
  <2>1. /\ jobs' = [jobs EXCEPT ![id].state = "active"]
        /\ UNCHANGED <<bucket, redisUp, changes, doneLog, lostLog, notices, processed, deaths>>
    BY <1>5 DEF TakeAuditJob
  <2>2. /\ DOMAIN jobs' = DOMAIN jobs
        /\ \A other \in DOMAIN jobs' : /\ jobs'[other] \in AuditJob
                                       /\ jobs'[other].of = jobs[other].of
                                       /\ deaths'[jobs[other].of] >= jobs'[other].stalls
    BY <1>b, <2>1 DEF AuditJob
  <2>3. \A d \in Changes : deaths'[d] >= deaths[d]
    BY <1>c, <2>1
  <2> QED BY <1>c, <2>1, <2>2, <2>3, WorkerStep
<1>6. ASSUME NEW id \in DOMAIN jobs, FinishAuditJob(id)
      PROVE  AuditInv'
  <2>1. /\ DOMAIN jobs' = DOMAIN jobs \ {id}
        /\ \A other \in DOMAIN jobs' : jobs'[other] = jobs[other]
        /\ processed' = processed \cup {jobs[id].of}
        /\ doneLog' = Keeping(doneLog, id, KeepDone)
        /\ UNCHANGED <<bucket, redisUp, changes, lostLog, notices, deaths>>
    BY <1>6 DEF FinishAuditJob, Gone
  <2>2. /\ doneLog' \in Seq(JobIds) /\ Len(doneLog') <= KeepDone
        /\ \A i \in DOMAIN doneLog' :
              doneLog'[i] = id \/ \E k \in DOMAIN doneLog : doneLog'[i] = doneLog[k]
    BY <1>b, <1>c, <2>1, KeepingKeeps
  <2>3. \A d \in Changes : deaths'[d] >= deaths[d]
    BY <1>c, <2>1
  <2>4. \A other \in DOMAIN jobs \ DOMAIN jobs' : other = id
    BY <2>1
  <2> QED BY <1>b, <1>c, <2>1, <2>2, <2>3, <2>4, WorkerStep
<1>10. ASSUME NEW id \in DOMAIN jobs, ReturnAuditJob(id)
       PROVE  AuditInv'
  <2> DEFINE own == jobs[id].of
  <2>1. /\ deaths' = [deaths EXCEPT ![own] = @ + 1]
        /\ UNCHANGED <<bucket, redisUp, changes, doneLog, notices, processed>>
    BY <1>10 DEF ReturnAuditJob
  <2>2. own \in Changes /\ deaths[own] \in Nat /\ deaths[own] >= jobs[id].stalls
    BY <1>b, <1>c
  <2>3. /\ deaths' \in [Changes -> Nat] /\ deaths'[own] = deaths[own] + 1
        /\ \A d \in Changes : deaths'[d] >= deaths[d]
    BY <1>c, <2>1, <2>2
  <2>4. CASE jobs[id].stalls < MaxStalls
    <3>1. /\ jobs' = [jobs EXCEPT ![id].state = "waiting", ![id].stalls = @ + 1]
          /\ UNCHANGED lostLog
      BY <1>10, <2>4 DEF ReturnAuditJob
    <3>2. /\ DOMAIN jobs' = DOMAIN jobs
          /\ \A other \in DOMAIN jobs \ {id} : jobs'[other] = jobs[other]
          /\ jobs'[id] \in AuditJob /\ jobs'[id].of = own
          /\ jobs'[id].stalls = jobs[id].stalls + 1
      <4>1. /\ DOMAIN jobs' = DOMAIN jobs
            /\ \A other \in DOMAIN jobs \ {id} : jobs'[other] = jobs[other]
            /\ jobs'[id] = [jobs[id] EXCEPT !.state = "waiting", !.stalls = @ + 1]
        BY <3>1
      <4>2. jobs[id] \in AuditJob /\ jobs[id].stalls + 1 \in 0 .. MaxStalls
        BY <1>b, <1>c, <2>4
      <4>3. /\ jobs'[id] = [state |-> "waiting", of |-> own, stalls |-> jobs[id].stalls + 1]
            /\ own \in Changes
        BY <4>1, <4>2 DEF AuditJob
      <4> QED BY <4>1, <4>2, <4>3 DEF AuditJob
    <3>3. \A other \in DOMAIN jobs' : /\ jobs'[other] \in AuditJob
                                      /\ jobs'[other].of = jobs[other].of
                                      /\ deaths'[jobs[other].of] >= jobs'[other].stalls
      <4> SUFFICES ASSUME NEW other \in DOMAIN jobs
                   PROVE  /\ jobs'[other] \in AuditJob /\ jobs'[other].of = jobs[other].of
                          /\ deaths'[jobs[other].of] >= jobs'[other].stalls
          BY <3>2
      <4>1. CASE other = id
        BY <1>b, <2>2, <2>3, <3>2, <4>1
      <4>2. CASE other # id
        <5>1. deaths'[jobs[other].of] >= deaths[jobs[other].of] /\ deaths[jobs[other].of] \in Nat
              /\ deaths'[jobs[other].of] \in Nat /\ jobs[other].stalls \in Nat
          BY <1>b, <1>c, <2>3
        <5> QED BY <1>b, <3>2, <4>2, <5>1
      <4> QED BY <4>1, <4>2
    <3> QED BY <1>c, <2>1, <2>3, <3>1, <3>2, <3>3, WorkerStep
  <2>5. CASE ~(jobs[id].stalls < MaxStalls)
    <3>1. /\ DOMAIN jobs' = DOMAIN jobs \ {id}
          /\ \A other \in DOMAIN jobs' : jobs'[other] = jobs[other]
          /\ lostLog' = Keeping(lostLog, id, KeepLost)
      BY <1>10, <2>5 DEF ReturnAuditJob, Gone
    <3>2. /\ lostLog' \in Seq(JobIds) /\ Len(lostLog') <= KeepLost
          /\ \A i \in DOMAIN lostLog' :
                lostLog'[i] = id \/ \E k \in DOMAIN lostLog : lostLog'[i] = lostLog[k]
      BY <1>b, <1>c, <3>1, KeepingKeeps
    <3>3. deaths'[own] > MaxStalls
      BY <1>b, <1>c, <2>2, <2>3, <2>5
    <3>4. \A other \in DOMAIN jobs' : /\ jobs'[other] \in AuditJob
                                      /\ jobs'[other].of = jobs[other].of
                                      /\ deaths'[jobs[other].of] >= jobs'[other].stalls
      <4> SUFFICES ASSUME NEW other \in DOMAIN jobs'
                   PROVE  /\ jobs'[other] \in AuditJob /\ jobs'[other].of = jobs[other].of
                          /\ deaths'[jobs[other].of] >= jobs'[other].stalls
          OBVIOUS
      <4>1. other \in DOMAIN jobs /\ jobs'[other] = jobs[other]
        BY <3>1
      <4>2. deaths'[jobs[other].of] >= deaths[jobs[other].of] /\ deaths[jobs[other].of] \in Nat
            /\ deaths'[jobs[other].of] \in Nat /\ jobs[other].stalls \in Nat
        BY <1>b, <1>c, <2>3, <4>1
      <4> QED BY <1>b, <4>1, <4>2
    <3>5. \A other \in DOMAIN jobs \ DOMAIN jobs' : other = id
      BY <3>1
    <3> QED BY <1>c, <2>1, <2>3, <3>1, <3>2, <3>3, <3>4, <3>5, WorkerStep
  <2> QED BY <2>4, <2>5
<1>7. CASE RedisTurns
  <2>1. redisUp' \in BOOLEAN
    BY <1>7 DEF RedisTurns
  <2> QED BY <1>7, <1>a, <2>1, JobsStay DEF RedisTurns, HandedOver
<1>8. CASE FiveMinutesPass
  <2>1. bucket' \in 0 .. MaxBucket
    BY <1>8, <1>a DEF FiveMinutesPass
  <2> QED BY <1>8, <1>a, <2>1, JobsStay DEF FiveMinutesPass, HandedOver
<1>9. CASE UNCHANGED auditVars
  BY <1>9, <1>a, JobsStay DEF auditVars, HandedOver
<1> QED BY <1>0, <1>1, <1>2, <1>3, <1>4, <1>5, <1>6, <1>7, <1>8, <1>9, <1>10 DEF AuditNext

\* The type invariant, for any changes, buckets and number of jobs kept.
THEOREM AuditTypeCorrect == AuditSpec => []AuditTypeOK
<1>1. AuditInv => AuditTypeOK
  BY DEF AuditInv
<1> QED BY AuditInitInv, AuditNextInv, <1>1, PTL DEF AuditSpec

\* An event that was handed over, or the one it was folded into, is taken to
\* the worker or costs more workers than BullMQ allows, for any changes and
\* any number of jobs kept.
THEOREM EventsReachTheWorkerHolds == AuditSpec => []EventsReachTheWorker
<1>1. AuditInv => EventsReachTheWorker
  BY DEF AuditInv
<1> QED BY AuditInitInv, AuditNextInv, <1>1, PTL DEF AuditSpec

HIDE AuditTrailAssumption
----------------------------------------------------------------------------
\* Provider calls

USE ProviderCallsAssumption

\* A call that waits or reads has used no more attempts than it has.
CallInv ==
    /\ CallTypeOK
    /\ \A c \in Calls : calls[c].pc = "idle" => calls[c].sent = 0
    /\ \A c \in Calls : calls[c].pc = "backoff" => calls[c].sent <= Retries[c]

LEMMA CallInitInv == CallInit => CallInv
BY DEF CallInit, CallInv, CallTypeOK, Call, CallSteps, Answers

LEMMA CallNextInv == CallInv /\ [CallNext]_callVars => CallInv'
<1> SUFFICES ASSUME CallInv, [CallNext]_callVars
             PROVE  CallInv'
    OBVIOUS
<1> USE DEF CallInv, CallTypeOK, Call, CallSteps, Answers
<1>1. ASSUME NEW c \in Calls, StartCall(c) \/ SendAgain(c)
      PROVE  CallInv'
  BY <1>1 DEF StartCall, SendAgain, Send
<1>2. ASSUME NEW c \in Calls, RetryOrGiveUp(c)
      PROVE  CallInv'
  BY <1>2 DEF RetryOrGiveUp
<1>3. ASSUME NEW c \in Calls, NEW how \in {"answered", "failed"}, EndCall(c, how)
      PROVE  CallInv'
  BY <1>3 DEF EndCall
<1>4. ASSUME NEW c \in Calls, NEW status \in HttpStatuses, HeadersArrive(c, status)
      PROVE  CallInv'
  BY <1>4 DEF HeadersArrive, HttpStatuses
<1>5. CASE UNCHANGED callVars
  BY <1>5 DEF callVars
<1> QED
  BY <1>1, <1>2, <1>3, <1>4, <1>5
     DEF CallNext, AbortAttempt, ErrorEnds, ConnectionFails, BodyEnds

\* The type invariant, which bounds the attempts of every call by its retries
\* and one, for any calls and any number of retries.
THEOREM CallTypeCorrect == CallSpec => []CallTypeOK
<1>1. CallInv => CallTypeOK
  BY DEF CallInv
<1> QED BY CallInitInv, CallNextInv, <1>1, PTL DEF CallSpec

HIDE ProviderCallsAssumption
----------------------------------------------------------------------------
\* The components together: the part of a run that moves takes steps of its
\* own, the others stay where they start, so what is proved of each component
\* alone holds of the run.

LEMMA EachStarts ==
    ASSUME ServicesInit
    PROVE  /\ ConvInit /\ SessInit /\ KeyInit /\ LimitInit /\ DownInit /\ AccessInit
           /\ RetInit /\ IndexInit /\ CallInit /\ AuditInit /\ HttpInit
BY DEF ServicesInit

LEMMA EachMoves ==
    ASSUME [ServicesNext]_servicesVars
    PROVE  /\ [ConvNext]_convVars /\ [SessNext]_sessVars /\ [KeyNext]_keyVars
           /\ [LimitNext]_limitVars /\ [DownNext]_downVars /\ [AccessNext]_accessVars
           /\ [RetNext]_retVars /\ [IndexNext]_indexVars /\ [CallNext]_callVars
           /\ [AuditNext]_auditVars /\ [HttpNext]_httpVars
BY DEF ServicesNext, servicesVars, Conversing, TalkPart, ListingPart, LimitPart, HttpPart

\* The specification the run services checks implies that of every component.
THEOREM EachComponent ==
    ServicesSpec =>
        /\ ConvSpec /\ SessSpec /\ KeySpec /\ LimitSpec /\ DownSpec /\ AccessSpec
        /\ RetSpec /\ IndexSpec /\ CallSpec /\ AuditSpec /\ HttpSpec
BY EachStarts, EachMoves, PTL
   DEF ServicesSpec, ConvSpec, SessSpec, KeySpec, LimitSpec, DownSpec, AccessSpec,
       RetSpec, IndexSpec, CallSpec, AuditSpec, HttpSpec

\* Every variable of every component has a value of its type throughout.
THEOREM ServicesTypeCorrect == ServicesSpec => []ServicesTypeOK
<1>1. ServicesSpec =>
          /\ []ConvTypeOK /\ []SessTypeOK /\ []KeyTypeOK /\ []LimitTypeOK /\ []DownTypeOK
          /\ []AccessTypeOK /\ []RetTypeOK /\ []IndexTypeOK /\ []CallTypeOK
          /\ []AuditTypeOK /\ []HttpTypeOK
  BY EachComponent, ConvTypeCorrect, SessTypeCorrect, KeyTypeCorrect, LimitTypeCorrect,
     DownTypeCorrect, AccessTypeCorrect, RetTypeCorrect, IndexTypeCorrect,
     CallTypeCorrect, AuditTypeCorrect, HttpTypeCorrect, PTL
<1> QED BY <1>1, PTL DEF ServicesTypeOK

\* Every safety property the run services checks, of all components at once and
\* for every value of the constants.
THEOREM ServicesAreSafe ==
    ServicesSpec =>
        /\ [](AnsweredTurnsAreWhole /\ ListingsAreComplete)
        /\ [](RegistrationsAreWhole /\ WindowsAreLimited /\ NothingRunsPastTheStores)
        /\ [](FilterAgreesWithCheck /\ FusionIsFaithful /\ ContextIsFaithful)
        /\ [](IndexIsWhole /\ EventsReachTheWorker /\ HandlersAreGuarded)
        /\ NamesOutliveLaterTurns /\ SecretsDieForGood /\ AccessFollowsTheGrants
BY EachComponent, AnsweredTurnsAreWholeHolds, ListingsAreCompleteHolds,
   RegistrationsAreWholeHolds, WindowsAreLimitedHolds, NothingRunsPastTheStoresHolds,
   FilterAgreesWithCheckHolds, FusionIsFaithfulHolds, ContextIsFaithfulHolds,
   IndexIsWholeHolds, EventsReachTheWorkerHolds, HandlersAreGuardedHolds,
   NamesOutliveLaterTurnsHolds, SecretsDieForGoodHolds, AccessFollowsTheGrantsHolds, PTL
=============================================================================
