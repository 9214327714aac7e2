------------------------------ MODULE Shutdown ------------------------------
(***************************************************************************)
(* How a process ends: the API process (server.js and utils/shutdown) and  *)
(* the standalone worker process (workers/standalone), from the signal to  *)
(* the exit, with the requests and jobs that are still running, a Redis    *)
(* connection that comes and goes, and workers that start when it is ready.*)
(***************************************************************************)
EXTENDS FiniteSets

CONSTANTS
    Signals,   \* signals and unhandled rejections that arrive, each once
    Requests,  \* HTTP requests, each served once
    Kinds      \* the workers; the one called "evaluation" is on no list

VARIABLES
    process,   \* "api" or "worker", for the whole run
    stage,     \* how far the shutdown that a signal began is
    exit,      \* how the process ended
    accepting, \* does the HTTP server take connections
    requests,  \* HTTP requests
    redis,     \* the connection
    queues,    \* is one of the BullMQ queues open
    workers,   \* the workers and whether they run a job
    listed,    \* the array `workers' that closeWorkers goes through
    closing,   \* what became of a worker's close()
    late       \* history: workers were started after closeWorkers was called

downVars == <<process, stage, exit, accepting, requests, redis, queues,
              workers, listed, closing, late>>
----------------------------------------------------------------------------

Stages == {"none", "http", "workers", "closing", "queues", "redis", "database", "done"}

Running == exit = "running"

DownInit ==
    /\ process \in {"api", "worker"}
    /\ stage = [s \in Signals |-> "none"]
    /\ exit = "running"
    /\ accepting = (process = "api")
    /\ requests = [r \in Requests |-> "none"]
    /\ redis = "connecting"
    /\ queues = FALSE
    /\ workers = [k \in Kinds |-> "none"]
    /\ listed = {}
    /\ closing = [k \in Kinds |-> "no"]
    /\ late = FALSE
----------------------------------------------------------------------------
\* What runs until then

AcceptRequest(r) ==
    /\ Running /\ accepting /\ requests[r] = "none"
    /\ requests' = [requests EXCEPT ![r] = "serving"]
    /\ UNCHANGED <<process, stage, exit, accepting, redis, queues, workers,
                   listed, closing, late>>

\* A handler that enqueues opens the queue when Redis is ready.
OpenQueue(r) ==
    /\ Running /\ requests[r] = "serving" /\ redis = "ready"
    /\ queues' = TRUE
    /\ UNCHANGED <<process, stage, exit, accepting, requests, redis, workers,
                   listed, closing, late>>

FinishRequest(r) ==
    /\ Running /\ requests[r] = "serving"
    /\ requests' = [requests EXCEPT ![r] = "served"]
    /\ UNCHANGED <<process, stage, exit, accepting, redis, queues, workers,
                   listed, closing, late>>

\* startWorkers, once per process; createEvaluationWorker does not push.
StartWorkers ==
    /\ workers' = [k \in Kinds |-> "idle"]
    /\ listed' = Kinds \ {"evaluation"}
    /\ late' = (\E s \in Signals : stage[s] \notin {"none", "http", "workers"})

\* The 'ready' event: the first one starts the API's workers, whether or not
\* the process is shutting down.
RedisReady ==
    /\ Running /\ redis = "connecting"
    /\ redis' = "ready"
    /\ IF process = "api" /\ \A k \in Kinds : workers[k] = "none"
       THEN StartWorkers
       ELSE UNCHANGED <<workers, listed, late>>
    /\ UNCHANGED <<process, stage, exit, accepting, requests, queues, closing>>

RedisLost ==
    /\ Running /\ redis = "ready"
    /\ redis' = "connecting"
    /\ UNCHANGED <<process, stage, exit, accepting, requests, queues, workers,
                   listed, closing, late>>

\* The worker process starts its workers after two seconds.
StartTimer ==
    /\ Running /\ process = "worker" /\ \A k \in Kinds : workers[k] = "none"
    /\ StartWorkers
    /\ UNCHANGED <<process, stage, exit, accepting, requests, redis, queues, closing>>

TakeJob(k) ==
    /\ Running /\ workers[k] = "idle" /\ closing[k] = "no" /\ redis = "ready"
    /\ workers' = [workers EXCEPT ![k] = "busy"]
    /\ UNCHANGED <<process, stage, exit, accepting, requests, redis, queues,
                   listed, closing, late>>

FinishJob(k) ==
    /\ Running /\ workers[k] = "busy"
    /\ workers' = [workers EXCEPT ![k] = "idle"]
    /\ UNCHANGED <<process, stage, exit, accepting, requests, redis, queues,
                   listed, closing, late>>
----------------------------------------------------------------------------
\* The shutdown

\* handleSignal: only the API has isShuttingDown; it stops accepting.
Signal(s) ==
    /\ Running /\ stage[s] = "none"
    /\ process = "api" => \A o \in Signals : stage[o] = "none"
    /\ stage' = [stage EXCEPT ![s] = IF process = "api" THEN "http" ELSE "workers"]
    /\ accepting' = FALSE
    /\ UNCHANGED <<process, exit, requests, redis, queues, workers, listed,
                   closing, late>>

\* server.close calls back when the last request is served.
HttpClosed(s) ==
    /\ Running /\ stage[s] = "http"
    /\ \A r \in Requests : requests[r] # "serving"
    /\ stage' = [stage EXCEPT ![s] = "workers"]
    /\ UNCHANGED <<process, exit, accepting, requests, redis, queues, workers,
                   listed, closing, late>>

\* Only the API closes queues.
AfterWorkers == IF process = "api" THEN "queues" ELSE "redis"

\* Mutant: closeWorkers() is not awaited.
CloseWorkersAside(s) ==
    /\ Running /\ stage[s] = "workers"
    /\ stage' = [stage EXCEPT ![s] = AfterWorkers]
    /\ closing' = [k \in Kinds |-> IF k \in listed /\ closing[k] = "no"
                                   THEN "paused" ELSE closing[k]]
    /\ UNCHANGED <<process, exit, accepting, requests, redis, queues, workers,
                   listed, late>>

\* closeWorkers: no listed worker, nothing to do; otherwise each is paused
\* and closed.
CloseWorkers(s) ==
    /\ Running /\ stage[s] = "workers"
    /\ stage' = [stage EXCEPT ![s] = IF listed = {} THEN AfterWorkers ELSE "closing"]
    /\ closing' = [k \in Kinds |-> IF k \in listed /\ closing[k] = "no"
                                   THEN "paused" ELSE closing[k]]
    /\ UNCHANGED <<process, exit, accepting, requests, redis, queues, workers,
                   listed, late>>

\* close() waits for the job ...
WorkerClosed(k) ==
    /\ Running /\ closing[k] = "paused" /\ workers[k] = "idle"
    /\ closing' = [closing EXCEPT ![k] = "closed"]
    /\ UNCHANGED <<process, stage, exit, accepting, requests, redis, queues,
                   workers, listed, late>>

\* ... but not longer than five seconds, and an error counts as closed.
GiveUp(k) ==
    /\ Running /\ closing[k] = "paused"
    /\ closing' = [closing EXCEPT ![k] = "givenUp"]
    /\ UNCHANGED <<process, stage, exit, accepting, requests, redis, queues,
                   workers, listed, late>>

AllClosed(s) ==
    /\ Running /\ stage[s] = "closing"
    /\ \A k \in listed : closing[k] \in {"closed", "givenUp"}
    /\ listed' = {}
    /\ stage' = [stage EXCEPT ![s] = AfterWorkers]
    /\ UNCHANGED <<process, exit, accepting, requests, redis, queues, workers,
                   closing, late>>

CloseQueues(s) ==
    /\ Running /\ stage[s] = "queues"
    /\ queues' = FALSE
    /\ stage' = [stage EXCEPT ![s] = "redis"]
    /\ UNCHANGED <<process, exit, accepting, requests, redis, workers, listed,
                   closing, late>>

\* disconnectRedis, once QUIT is answered.
DisconnectRedis(s) ==
    /\ Running /\ stage[s] = "redis"
    /\ redis' = "quit"
    /\ stage' = [stage EXCEPT ![s] = "database"]
    /\ UNCHANGED <<process, exit, accepting, requests, queues, workers, listed,
                   closing, late>>

\* prisma.$disconnect and process.exit(0).
DisconnectDatabase(s) ==
    /\ Running /\ stage[s] = "database"
    /\ stage' = [stage EXCEPT ![s] = "done"]
    /\ exit' = "clean"
    /\ UNCHANGED <<process, accepting, requests, redis, queues, workers, listed,
                   closing, late>>

\* A step throws: process.exit(1).
ShutdownError(s) ==
    /\ Running /\ stage[s] \in {"queues", "redis", "database"}
    /\ exit' = "error"
    /\ UNCHANGED <<process, stage, accepting, requests, redis, queues, workers,
                   listed, closing, late>>

\* Mutant: the timer is started when the HTTP server has closed.
ForceExitAfterHttp ==
    /\ Running /\ process = "api" /\ \E s \in Signals : stage[s] \notin {"none", "http"}
    /\ exit' = "forced"
    /\ UNCHANGED <<process, stage, accepting, requests, redis, queues, workers,
                   listed, closing, late>>

\* The timer of the signal handler; the worker process has none.
ForceExit ==
    /\ Running /\ process = "api" /\ \E s \in Signals : stage[s] # "none"
    /\ exit' = "forced"
    /\ UNCHANGED <<process, stage, accepting, requests, redis, queues, workers,
                   listed, closing, late>>

DownNext ==
    \/ \E r \in Requests : AcceptRequest(r)
    \/ \E r \in Requests : OpenQueue(r)
    \/ \E r \in Requests : FinishRequest(r)
    \/ RedisReady
    \/ RedisLost
    \/ StartTimer
    \/ \E k \in Kinds : TakeJob(k)
    \/ \E k \in Kinds : FinishJob(k)
    \/ \E s \in Signals : Signal(s)
    \/ \E s \in Signals : HttpClosed(s)
    \/ \E s \in Signals : CloseWorkers(s)
    \/ \E k \in Kinds : WorkerClosed(k)
    \/ \E k \in Kinds : GiveUp(k)
    \/ \E s \in Signals : AllClosed(s)
    \/ \E s \in Signals : CloseQueues(s)
    \/ \E s \in Signals : DisconnectRedis(s)
    \/ \E s \in Signals : DisconnectDatabase(s)
    \/ \E s \in Signals : ShutdownError(s)
    \/ ForceExit

DownSpec == DownInit /\ [][DownNext]_downVars

\* A timer fires; nothing makes a request, a job, a connection or a close end.
DownFairness == WF_downVars(ForceExit)
----------------------------------------------------------------------------
DownTypeOK ==
    /\ process \in {"api", "worker"}
    /\ stage \in [Signals -> Stages]
    /\ exit \in {"running", "clean", "forced", "error"}
    /\ accepting \in BOOLEAN
    /\ requests \in [Requests -> {"none", "serving", "served"}]
    /\ redis \in {"connecting", "ready", "quit"}
    /\ queues \in BOOLEAN
    /\ workers \in [Kinds -> {"none", "idle", "busy"}]
    /\ listed \subseteq Kinds
    /\ closing \in [Kinds -> {"no", "paused", "closed", "givenUp"}]
    /\ late \in BOOLEAN

\* Connections are closed under nobody who was to be waited for: once Redis is
\* gone no request is being served, no queue is open, and a worker that still
\* runs a job is the evaluation worker, one whose close was given up, or one
\* that was started after the workers had been closed.
NothingRunsPastTheStores ==
    redis = "quit" =>
        /\ \A r \in Requests : requests[r] # "serving"
        /\ ~queues
        /\ \A k \in Kinds : workers[k] = "busy" =>
              k = "evaluation" \/ closing[k] = "givenUp" \/ late

\* A signal ends the API process, even with a request that never finishes, a
\* job that never ends and a Redis that never answers.
SignalsEndTheApi ==
    process = "api" /\ (\E s \in Signals : stage[s] # "none") ~> ~Running
=============================================================================
