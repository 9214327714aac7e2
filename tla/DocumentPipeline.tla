-------------------------- MODULE DocumentPipeline --------------------------
(***************************************************************************)
(* Asynchronous document processing: the HTTP handler that accepts a       *)
(* document, the BullMQ queue that carries the job, and the worker that    *)
(* extracts, embeds, stores and publishes it.                              *)
(*                                                                         *)
(* One action is one awaited call, so that other handlers run between any  *)
(* two of them.  BullMQ (the job hash, its lock, the stalled-job check,    *)
(* the retention of finished jobs) is external and modelled from the       *)
(* options the code passes it.  Left to data abstraction: errorMessage is  *)
(* determined by status (written with it, non-null exactly for FAILED), a  *)
(* delayed retry is a waiting job, and the organization of a job is the    *)
(* one its document was found under, so the worker's tenant check passes.  *)
(***************************************************************************)
EXTENDS Naturals, Sequences, FiniteSets

CONSTANTS
    Docs,           \* documents of one organization
    Requests,       \* POST /documents/:id/process handlers that may be in flight
    Runners,        \* worker slots: concurrency 2 in each worker process
    Attempts,       \* attempts of a document job
    MaxStalled,     \* BullMQ's maxStalledCount, 1 unless a worker sets it
    ChunkCount,     \* chunks a run cuts the text into
    KeepCompleted,  \* removeOnComplete.count
    KeepFailed,     \* removeOnFail.count
    MaxRequests,    \* bound: accepted process requests per document
    MaxCrashes,     \* bound: worker slots that die
    Faults,         \* what may go wrong, a subset of FaultKinds
    NoDoc, NoRunner

FaultKinds == {"redis", "db", "content", "crash", "stall", "web"}

ASSUME PipelineAssumption ==
    /\ Attempts \in Nat \ {0} /\ ChunkCount \in Nat \ {0}
    /\ MaxStalled \in Nat /\ MaxRequests \in Nat /\ MaxCrashes \in Nat
    /\ KeepCompleted \in Nat \ {0} /\ KeepFailed \in Nat \ {0}
    /\ Faults \subseteq FaultKinds
    /\ NoDoc \notin Docs /\ NoRunner \notin Runners

VARIABLES
    status,       \* documents.status
    attempts,     \* documents.processing_attempts
    chunks,       \* committed document_chunks rows: <<run's number, chunk_index>>
    versions,     \* document_versions.version_number, in insertion order
    intel,        \* documents that have a document_intelligence row
    requests,     \* process() calls in flight
    asked,        \* process() calls accepted so far, per document
    job,          \* the BullMQ job doc_process_<id> of each document
    completedLog, failedLog,  \* finished jobs BullMQ retains, oldest first
    runs,         \* processDocument() calls in flight, one per slot
    deadLetters,  \* documents captured by the dead-letter store
    crashes

dbVars == <<status, attempts, chunks, versions, intel>>
queueVars == <<job, completedLog, failedLog, deadLetters>>
webVars == <<requests, asked>>
vars == <<dbVars, queueVars, webVars, runs, crashes>>
----------------------------------------------------------------------------
\* Records

Statuses == {"ABSENT", "UPLOADED", "QUEUED", "PROCESSING", "READY", "FAILED"}
JobStates == {"none", "waiting", "active", "completed", "failed"}
RequestSteps == {"idle", "checked", "marked"}
RunSteps == {"idle", "begin", "mark", "work", "delete", "insert", "version",
             "createVersion", "intel", "ready", "done", "catch", "throw"}

Indexes == 1..ChunkCount
Rows(g) == {g} \X Indexes

Request == [pc : RequestSteps, doc : Docs \cup {NoDoc}]
Job == [state : JobStates, made : 0..Attempts, stalls : 0..MaxStalled,
        lock : Runners \cup {NoRunner}]
Run == [pc : RunSteps, doc : Docs \cup {NoDoc}, gen : Nat,
        seen : SUBSET (Nat \X Indexes), next : Nat]

NoRequest == [pc |-> "idle", doc |-> NoDoc]
NoJob == [state |-> "none", made |-> 0, stalls |-> 0, lock |-> NoRunner]
NoRun == [pc |-> "idle", doc |-> NoDoc, gen |-> 0, seen |-> {}, next |-> 0]

CanFail(kind) == kind \in Faults

SetStatus(d, s) == status' = [status EXCEPT ![d] = s]
Goto(r, step) == runs' = [runs EXCEPT ![r].pc = step]
At(r, step) == runs[r].pc = step

Init ==
    /\ status = [d \in Docs |-> "ABSENT"]
    /\ attempts = [d \in Docs |-> 0]
    /\ chunks = [d \in Docs |-> {}]
    /\ versions = [d \in Docs |-> <<>>]
    /\ intel = {}
    /\ requests = [q \in Requests |-> NoRequest]
    /\ asked = [d \in Docs |-> 0]
    /\ job = [d \in Docs |-> NoJob]
    /\ completedLog = <<>> /\ failedLog = <<>>
    /\ runs = [r \in Runners |-> NoRun]
    /\ deadLetters = {}
    /\ crashes = 0
----------------------------------------------------------------------------
\* The API process

Upload(d) ==
    /\ status[d] = "ABSENT"
    /\ SetStatus(d, "UPLOADED")
    /\ UNCHANGED <<attempts, chunks, versions, intel, queueVars, webVars, runs, crashes>>

\* process(): the duplicate check reads the status (QUEUED and PROCESSING are
\* answered 409, which changes nothing) ...
ProcessCheck(q, d) ==
    /\ requests[q].pc = "idle"
    /\ asked[d] < MaxRequests
    /\ status[d] \notin {"ABSENT", "QUEUED", "PROCESSING"}
    /\ requests' = [requests EXCEPT ![q] = [pc |-> "checked", doc |-> d]]
    /\ asked' = [asked EXCEPT ![d] = @ + 1]
    /\ UNCHANGED <<dbVars, queueVars, runs, crashes>>

\* ... a second await writes QUEUED whatever the status has become since ...
ProcessMark(q) ==
    /\ requests[q].pc = "checked"
    /\ SetStatus(requests[q].doc, "QUEUED")
    /\ requests' = [requests EXCEPT ![q].pc = "marked"]
    /\ UNCHANGED <<attempts, chunks, versions, intel, asked, queueVars, runs, crashes>>

\* Mutant: the id does not deduplicate, a second add() restarts the job.
AddJobAgain(d) == job' = [job EXCEPT ![d] = [NoJob EXCEPT !.state = "waiting"]]

\* Queue.add with a custom jobId: an existing job of that id, in whatever
\* state, is left alone.
AddJob(d) ==
    job' = IF job[d].state = "none"
           THEN [job EXCEPT ![d] = [NoJob EXCEPT !.state = "waiting"]]
           ELSE job

\* ... and a third adds the job.  Redis not ready, or a rejected add(), is
\* caught and answered with jobId null; the status stays QUEUED.
ProcessEnqueue(q) ==
    /\ requests[q].pc = "marked"
    /\ \/ AddJob(requests[q].doc)
       \/ CanFail("redis") /\ UNCHANGED job
    /\ requests' = [requests EXCEPT ![q] = NoRequest]
    /\ UNCHANGED <<dbVars, completedLog, failedLog, deadLetters, asked, runs, crashes>>

\* The API process dies between two awaits, or updateStatus rejects.
ProcessAbort(q) ==
    /\ \/ requests[q].pc # "idle" /\ CanFail("web")
       \/ requests[q].pc = "checked" /\ CanFail("db")
    /\ requests' = [requests EXCEPT ![q] = NoRequest]
    /\ UNCHANGED <<dbVars, queueVars, asked, runs, crashes>>
----------------------------------------------------------------------------
\* BullMQ

\* A free slot takes a waiting job and holds its lock.
PickUp(r, d) ==
    /\ At(r, "idle")
    /\ job[d].state = "waiting"
    /\ job' = [job EXCEPT ![d].state = "active", ![d].lock = r]
    /\ runs' = [runs EXCEPT ![r] = [NoRun EXCEPT !.pc = "begin", !.doc = d]]
    /\ UNCHANGED <<dbVars, completedLog, failedLog, deadLetters, webVars, crashes>>

\* A finished set keeps its newest `keep' jobs: what stays, and what falls
\* out, when one more comes in.
Kept(log, keep) == IF Len(log) >= keep THEN Tail(log) ELSE log
Dropped(log, keep) == IF Len(log) >= keep THEN {Head(log)} ELSE {}

\* Moving job d to a finished set; a job that falls out is deleted, which
\* frees its id.
Retire(d, made, state, log, keep) ==
    LET finished == [job[d] EXCEPT !.state = state, !.made = made, !.lock = NoRunner]
    IN  /\ job' = [e \in Docs |->
                      CASE e = d -> finished
                        [] e \in Dropped(log, keep) \ {d} -> NoJob
                        [] OTHER -> job[e]]
        /\ IF state = "completed"
           THEN completedLog' = Append(Kept(log, keep), d) /\ UNCHANGED failedLog
           ELSE failedLog' = Append(Kept(log, keep), d) /\ UNCHANGED completedLog

\* The queues whose 'failed' listener can see deadLetterQueueService: the
\* require() is a const of createAuditWorker's body, so in the document
\* worker's listener the name is unbound and the capture throws.
DeadLetterScope == {"audit"}

OnFailed(d, made) ==
    deadLetters' = IF made >= Attempts /\ "document" \in DeadLetterScope
                   THEN deadLetters \cup {d}
                   ELSE deadLetters

\* Mutant: one attempt too many.
FailAttemptLate(d) ==
    LET made == job[d].made + 1 IN
    /\ OnFailed(d, made)
    /\ IF made <= Attempts
       THEN /\ job' = [job EXCEPT ![d].state = "waiting", ![d].made = made,
                                  ![d].lock = NoRunner]
            /\ UNCHANGED <<completedLog, failedLog>>
       ELSE Retire(d, made, "failed", failedLog, KeepFailed)

\* The job's promise rejected while its slot holds the lock: another attempt,
\* or the failed set once the attempts are used up.
FailAttempt(d) ==
    LET made == job[d].made + 1 IN
    /\ OnFailed(d, made)
    /\ IF made < Attempts
       THEN /\ job' = [job EXCEPT ![d].state = "waiting", ![d].made = made,
                                  ![d].lock = NoRunner]
            /\ UNCHANGED <<completedLog, failedLog>>
       ELSE Retire(d, made, "failed", failedLog, KeepFailed)

HoldsLock(r) == job[runs[r].doc].lock = r

\* The lock of a live handler expires (its event loop was blocked, or Redis
\* was out of reach): the handler runs on and does not know.
LoseLock(r) ==
    /\ CanFail("stall")
    /\ ~At(r, "idle")
    /\ HoldsLock(r)
    /\ job' = [job EXCEPT ![runs[r].doc].lock = NoRunner]
    /\ UNCHANGED <<dbVars, completedLog, failedLog, deadLetters, webVars, runs, crashes>>

\* A slot's process dies.  An open transaction rolls back; the lock runs out.
Crash(r) ==
    /\ CanFail("crash")
    /\ crashes < MaxCrashes
    /\ ~At(r, "idle")
    /\ crashes' = crashes + 1
    /\ runs' = [runs EXCEPT ![r] = NoRun]
    /\ job' = IF HoldsLock(r)
              THEN [job EXCEPT ![runs[r].doc].lock = NoRunner]
              ELSE job
    /\ UNCHANGED <<dbVars, completedLog, failedLog, deadLetters, webVars>>

\* Mutant: nobody looks for stalled jobs.
NeverRecoverStalled(d) == FALSE

\* The stalled-job check: an active job without a lock waits again, or fails
\* when it has stalled too often.
RecoverStalled(d) ==
    /\ job[d].state = "active"
    /\ job[d].lock = NoRunner
    /\ IF job[d].stalls < MaxStalled
       THEN /\ job' = [job EXCEPT ![d].state = "waiting", ![d].stalls = @ + 1]
            /\ UNCHANGED <<completedLog, failedLog, deadLetters>>
       ELSE /\ Retire(d, job[d].made, "failed", failedLog, KeepFailed)
            /\ OnFailed(d, job[d].made)
    /\ UNCHANGED <<dbVars, webVars, runs, crashes>>
----------------------------------------------------------------------------
\* The worker: processDocument().  Every awaited call may reject; before the
\* try block that ends the job without touching the status.

\* findById (its columns used below never change) and incrementAttempts.
RunIncrement(r) ==
    LET d == runs[r].doc IN
    /\ At(r, "begin")
    /\ \/ /\ attempts' = [attempts EXCEPT ![d] = @ + 1]
          /\ runs' = [runs EXCEPT ![r].pc = "mark", ![r].gen = attempts[d] + 1]
       \/ /\ CanFail("db")
          /\ Goto(r, "throw") /\ UNCHANGED attempts
    /\ UNCHANGED <<status, chunks, versions, intel, queueVars, webVars, crashes>>

RunMark(r) ==
    /\ At(r, "mark")
    /\ \/ SetStatus(runs[r].doc, "PROCESSING") /\ Goto(r, "work")
       \/ CanFail("db") /\ Goto(r, "throw") /\ UNCHANGED status
    /\ UNCHANGED <<attempts, chunks, versions, intel, queueVars, webVars, crashes>>

\* Mutant: without the check for zero chunks, saveChunksWithEmbeddings([])
\* returns at once and the run goes on.
RunWorkEmpty(r) ==
    /\ At(r, "work")
    /\ Goto(r, "delete") \/ Goto(r, "version")
    /\ UNCHANGED <<dbVars, queueVars, webVars, crashes>>

\* File check, extraction, cleaning, chunking and embedding: at least one
\* chunk and one vector for each, or an exception.
RunWork(r) ==
    /\ At(r, "work")
    /\ \/ Goto(r, "delete")
       \/ CanFail("content") /\ Goto(r, "catch")
    /\ UNCHANGED <<dbVars, queueVars, webVars, crashes>>

\* Mutant: the DELETE outside the transaction, visible before the INSERTs.
RunDeleteCommitted(r) ==
    /\ At(r, "delete")
    /\ chunks' = [chunks EXCEPT ![runs[r].doc] = {}]
    /\ Goto(r, "insert")
    /\ UNCHANGED <<status, attempts, versions, intel, queueVars, webVars, crashes>>

\* saveChunksWithEmbeddings, a READ COMMITTED transaction: its DELETE removes
\* the rows committed when the statement runs ...
RunDeleteChunks(r) ==
    /\ At(r, "delete")
    /\ \/ runs' = [runs EXCEPT ![r].pc = "insert", ![r].seen = chunks[runs[r].doc]]
       \/ CanFail("db") /\ Goto(r, "catch")
    /\ UNCHANGED <<dbVars, queueVars, webVars, crashes>>

\* Mutant: no unique constraint on (document_id, chunk_index).
NeverCollides(d, seen) == FALSE

\* The unique constraint on (document_id, chunk_index): rows another run
\* committed after our DELETE collide with ours.
Collides(d, seen) ==
    \E row \in chunks[d] \ seen : row[2] \in Indexes

\* ... and its INSERTs and COMMIT put this run's rows in their place, or roll
\* everything back.
RunInsertChunks(r) ==
    LET d == runs[r].doc IN
    /\ At(r, "insert")
    /\ \/ /\ ~Collides(d, runs[r].seen)
          /\ chunks' = [chunks EXCEPT ![d] = (@ \ runs[r].seen) \cup Rows(runs[r].gen)]
          /\ runs' = [runs EXCEPT ![r].pc = "version", ![r].seen = {}]
       \/ /\ Collides(d, runs[r].seen) \/ CanFail("db")
          /\ runs' = [runs EXCEPT ![r].pc = "catch", ![r].seen = {}]
          /\ UNCHANGED chunks
    /\ UNCHANGED <<status, attempts, versions, intel, queueVars, webVars, crashes>>

VersionNumbers(d) == {versions[d][i] : i \in DOMAIN versions[d]}

LatestVersion(d) ==
    CHOOSE n \in VersionNumbers(d) \cup {0} : \A m \in VersionNumbers(d) : m <= n

\* createVersion reads the latest number ...
RunReadVersion(r) ==
    /\ At(r, "version")
    /\ \/ runs' = [runs EXCEPT ![r].pc = "createVersion",
                               ![r].next = LatestVersion(runs[r].doc) + 1]
       \/ CanFail("db") /\ Goto(r, "intel")
    /\ UNCHANGED <<dbVars, queueVars, webVars, crashes>>

\* Mutant: no unique constraint on (document_id, version_number).
VersionNeverTaken(d, n) == FALSE

VersionTaken(d, n) == n \in VersionNumbers(d)

\* ... and inserts the next one; the unique constraint turns a lost race into
\* an error, which is logged and dropped.
RunCreateVersion(r) ==
    LET d == runs[r].doc IN
    /\ At(r, "createVersion")
    /\ \/ /\ ~VersionTaken(d, runs[r].next)
          /\ versions' = [versions EXCEPT ![d] = Append(@, runs[r].next)]
       \/ /\ VersionTaken(d, runs[r].next) \/ CanFail("db")
          /\ UNCHANGED versions
    /\ runs' = [runs EXCEPT ![r].pc = "intel", ![r].next = 0]
    /\ UNCHANGED <<status, attempts, chunks, intel, queueVars, webVars, crashes>>

RunIntelligence(r) ==
    /\ At(r, "intel")
    /\ \/ intel' = intel \cup {runs[r].doc}
       \/ CanFail("db") /\ UNCHANGED intel
    /\ Goto(r, "ready")
    /\ UNCHANGED <<status, attempts, chunks, versions, queueVars, webVars, crashes>>

RunReady(r) ==
    /\ At(r, "ready")
    /\ \/ SetStatus(runs[r].doc, "READY") /\ Goto(r, "done")
       \/ CanFail("db") /\ Goto(r, "catch") /\ UNCHANGED status
    /\ UNCHANGED <<attempts, chunks, versions, intel, queueVars, webVars, crashes>>

\* invalidateTenant swallows its errors (RagCache models what it removes) and
\* the handler returns.  Without the lock the result is refused.
RunComplete(r) ==
    LET d == runs[r].doc IN
    /\ At(r, "done")
    /\ IF HoldsLock(r)
       THEN Retire(d, job[d].made, "completed", completedLog, KeepCompleted)
       ELSE UNCHANGED <<job, completedLog, failedLog>>
    /\ runs' = [runs EXCEPT ![r] = NoRun]
    /\ UNCHANGED <<dbVars, deadLetters, webVars, crashes>>

\* Mutant: the catch block only rethrows.
RunCatchSilently(r) ==
    /\ At(r, "catch")
    /\ Goto(r, "throw")
    /\ UNCHANGED <<dbVars, queueVars, webVars, crashes>>

\* The catch block records FAILED and rethrows; its own update may reject.
RunCatch(r) ==
    /\ At(r, "catch")
    /\ \/ SetStatus(runs[r].doc, "FAILED")
       \/ CanFail("db") /\ UNCHANGED status
    /\ Goto(r, "throw")
    /\ UNCHANGED <<attempts, chunks, versions, intel, queueVars, webVars, crashes>>

RunThrow(r) ==
    /\ At(r, "throw")
    /\ IF HoldsLock(r)
       THEN FailAttempt(runs[r].doc)
       ELSE UNCHANGED queueVars
    /\ runs' = [runs EXCEPT ![r] = NoRun]
    /\ UNCHANGED <<dbVars, webVars, crashes>>
----------------------------------------------------------------------------

RequestStep(q) == ProcessMark(q) \/ ProcessEnqueue(q)

RunStep(r) ==
    \/ RunIncrement(r) \/ RunMark(r) \/ RunWork(r)
    \/ RunDeleteChunks(r) \/ RunInsertChunks(r)
    \/ RunReadVersion(r) \/ RunCreateVersion(r) \/ RunIntelligence(r)
    \/ RunReady(r) \/ RunComplete(r) \/ RunCatch(r) \/ RunThrow(r)

Next ==
    \/ \E d \in Docs : Upload(d) \/ RecoverStalled(d)
    \/ \E q \in Requests, d \in Docs : ProcessCheck(q, d)
    \/ \E q \in Requests : RequestStep(q) \/ ProcessAbort(q)
    \/ \E r \in Runners, d \in Docs : PickUp(r, d)
    \/ \E r \in Runners : RunStep(r) \/ LoseLock(r) \/ Crash(r)

Spec == Init /\ [][Next]_vars

\* Node runs every continuation that is ready and BullMQ hands every waiting
\* job to a free slot; nobody has to upload or ask, and faults never have to
\* happen.
Fairness ==
    /\ \A q \in Requests : WF_vars(RequestStep(q))
    /\ \A r \in Runners : WF_vars(RunStep(r))
    /\ \A d \in Docs : WF_vars(\E r \in Runners : PickUp(r, d))
    /\ \A d \in Docs : WF_vars(RecoverStalled(d))

FairSpec == Spec /\ Fairness
----------------------------------------------------------------------------
\* Properties

\* Every variable stays in its domain; the gen, seen and next of a run are
\* those of the step it is at.
TypeOK ==
    /\ status \in [Docs -> Statuses]
    /\ attempts \in [Docs -> Nat]
    /\ chunks \in [Docs -> SUBSET (Nat \X Indexes)]
    /\ versions \in [Docs -> Seq(Nat)]
    /\ intel \subseteq Docs
    /\ requests \in [Requests -> Request]
    /\ asked \in [Docs -> 0..MaxRequests]
    /\ job \in [Docs -> Job]
    /\ completedLog \in Seq(Docs) /\ failedLog \in Seq(Docs)
    /\ runs \in [Runners -> Run]
    /\ deadLetters \subseteq Docs
    /\ crashes \in 0..MaxCrashes

Busy(r) == ~At(r, "idle")

\* The chunks a search can find are always the complete output of exactly one
\* run, whichever runs of the document overlap, die or roll back.
WholeGeneration ==
    \A d \in Docs : chunks[d] = {} \/ \E g \in 1..attempts[d] : chunks[d] = Rows(g)

\* A document never reads READY without searchable chunks, even when a late
\* run of a lost lock is still writing.
ReadyIsIndexed == \A d \in Docs : status[d] = "READY" => chunks[d] # {}

\* Version numbers are 1, 2, 3, ... without gap or repetition, although they
\* are read and written in two steps by runs that may overlap.
VersionsContiguous ==
    \A d \in Docs : \A i \in DOMAIN versions[d] : versions[d][i] = i

\* As long as no lock expires under a live handler, a document has one run in
\* flight at most: the job id and the lock are all that keeps two requests,
\* or a crash and its recovery, from processing it twice at once.
ExclusiveRuns ==
    ~CanFail("stall") =>
        \A r1, r2 \in Runners :
            Busy(r1) /\ Busy(r2) /\ runs[r1].doc = runs[r2].doc => r1 = r2

\* Without expired locks and database errors the status agrees with the job:
\* READY once it completed and FAILED once its attempts are used up, unless a
\* newer request has already overwritten it with QUEUED.
VerdictMatchesJob ==
    ~CanFail("stall") /\ ~CanFail("db") =>
        \A d \in Docs :
            /\ job[d].state = "completed" => status[d] \in {"READY", "QUEUED"}
            /\ job[d].state = "failed" /\ job[d].made = Attempts
                  => status[d] \in {"FAILED", "QUEUED"}

\* The run whose rows are searchable, 0 for none.
Generation(rows) == IF rows = {} THEN 0 ELSE (CHOOSE row \in rows : TRUE)[1]

index == [d \in Docs |-> Generation(chunks[d])]

Lifecycle == INSTANCE DocumentLifecycle
                WITH Docs <- Docs, status <- status, index <- index

\* The pipeline implements DocumentLifecycle: processing follows a request,
\* an index is replaced whole and in one step, READY needs one.
ImplementsLifecycle == Lifecycle!Spec

\* A job that was added reaches a finished state, whatever crashes.
JobsFinish ==
    \A d \in Docs : job[d].state \in {"waiting", "active"}
                      ~> job[d].state \in {"none", "completed", "failed"}

\* A document that was asked for once comes to rest in READY or FAILED when
\* the worker dies no more often than the queue forgives.
FirstRequestSettles ==
    \A d \in Docs : <>[](asked[d] = 1 => status[d] \in {"READY", "FAILED"})

\* Every accepted request ends in READY or FAILED: what "Document processing
\* started" tells the client.  It does not hold (see the README).
EveryRequestSettles ==
    \A d \in Docs : status[d] = "QUEUED" ~> status[d] \in {"READY", "FAILED"}

\* A job that used up its attempts is in the dead-letter store, as the runbook
\* says.  It does not hold (see the README).
ExhaustedJobsCaptured ==
    \A d \in Docs :
        job[d].state = "failed" /\ job[d].made = Attempts => d \in deadLetters
=============================================================================
