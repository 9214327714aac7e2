# DocQuery, specified

DocQuery is a multi-tenant Node.js service: organizations upload documents, a
BullMQ worker turns each into chunks with vector embeddings in PostgreSQL, and
questions are answered from those chunks by a language model, with Redis
caching the answers. This directory holds TLA+ modules translated from
`src/src`, the TLC configurations that check them, and proofs for TLAPS.

    tlc -workers 2 -config pipeline_faults.cfg MCDocumentPipeline
    tlapm DocumentPipeline_proofs.tla

Paths below are relative to `src/src`.

## 1. Inventory

| Component | State | Operations | What makes it correct |
|---|---|---|---|
| Document pipeline: `modules/documents`, `services/queue.service.js`, `config/queue.config.js`, `workers` | `documents.status`, `processing_attempts`, `document_chunks`, `document_versions`, `document_intelligence`; BullMQ's job hash, lock and finished sets | upload, process (check, mark, enqueue), the run of a job, retries, stalled-job check | an index is one run's whole output; READY has one; one run at a time; every request ends; exhausted jobs are captured |
| Answer cache: `services/rag-cache.service.js`, `services/redis.service.js`, `modules/query`, `modules/search` | Redis keys `rag:tenant:<org>:query:<hash>` | get, set, sweep; the query that fills it, the run that empties it | an entry agrees with the index, or stops disagreeing; a hit stays within what its asker may open |
| Members: `modules/members`, `modules/organizations`, `middleware/organization`, `middleware/role` | `organization_members` rows; cached member list and organization lists | add, change role, remove, list | an owner remains; owners are an owner's affair; a write meets the row it was decided on; views follow the rows |
| Evaluations: `modules/evaluations`, `workers/evaluation.worker.js` | `evaluation_cases`, `evaluation_runs`, `evaluation_results`; the jobs of the queue `evaluation` | add cases, delete a dataset, create a run, execute it (inline, queued or by hand) | a COMPLETED run has all its results; a queued run ends with a verdict |
| Conversations: `modules/conversations`, `utils/pagination.js` | conversation row, messages, their sources | send a message, rename, delete, list by page or cursor | an answered turn is stored whole; a given name stays; listings neither skip nor repeat |
| Authentication: `modules/auth` | `users`, `refresh_tokens` | register, login, refresh, logout | a registration is whole; a revoked session ends |
| API keys: `modules/api-keys` | one row of `api_keys` | create, validate, revoke, rotate | a dead secret stays dead |
| Rate limiter: `middleware/rate-limiter.middleware.js` | one counter per client in Redis | count, refuse | a window lets through its limit, and no more than Redis fails; a refusal ends |
| Shutdown: `server.js`, `utils/shutdown.js`, `workers/index.js`, `workers/standalone.js` | server, workers, queues, connections | close them in order | nothing runs on a closed connection; a signal ends the API |
| Document access: `document-access.service.js` | `document_permissions` | check one, filter a list, grant, revoke | filter and check agree where the filter is used; access changes only by a grant |
| Search and context: `modules/search`, `modules/query` | none that lasts | search twice, fuse, rerank, select | nothing lost or overruled without reason; the prompt's limits |
| Indexing: extractors, cleaner, chunker, embeddings | none that lasts | clean, cut windows, embed in batches | every word is in a chunk, every chunk has its own vector |
| Provider calls: `utils/http-client.js` and its callers | attempts of one call | send, time out, retry, read | a call ends |
| Audit and notifications: `services/queue.service.js`, `workers/index.js` | jobs and retained ids | enqueue after a change, log | an event handed over reaches the worker |
| HTTP application: `app.js`, the routers, `middleware` | `req.user`, `req.organization`, `req.membership`, `req.file` | parse, limit, authenticate, resolve, authorize, handle, answer errors | a handler runs only behind its guards, with what it reads in place |
| Quota and metering: `services/quota`, `usage-metering` | quota row, counters | get or create, show | one row each, shown to members |
| Dead-letter store: `workers/dlq.service.js` | captured failures | capture | what is exhausted is there |
| Text heuristics, knowledge graph, observability | counters, tables | | not modelled (section 7) |

How they meet: the API process and the workers share PostgreSQL and Redis and
no memory. `process()` writes QUEUED and then adds a job; the worker writes the
status, the chunks, the version and the verdict, and empties the cache;
`query()` reads documents that are READY and fills the cache. Members are read
by a middleware before every organization request. Every service is a chain of
awaited calls without an enclosing transaction (`saveChunksWithEmbeddings` and
`organization.create` are the exceptions), so any other handler runs between
two of them. That, BullMQ's at-least-once delivery and Redis errors that are
swallowed everywhere are what is hard here. `PROJECT.json` lists the hazards
line by line.

## 2. Modules

| Module | Models |
|---|---|
| `DocumentLifecycle` | the abstract promise of the pipeline: status and searchable index of each document |
| `DocumentPipeline` | the pipeline, one action per awaited call; refines `DocumentLifecycle` |
| `RagCache` | the answer cache between questions and runs |
| `Membership` | member requests and the two cached views of the rows |
| `EvaluationRuns` | evaluation runs, their queue and the dataset under them |
| `Conversations` | the requests on one conversation, and its listings |
| `Sessions` | registrations, logins, refresh and access tokens of one email |
| `ApiKeys` | one key between revocations, rotations and time |
| `RateLimiter` | one client's counter |
| `Shutdown` | the API process and the standalone worker, from signal to exit |
| `DocumentAccess` | grants, and the two places that evaluate them |
| `Retrieval` | two searches, fusion, rerank, selection of the context |
| `Indexing` | pages to chunks to vectors |
| `ProviderCalls` | `resilientFetch` and the providers that read its answers |
| `AuditTrail` | audit events and notifications of a change |
| `HttpRequests` | every route, its middlewares and what its handler reads |
| `MC*` | instances for TLC |
| `*_proofs` | theorems and their proofs |

Operators whose comment begins with "Mutant" are not part of a specification.
Each is a plausible bug in the definition that follows it, kept to show that a
property notices.

### DocumentPipeline

| Variable | Code |
|---|---|
| `status`, `attempts` | columns of `documents` (`ABSENT`: no row yet) |
| `chunks` | committed rows of `document_chunks`, each the number of the run that wrote it and its `chunk_index` |
| `versions`, `intel` | rows of `document_versions` and `document_intelligence` |
| `requests`, `asked` | `process()` calls in flight and accepted so far |
| `job`, `completedLog`, `failedLog` | the job `doc_process_<id>`: state, attempts made, stalls, holder of its lock; the finished jobs BullMQ keeps |
| `runs` | `processDocument()` calls, one for each slot (`concurrency: 2`) |
| `deadLetters` | captured failures |

`ProcessCheck`, `ProcessMark` and `ProcessEnqueue` are the three awaits of
`DocumentService.process`; `ProcessAbort` is the handler that ends between
them. `RunIncrement` to `RunThrow` are the awaits of `processDocument` in order:
the two before the `try` end the job without touching the status, those inside
lead to the `catch`, the version and the intelligence row swallow their errors.
`saveChunksWithEmbeddings` is two actions because PostgreSQL runs it READ
COMMITTED: its DELETE sees the rows committed at that moment, its INSERT meets
the unique index at a later one. Rows are invisible until the commit, so `chunks` changes
only there.

BullMQ is external and modelled from the options the code gives it: `add` with
a `jobId` that exists is a no-op, a finished set keeps its newest entries, a
failure retries until `attempts`, an active job whose lock is gone waits again
or fails after `maxStalledCount`, and a result without the lock is refused.

What may go wrong is the constant `Faults`: Redis refuses a command, a database
call rejects, the content cannot be processed, a worker process dies, a live handler loses its
lock, the API process dies.

Abstractions: `errorMessage` is a function of `status`; a delayed retry is a
waiting job; extraction, cleaning, chunking and embedding are one step that
succeeds with at least one chunk or throws; the worker's tenant check passes,
since the job carries the organization its document was found under.

### RagCache

An answer is abstracted to which run's chunks of each document its two
searches could see, under the filter the question was asked with. A key is a
hash of organization, question, documentId, topK and threshold; it names nobody.
A question goes through `Miss` (the lookup, `query.service.js:124`), for a member or
a viewer through `ReadFilter` (`:178`), and then the searches. Owners, administrators,
API keys, evaluation cases and the first message of a conversation are not
filtered; later messages of a conversation do not use the cache. A question with a
documentId is `Pinned`: its searches leave the filter aside unless the
filter is empty (`search.repository.js:33-48`). A hit changes nothing and is no
action. `settled`, `late` and an entry's `allowed` are history. One run of a
document at a time is assumed, which `DocumentPipeline` shows
(`ExclusiveRuns`, no expired locks). `delPattern` is its SCAN and DEL calls;
SCAN guarantees only keys present throughout, which is `owed`.
`cacheService.set` is not awaited, so `Store` happens at any later time.

### Membership

A request is the role its middleware resolved and then its database calls:
find, possibly count, write, and two invalidations. `alone` and `serial` are history: no
other request wrote since this one was resolved, and that was so for every
write. A cached view is `current`, `outdated`, or `overlapped` when a write fell
between its read and its SET. MEMBER stands for VIEWER.

### EvaluationRuns

| Variable | Code |
|---|---|
| `cases`, `dataset` | rows of `evaluation_cases`, by number, and whether their dataset exists |
| `run` | status, `totalCases` and `completedCases` of `evaluation_runs` |
| `results`, `repeated` | how many cases have a row of `evaluation_results`, and how many several |
| `job` | the BullMQ job of a run (two attempts, no `jobId`) |
| `calls` | `createRun` and `executeRun` calls of requests and workers |
| `abandoned` | history: left RUNNING by a death or a failed update, with no queue to repeat it |

`Begin` to `Fail` are the awaits of `executeRun`. Cases are only removed with
their dataset and always read together, so a number stands for a set of them.
A question that fails becomes a result, so the loop over the cases is one step
with its `createMany`. A redelivered or hand-made execution adds rows beside
those already there (`repeated`), although `docs/background-jobs.md:12` speaks
of idempotent handlers; `OncePerDelivery` says when that does not happen.

### The services

Eleven smaller modules with names of their own (`ConvInit`, `ConvNext`,
`convVars`), so that `MCServices` can extend them all.

`Conversations`. A turn is `sendMessage` from its lookup to its last write. Other
turns, a rename, the deletion of the conversation or of the cited document come
between any two of its calls (`before` is history: what was there when it began); `Abort` is a call that throws or the process that dies,
and leaves what was committed. `createdAt` is given when an INSERT is built
(`StampQuestion`) and the row is visible after its commit (`StoreQuestion`), so
rows can appear out of order. Every message has a time of its own: one process's
clock, and no two in a millisecond. A listing follows `listMessages` by page number
or by cursor.

`Sessions`. Sign-ins with one email, each a lookup, a hash, a transaction, the
tokens. A failing update in `logout` is swallowed, so it is the same as none.
Access tokens are not stored: they are good until they expire.

`ApiKeys`. Revoking and rotating find the key first and write later. `Accepted` is
what `validateApiKey` lets in.

`RateLimiter`. INCR and TTL are one MULTI, EXPIRE is another call, made by whoever
reads no TTL. With Redis away (`PassWithoutRedis`), or when EXPIRE fails
(`FailExpiry`), `increment` returns null and the request is let through
whatever the count was; `LoseExpiry` is a process that dies before it.
`admitted` counts all that are let through and `failures` the failures of
Redis; `life` numbers the windows.

`Shutdown`. `stage` is how far each signal's shutdown is; only the API ignores a
second signal and only the API has a timer that ends everything (`ForceExit`). A
worker's close is given up after its own. Workers start when Redis becomes
ready, or after two seconds in the worker process, be that after `closeWorkers`
was called (`late`). The evaluation worker never enters `listed`.

`DocumentAccess`. `CanAccess` is the check of one document, `Filtered` what
`getAccessibleDocumentIds` returns. Who applies it is `Allowed`, by the way
(`Ways`) a request takes to a document: the list and the query service ask for the
filter, `POST /search` hands the user to a service that ignores it and
`sendMessage` passes none. `Reached` is what the search conditions then admit: a
question that names a document is not filtered besides. Documents and grants are one
organization's.

`Retrieval`. A score is a rank in one list; the fused scores are compared as
exact fractions; a reranker may return any order. If both searches fail, the
question is answered as one without context, not as an error.

`Indexing`. A page is its number of words and whether cleaning leaves any; a
chunk the interval of words it spans; a vector the chunk it was made of.

`ProviderCalls`. The timer of an attempt ends with its headers, the body is read
without one. `ConnectionFails` leaves open whether a connection error counts as transient:
the code looks at `error.code`, Node's `fetch` puts it in `error.cause`. No caller
passes a fallback.

`AuditTrail`. A job id is action, user, organization and five-minute bucket; an id Redis
still holds, of a completed or failed job too, makes the same event of those five
minutes one job, as the comment in `queue.service.js` says. Enqueueing is after
the commit and not awaited. A job whose worker died is handed out again until it has
stalled more than `MaxStalls` (BullMQ's default 1; `workers/index.js:32-40` sets
nothing); then it fails, without the dead-letter store, since no attempt was used
up. The worker writes two lines to the log (`workers/index.js:25-27`).

`HttpRequests`. Each router's middlewares are a table in its order, behind what
`app.js` mounts; one action runs one middleware. `Reads` is what a controller
takes from the request; if that is missing the handler is a TypeError, a 500.
While a request waits, roles change, keys are revoked and tokens expire;
`roleSeen` and `goodSeen` remember what held since it arrived. Facts to know when
reading the code, all in the module:

* requests for members authenticate twice and pass the API limiter, because the
  members' router is mounted below the organizations';
* their handlers act in the organization of the header, not of the path;
* a key acts as ADMIN, whatever role its creator has by now;
* the routers ask for a credential, an organization and for administration at most;
  `requirePermission` is mounted nowhere, so `RolePermissions` decides nothing, and the
  scopes of a key are read by nobody;
* an upload is on disk before its organization is resolved and stays there when it
  is refused; a file too large, and metadata that is not JSON, are a 500;
* of two first visits to a quota, which both create its row, one is a 409.

## 3. Runs

| Run | Asks | Bounds and why they suffice |
|---|---|---|
| `pipeline_faults` | `TypeOK`, `WholeGeneration`, `ReadyIsIndexed`, `VersionsContiguous`, `ImplementsLifecycle` | one document, because nothing but the queue's retention relates two; two requests and two slots, the least that race; three attempts as configured; two chunks, so that an index can be mixed; one crash besides any number of lost locks |
| `pipeline_jobs` | `ExclusiveRuns`, `VerdictMatchesJob`, `JobsFinish`, `FirstRequestSettles` | two documents and finished sets of one entry, so that one document's job evicts the other's and frees its id; one crash against `maxStalledCount` 1; two attempts: a retry and the end of retries; no expired locks. TLC may not use symmetry with liveness, so `LeadersFirst` names the first idle slot, handler and document by hand, and bounds the second document to one request |
| `pipeline_stuck` | `EveryRequestSettles`, violated | no faults; two requests one after the other |
| `pipeline_deadletter` | `ExhaustedJobsCaptured`, violated | content that fails |
| `cache_sweep` | `OutdatedOnlyIfLate`, `CacheConverges` | two documents, one processed twice: sweeps of two workers overlap; one key about both and one question, asked without a filter or by a person who may open one of the two; keys do not interact except in one sweep's batches, and a batch may already be empty or partial. Of the two searches the keyword search fails, as the other is alike. Keys with a documentId are in no run, but in the proof |
| `cache_stale` | `FreshAfterInvalidation`, violated | one document, nothing fails |
| `cache_leak` | `HitsStayWithinAccess`, violated | one document, a person who may not open it, nothing fails |
| `members` | `TypeOK`, `OwnerRemains`, `OutdatedOnlyByOverlap`, `OwnersAnswerToOwners`, `WritesMeetTheirRow` | two users, two writing requests and a reader; `MaxJoins = 2`, so that a user leaves and joins again while a request holds the old row; Redis may refuse. Two requests write at once only while no view is cached or being read, and beside views there is one writer and one view, since a fill touches one view (`OneWriterBesideViews`) |
| `member_last_owner` | `LastOwnerIsNotRemoved`, violated | two users, two requests |
| `viewer_writes` | `WritersArePermitted`, violated | one request to upload or list documents, one change of the world |
| `evaluations` | `TypeOK`, `CompletedIsComplete`, `VerdictRecorded`, `OncePerDelivery`, `QueuedRunsEnd` | one run, since runs share only the dataset; a request and two workers, so that three executions overlap; two cases, so that the dataset grows between count and read; the configured two attempts; one stall, one death, one execution by hand |

`services` checks the eleven modules that share no state with each other: `part`
chooses one of them, the others keep their initial state, so that the run's
states are the sum of theirs and not the product. It asks, besides
`ServicesTypeOK`:

| Part | Properties | Bounds and why they suffice |
|---|---|---|
| `talk`, `listing` | `AnsweredTurnsAreWhole`, `NamesOutliveLaterTurns`, `ListingsAreComplete` | two turns, one rename or deletion, a history of 1, so that the second turn's does not hold both messages of the first; pages of one message, so that a page ends between any two. Of the turns, which are alike, the first is first. In `talk` nobody lists, and a document is deleted once an answer cites it (one deleted before is one the answer does not cite); in `listing` turns succeed without citations and nobody renames or deletes; together they do not fit |
| `sessions` | `RegistrationsAreWhole`, `LogoutEndsAccess` | three clients: two race for the email, one more logs in |
| `keys` | `SecretsDieForGood` | three requests: one that read before two others wrote; a key may expire twice |
| `limits` | `WindowsAreLimited`, `RefusalsEnd` | three senders, limit 1, two windows, one failure of Redis in the first of them |
| `shutdown` | `NothingRunsPastTheStores`, `SignalsEndTheApi` | either process, two signals, one request, a listed worker and the one that is not |
| `access` | `FilterAgreesWithCheck`, `AccessFollowsTheGrants` | an owner, a member, a viewer; two documents, one made by the owner and one by the member, so that one may be open to somebody and the other not |
| `retrieval` | `FusionIsFaithful`, `ContextIsFaithful` | four chunks of two documents, one text in both, one chunk at the token limit; the 60 of the code in the fusion |
| `indexing` | `IndexIsWhole` | every chunk size up to 5 tokens with every overlap, two pages of up to five words, batches of 2 |
| `calls` | `OnlyBodiesHang` | a call with two retries |
| `audit` | `EventsReachTheWorker` | three changes, two of the same kind, two buckets, one completed and one failed id kept, so that one evicts another; the configured one stall |
| `http` | `HandlersAreGuarded` | one request and one change of the world while it waits; a key's organization where the user is ADMIN, another where she is MEMBER; of the routes that pass the same middlewares and read the same, one or two (`TheVisited`) |

`CHECK_DEADLOCK FALSE` stands where the system may rest: in the pipeline the
requests are bounded by `MaxRequests`; in `evaluations` a deleted dataset admits nothing;
in `services` requests run out and processes end.

What the properties say, beyond their names:

* `ImplementsLifecycle`: a document is processed only after a request, its
  index is replaced in one step by a non-empty one, READY needs an index.
* `ExclusiveRuns`: the job id and the lock are the only exclusion there is, and
  they do exclude, across crashes, retries and eviction, unless a lock expires
  under a live handler. Then two runs overlap, and `WholeGeneration`,
  `ReadyIsIndexed` and `VersionsContiguous` say what the unique indexes still
  save.
* `VerdictMatchesJob`: what the queue and the table say of the same work agree.
* `OutdatedOnlyIfLate`: the sweep itself, in batches and beside other sweeps,
  loses nothing; an outdated entry can only come from a question that searched
  before a document became READY and stored after the sweep passed. An entry is
  judged under the filter it was made with; that it may be handed to somebody
  with another filter is what `cache_leak` shows.
* `OwnersAnswerToOwners` and `OwnerRemains` are restricted to requests nobody
  wrote beside, which is the most the code does: the role of the middleware and
  the count are snapshots. `WritesMeetTheirRow` has no such restriction:
  updates and deletes go by the id of the row that was read, so they miss a row
  the user got by leaving and joining again.
* `OutdatedOnlyByOverlap`: the three services drop every view a write
  concerns; a fill that overlapped a write is the only way to a stale view.
* `CompletedIsComplete`: the order results, then status, holds up when several
  executions of a run overlap over a growing dataset and some of them fail.
* `VerdictRecorded`: `executeRun` turns a failure into a return value, so the
  queue calls the job completed; then the row must tell. `QueuedRunsEnd`: it
  does so in the end, whatever dies. Both leave out runs in `abandoned`, which
  the code does lose: an execution within a request dies with it.
* `AnsweredTurnsAreWhole`: no transaction spans a turn, yet once the client has
  its answer the history has question, answer and sources, in order, and the prompt
  was built from older messages, of which it lacks none that was there when the
  turn began unless the history was full of younger ones. A turn that failed may
  leave its question alone; that is not excluded.
* `NamesOutliveLaterTurns`: whether to generate a title is decided on reads made
  before the query. A name given meanwhile is overwritten, one given before never.
* `ListingsAreComplete`: the cursor is immune to writers; page numbers are, unless a
  message commits behind a younger one (`late`).
* `LogoutEndsAccess`: a refresh that had read the row still answers; nothing later does.
* `SecretsDieForGood`: rotating un-revokes a key, and both write on old reads; no
  old secret comes back through any order of them.
* `WindowsAreLimited`: Redis failing lets a request through, and each failure
  lets one through; it does not open the window to the others.
* `RefusalsEnd`: a process may die between INCR and EXPIRE. A request is only ever
  refused when the key has an expiry or the request has just given it one.
* `FilterAgreesWithCheck`: the two evaluations agree where the second is used,
  and nobody is refused what the check would give. It says as plainly which ways
  go unfiltered (section 4), since a list and a search that disagree are no
  agreement.
* `AccessFollowsTheGrants`: whoever loses a document loses it by the first grant
  on it, which shuts out all it does not concern, or by losing a grant; revoking
  the last one lets everybody read again.
* `EventsReachTheWorker`: folding events by an id that outlives its job loses
  none of another five minutes, whatever Redis retains. A job at which two
  workers died is lost, which the property names.
* `NothingRunsPastTheStores` names what the code exempts: the evaluation worker,
  a worker whose close was given up, workers started late.
* `FusionIsFaithful`: a search that fails costs its own chunks and nothing else.
  Its caller does not learn of it.
* `IndexIsWhole`: windows are counted in words and sizes in tokens, with rounding
  in between; no size or overlap loses a word or repeats a window.
* `OnlyBodiesHang`: the one wait of a provider call that nothing ends.
* `HandlersAreGuarded`: to have met a router's demands at some moment since it
  arrived is the most a chain of middlewares that each read once can give. It
  compares requests with what the routers ask, not with what the documentation
  says they should ask; that is `WritersArePermitted`.

## 4. Where code and documentation disagree

* `pipeline_stuck`. A document processed again while its last job is retained
  (up to 1000 completed jobs) is marked QUEUED and never processed, since `add` with
  the same `jobId` does nothing; later requests are refused with 409. The
  response said "Document processing started" (`document.controller.js:66`).
* `pipeline_deadletter`. The document worker's `failed` listener uses a name
  that is local to `createAuditWorker`; no exhausted document job is captured,
  against `docs/operations/runbook.md:113`.
* `cache_stale`. An answer in flight over a document's READY is stored after
  the invalidation and served for its TTL, against the comment at
  `document-processing.service.js:163`.
* `cache_leak`. The cache is looked up before the asker's filter is read and its
  key names nobody: an answer made for somebody who is not filtered is handed to a
  member who may not open its documents, against
  `docs/architecture/enterprise-intelligence.md:60`, "Unauthorized chunks are NEVER
  retrieved".
* `member_last_owner`. A removal reads its target as ADMIN and so counts nobody.
  Before it deletes, another request makes the target an owner, and as one she
  demotes the other owner; `updateMemberRole` counts owners only when an owner
  demotes himself (`member.service.js:222`). The delete takes the last owner, against
  `member.service.js:280`, "Cannot remove the last OWNER". Two owners who demote each
  other get there too.
* `viewer_writes`. A VIEWER's upload succeeds, against `docs/phase-9.md:15`, "Read-only
  access to documents, conversations, queries, and search", `permissions.config.js`
  and its test (`tests/rbac-permissions.test.js:37`): no router mounts
  `requirePermission`. For the same reason a MEMBER creates datasets and runs, which
  the table reserves to administrators, and a key's scopes bind nothing
  (same test, line 84).

Disagreements without a run of their own; the modules follow the code:

* `POST /search`, messages of a conversation, and questions that name a document
  are not filtered by grants (`search.service.js:38-51`,
  `conversation.service.js:272-280`, `search.repository.js:43-48`), against
  `docs/phase-9.md:34` and `:63`. `FilterAgreesWithCheck` states them.
* The audit worker stores nothing (`workers/index.js:25-27`), against
  `docs/phase-9.md:100-104`; a job that stalls twice is in neither the log nor the
  dead-letter store.
* Executing an evaluation run again repeats its rows, against
  `docs/background-jobs.md:12`, "idempotent handlers" (`OncePerDelivery`).
* A provider's body is read without a timer, against `docs/api-resilience.md:7`,
  "Every request enforces a strict timeout" (`OnlyBodiesHang`).

## 5. Fairness

`DocumentPipeline`: weak fairness of each request's steps and each run's steps
(Node runs every continuation that is ready, and each awaited call settles), of
picking up a waiting job (an idle BullMQ worker takes one) and of the
stalled-job check (a timer in every worker). No fairness for uploads, requests
or faults. `RagCache`: the steps of a worker and of a question, and the expiry
Redis owes every key with a TTL. `EvaluationRuns`: the steps of `executeRun`,
workers that take waiting jobs, the stalled-job check; none for requests, faults
or changes of the dataset. `Membership` has no liveness properties.

`services`: a refresh that was looked up answers and access tokens expire
(`SessFairness`); Redis expires a key that has an expiry (`LimitFairness`); the API's
shutdown timer fires (`DownFairness`), nothing else of a shutdown is assumed to
end; backoff and timeout timers fire (`CallFairness`), a server need not answer and
a body need not end. All are WF of timers and of continuations, which the
event loop and Redis owe. Components of other parts stay in their initial states,
where none of these actions is enabled, so their conditions hold trivially and
do not constrain the part that moves.

## 6. Proofs

For every value of the constants, under the named assumptions of the modules
(`PipelineAssumption`, `MembershipAssumption`, `RagCacheAssumption`, ...):

`DocumentPipeline_proofs`: `TypeCorrect`, `WholeGenerationHolds`,
`ReadyIsIndexedHolds`, `VersionsContiguousHolds`, `ExclusiveRunsHolds`,
`VerdictMatchesJobHolds` and `LifecycleImplemented`. The inductive invariant `IInv` adds to the properties:

* `RequestInv`: a request under way has an uploaded document, and one past
  `ProcessMark` a document that was asked for;
* `JobInv`: a lock belongs to the slot that works on its active job, and a job
  that may run again has an attempt left;
* `RunInv`: a run past its increment has a number between 1 and its document's
  attempts, one past its INSERT has an index to show, and the version it is about to
  insert leaves no gap. The second makes READY safe: once there, an index
  is only ever replaced;
* `LogInv`: the retained jobs are finished ones, each listed once, so that what
  falls out of a log was not running;
* `LockInv`: without expired locks, a busy slot holds its job's lock. Two busy
  slots with the same document would both hold one lock, hence `ExclusiveRuns`.

`VerdictMatchesJob` needs one part more, `VerdictInv`: a run at its last step
has written its verdict, which only a new request may overwrite, since the run is
alone with its document. A job that fails by stalling has an attempt left, so the
property does not ask for its verdict.

`WholeGeneration` itself is inductive through `Collides`: a run whose INSERTs
meet no foreign row commits them into a document its own DELETE had emptied.

The refinement maps `index[d]` to the number of the run whose rows are in
`chunks[d]`; `WholeGeneration` makes that well defined, `RunInv` makes it
positive when READY is written.

`Membership_proofs`: `TypeCorrect`, `OwnerRemainsHolds`,
`OutdatedOnlyByOverlapHolds`, and the action properties
`OwnersAnswerToOwnersHolds` and `WritesMeetTheirRowHolds`. `CallInv` says what a
request that has been alone still knows to be true of the rows: the actor's
role, the target's row and, past the count, that there is another owner.
`ViewInv` says that an outdated view has an invalidation due or refused.
That a count above one leaves an owner besides the target (`AnotherMember`)
rests on the library's facts about cardinality.

`EvaluationRuns_proofs`: `TypeCorrect`, `CompletedIsCompleteHolds`,
`VerdictRecordedHolds` and `OncePerDeliveryHolds`. A run that was made stays the same run until it is gone
(`RunKept`), its results only grow, and the dataset it belongs to only grows:
`RowInv` bounds its `totalCases` by the dataset, `ReadInv` by what each
execution has read, and that by what it has written, so the last to write
COMPLETED tells the truth whoever else is at work. `VerdictInv` turns
`VerdictRecorded` around: a run without a verdict whose job is completed has
been marked by an execution still under way. `JobInv` says that a lock belongs to
an active job, so that such an execution holds none when it dies. `DeliveryInv`
counts hands: as long as a run has no stall, no attempt and no execution by hand
behind it, either one call has it or the queue does, and once it has results no
call is going to answer its cases. `FreshInv` gives that its start: whoever is
about to enqueue a run is alone with it and finds no job.

`RagCache_proofs`: `TypeCorrect` and `OutdatedOnlyIfLateHolds`. A document is
`Current` when nothing changed its chunks or status since it last became READY
and its sweep is due, under way or done. `AskInv`: a question nobody was late
for saw of every current document what a search under its filter sees now. `SweepInv`: an entry
nobody was late for that disagrees about a document is still ahead of that
document's sweep, among the keys SCAN owes or in the batch DEL has. So when all are
settled none is left, however sweeps, fills, expiries and faults interleave.

`Access_proofs` holds the theorems of five parts that decide who gets in, each
with its `TypeCorrect`.

* `FilterAgreesWithCheckHolds` and `AccessFollowsTheGrantsHolds` follow from the two
  evaluations' definitions: they read the grants differently, one document's or
  one person's, and agree because every grant is of a level in the hierarchy and
  of a document that exists.
* `SecretsDieForGoodHolds`: of the secrets there were before a step the key
  accepts only those accepted already, because what gives the key back its
  life, a rotation, also gives it a secret that was not there.
* `RegistrationsAreWholeHolds`, with `SessInv`: tokens are only issued where there
  is an account.
* `WindowsAreLimitedHolds`: `LimitInv` counts, for each window, the requests
  let through, less those Redis failed, together with those still under way that
  will be (`Through`): never more than the limit, nor than the counter of a window that lasts, so that an
  INCR within the limit leaves room for its request. It rests on the library's
  cardinality facts.
* `HandlersAreGuardedHolds`: `VisitSound` says what a request past a middleware
  has shown, `AnswerSound` what its refusal means, `WorldSeen` that what
  holds now is among what was seen since it arrived. The tables come in
  as lemmas about the chains of all 45 routes: which middlewares each has, in
  what order, and hence what a request has passed when it stands at a given one.

`Conversations_proofs`: `ConvTypeCorrect`, `NamesOutliveLaterTurnsHolds`,
`AnsweredTurnsAreWholeHolds` and `ListingsAreCompleteHolds`. `Asked` says of a turn
past its question that the question is in the conversation, after everything the
prompt was built from, and `StampsAreUnique` that the answer, which comes later,
is after it. `TurnIsWhole` keeps what the prompt recalls (`Recalled`). `ListInv` has two halves. `CursorSound`: a listing that follows
the cursor has shown what was there up to it, and a page it has read leaves out only
what is younger than all of a full page. `OffsetSound`: one that counts pages has
shown the positions before its page, and a row's position (`Rank`) cannot change,
since every row written since has a later stamp.

`Retrieval_proofs`: of `Indexing`, `IndexTypeCorrect` and `IndexIsWholeHolds`, for
every chunk size, overlap and number of words, up to the named bounds. `Chunking` is
the invariant of the loop: the pages done are covered, the page at hand is
covered up to where its window starts, and the window brings more than any piece
so far. That it does depends on rounding, which `WindowsOverlap` settles: however
`WordsPerChunk` and `StepSize` are rounded, a window has a word and the next one starts
behind its start and not behind its end. Of `Retrieval`, `RetTypeCorrect`, `FusionIsFaithfulHolds` and
`ContextIsFaithfulHolds`. Scores are fractions; being ahead in one list and not
behind in the other makes a score greater (`AheadIsPreferred`). Ties are broken by
the place in the Map, so the order is strict, and a strict order has exactly one
sorted list (`OrderExists`, `OrderIsUnique`, by counting who comes before each
element). `PassedInv` carries the selection: a candidate that was looked at and not
taken repeats one that was, or its document has its share, and neither ceases to
hold. `OthersFirst` is inductive because a candidate beyond its document's share is only
taken when every later one is of that document too.

`Services_proofs`: of `Shutdown`, `DownTypeCorrect` and `NothingRunsPastTheStoresHolds`,
with `StoresCloseLast` (nobody comes in and nothing is opened behind a
shutdown's back) and `WorkersEndListed` (a worker is listed until it
has been waited for, and what starts after the list was read is late); of `AuditTrail`,
`AuditTypeCorrect` and `EventsReachTheWorkerHolds`, with `AuditInv`: an id Redis
has kept belongs to an event of that very bucket that was processed or that too many
workers died at, so an id that is taken loses no event; of
`ProviderCalls`, `CallTypeCorrect`. `EachComponent` shows that the specification
the run `services` checks implies the specification of each of its components. So
`ServicesTypeCorrect` and `ServicesAreSafe` state all that run's invariants and
action properties, for every value of the constants.

The assumptions are about finiteness, bounds that are positive, and values that are
not used as placeholders (no tenant and no turn is `"none"`).
`RetrievalAssumption` asks for chunks of at least one token, and a chunk is counted
as 20 and more (`context-selector.service.js:69`). TLC evaluates them all.

Two things are written for the prover. It knows nothing of `SelectSeq` and `SortSeq`, so
a filtered or sorted list is stated as the one sequence of the right
elements in the right order (`CHOOSE` in `SetToSeqs`); and where one would use
induction over a sequence, the proofs take the first element that fails or
count.

Only model-checked: liveness (`JobsFinish`, `FirstRequestSettles`,
`CacheConverges`, `QueuedRunsEnd`, `LogoutEndsAccess`, `RefusalsEnd`,
`SignalsEndTheApi`, `OnlyBodiesHang`), which needs ENABLED and is out of the
prover's reach, and the violations. Every other property of a run that passes is
a theorem.

## 7. Not modelled, and why

Without state a model checker could say something about: text heuristics (query
understanding and rewriting, PII and prompt patterns, the rules of cleaning) and the
knowledge graph's extraction are string matching; metrics, error tracking and
cost estimates are counters nothing reads back; `swagger.js` and `env.js` are tables.
Schemas decide which inputs exist, and the modules take them from there.

External: what extractors, embedding and language-model providers return is the
modules' choice.

Written but reached by nothing in this version, hence no action: `requireQuota`,
`checkQuota` and the recording of usage (limits are enforced nowhere),
`requirePermission`, `cacheAside`, `auditService.log`, `costOptimizer`,
`modelRouter`, `graphSearch`, the listing and clearing of the dead-letter store,
`_deduplicateChunks` and `_applyContextLimits` of `query.service.js`. Deleting
documents has no route, so the pipeline has no such action.

Left out of modelled parts: the cached profile of `getCurrentUser`, which lists roles
no member request invalidates (`auth.service.js:245`); scores
inside one search, prompts and citations; averages and benchmark comparisons; health routes.
