------------------------------ MODULE RagCache ------------------------------
(***************************************************************************)
(* The cache of answers of one organization, between the questions that    *)
(* fill it (QueryService.query) and the documents whose processing empties *)
(* it (DocumentProcessingService.processDocument).                         *)
(*                                                                         *)
(* An answer is abstracted to what its two searches, by vector and by      *)
(* keyword, could see: which run's chunks of each document in the          *)
(* question's scope, 0 for a document that is not READY (both searches     *)
(* join on status = 'READY') or that the asker's filter keeps out.         *)
(* A cache key stands for a hash of question, documentId, topK and         *)
(* threshold, and not of who asks: a member's or a viewer's question is    *)
(* filtered by the documents that person may open, everybody else's (an    *)
(* owner's, an administrator's, an API key's, an evaluation case's, the    *)
(* first message of a conversation) is not, and all meet under one key.    *)
(* A hit hands out the entry before any filter is read; it changes nothing *)
(* and is not an action.  Later messages of a conversation do not come     *)
(* here.  A question with enableHybrid = false is one whose keyword search *)
(* failed.                                                                 *)
(***************************************************************************)
EXTENDS Naturals, FiniteSets

CONSTANTS
    Docs,      \* documents of the organization
    Keys,      \* cache keys of its questions
    Scope,     \* the documents a key's question may be answered from
    Pinned,    \* the keys with a documentId
    People,    \* members and viewers who ask
    Opens,     \* the documents each of them may open
    Askers,    \* query() calls in flight, with the set() they leave behind
    MaxRuns,   \* bound: processing runs of each document
    Faults     \* what may go wrong, a subset of FaultKinds

Searches == {"vector", "keyword"}

\* A search that fails is named.
FaultKinds == {"redis", "content", "crash", "llm"} \cup Searches

ASSUME RagCacheAssumption ==
    /\ MaxRuns \in [Docs -> Nat]
    /\ Scope \in [Keys -> SUBSET Docs]
    /\ Pinned \subseteq Keys
    /\ Opens \in [People -> SUBSET Docs]
    /\ Faults \subseteq FaultKinds

VARIABLES
    index,    \* which run's chunks a document has
    ready,    \* documents whose status is READY
    made,     \* runs made, per document
    worker,   \* the part of processDocument() that matters here, per document
    cache,    \* Redis, keys rag:tenant:<organization>:query:<hash>
    asks,     \* query() calls
    settled   \* history: documents whose last run also emptied the cache

vars == <<index, ready, made, worker, cache, asks, settled>>
----------------------------------------------------------------------------

WorkerSteps == {"idle", "processing", "stored", "invalidate", "scan", "del"}
AskSteps == {"idle", "filtering", "searching", "answering", "setting"}

Sight == [Searches -> [Docs -> Nat]]
Blind == [s \in Searches |-> [d \in Docs |-> 0]]

\* heard: the searches that answered; the other failed and counts as empty.
\* who: the person whose filter is still to be read.  allowed: the documents
\* the searches are filtered by, all of them without a filter; in an entry it
\* is history, as late is: a document became READY after one of the searches.
NoEntry == [full |-> FALSE, allowed |-> {}, heard |-> {}, seen |-> Blind, late |-> FALSE]
NoAsk == [pc |-> "idle", keys |-> {}, who |-> {}, allowed |-> {}, left |-> {},
          heard |-> {}, seen |-> Blind, late |-> FALSE]
NoSweep == [pc |-> "idle", owed |-> {}, batch |-> {}, last |-> FALSE]

Worker == [pc : WorkerSteps, owed : SUBSET Keys, batch : SUBSET Keys, last : BOOLEAN]
Entry == [full : BOOLEAN, allowed : SUBSET Docs, heard : SUBSET Searches,
          seen : Sight, late : BOOLEAN]
Ask == [pc : AskSteps, keys : SUBSET Keys, who : SUBSET People, allowed : SUBSET Docs,
        left : SUBSET Searches, heard : SUBSET Searches, seen : Sight, late : BOOLEAN]

CanFail(kind) == kind \in Faults

Full == {k \in Keys : cache[k].full}

\* The documents a search for key k goes through.  An empty filter finds
\* nothing at all; any other one gives way to a documentId.
Within(k, allowed) ==
    IF allowed = {} THEN {} ELSE IF k \in Pinned THEN Scope[k] ELSE Scope[k] \cap allowed

\* What a search for key k with this filter sees now.
Searchable(k, allowed) ==
    [d \in Docs |-> IF d \in Within(k, allowed) /\ d \in ready THEN index[d] ELSE 0]

Init ==
    /\ index = [d \in Docs |-> 0]
    /\ ready = {}
    /\ made = [d \in Docs |-> 0]
    /\ worker = [d \in Docs |-> NoSweep]
    /\ cache = [k \in Keys |-> NoEntry]
    /\ asks = [a \in Askers |-> NoAsk]
    /\ settled = Docs
----------------------------------------------------------------------------
\* The worker

GoTo(d, step) == worker' = [worker EXCEPT ![d].pc = step]

\* QUEUED and PROCESSING take the document out of every search.
StartRun(d) ==
    /\ worker[d].pc = "idle"
    /\ made[d] < MaxRuns[d]
    /\ made' = [made EXCEPT ![d] = @ + 1]
    /\ ready' = ready \ {d}
    /\ settled' = settled \ {d}
    /\ GoTo(d, "processing")
    /\ UNCHANGED <<index, cache, asks>>

StoreChunks(d) ==
    /\ worker[d].pc = "processing"
    /\ index' = [index EXCEPT ![d] = made[d]]
    /\ GoTo(d, "stored")
    /\ UNCHANGED <<ready, made, cache, asks, settled>>

\* The catch block writes FAILED and leaves the cache alone.
FailRun(d) ==
    /\ CanFail("content")
    /\ worker[d].pc \in {"processing", "stored"}
    /\ GoTo(d, "idle")
    /\ UNCHANGED <<index, ready, made, cache, asks, settled>>

\* READY is written first, the cache is emptied after it.
MarkReady(d) ==
    /\ worker[d].pc = "stored"
    /\ ready' = ready \cup {d}
    /\ asks' = [a \in Askers |->
                   IF asks[a].pc # "idle" /\ asks[a].left # Searches
                   THEN [asks[a] EXCEPT !.late = TRUE]
                   ELSE asks[a]]
    /\ GoTo(d, "invalidate")
    /\ UNCHANGED <<index, made, cache, settled>>

\* delPattern: SCAN returns, in batches, every key that is there from the
\* first call to the last (owed); a key that comes meanwhile may be missed.
ScanStart(d) ==
    /\ worker[d].pc = "invalidate"
    /\ worker' = [worker EXCEPT ![d].pc = "scan", ![d].owed = Full]
    /\ UNCHANGED <<index, ready, made, cache, asks, settled>>

ScanBatch(d) ==
    /\ worker[d].pc = "scan"
    /\ \E batch \in SUBSET Full, last \in BOOLEAN :
          /\ last => (worker[d].owed \cap Full) \subseteq batch
          /\ worker' = [worker EXCEPT ![d] =
                [pc |-> "del", owed |-> @.owed \ batch, batch |-> batch, last |-> last]]
    /\ UNCHANGED <<index, ready, made, cache, asks, settled>>

\* Mutant: an `if' where the code has do ... while.
DelFirstBatch(d) ==
    /\ worker[d].pc = "del"
    /\ cache' = [k \in Keys |-> IF k \in worker[d].batch THEN NoEntry ELSE cache[k]]
    /\ worker' = [worker EXCEPT ![d] = NoSweep]
    /\ settled' = settled \cup {d}
    /\ UNCHANGED <<index, ready, made, asks>>

\* DEL of what SCAN returned, and the next SCAN unless the cursor is 0.
DelBatch(d) ==
    /\ worker[d].pc = "del"
    /\ cache' = [k \in Keys |-> IF k \in worker[d].batch THEN NoEntry ELSE cache[k]]
    /\ IF worker[d].last
       THEN /\ worker' = [worker EXCEPT ![d] = NoSweep]
            /\ settled' = settled \cup {d}
       ELSE /\ worker' = [worker EXCEPT ![d].pc = "scan", ![d].batch = {}]
            /\ UNCHANGED settled
    /\ UNCHANGED <<index, ready, made, asks>>

\* Redis is not ready, or a command fails: delPattern returns 0, the job
\* completes and nobody tries again.
SweepFails(d) ==
    /\ CanFail("redis")
    /\ worker[d].pc \in {"invalidate", "scan", "del"}
    /\ worker' = [worker EXCEPT ![d] = NoSweep]
    /\ UNCHANGED <<index, ready, made, cache, asks, settled>>

\* The worker process dies; the queue may start the run again.
Crash(d) ==
    /\ CanFail("crash")
    /\ worker[d].pc # "idle"
    /\ worker' = [worker EXCEPT ![d] = NoSweep]
    /\ UNCHANGED <<index, ready, made, cache, asks, settled>>
----------------------------------------------------------------------------
\* A question

\* The cache has no answer, or Redis none to give: the question of one whose
\* searches are not filtered goes on to them, a person's to the filter.
Miss(a, k) ==
    /\ asks[a].pc = "idle"
    /\ ~cache[k].full \/ CanFail("redis")
    /\ \/ asks' = [asks EXCEPT ![a] =
              [NoAsk EXCEPT !.pc = "searching", !.keys = {k}, !.allowed = Docs, !.left = Searches]]
       \/ \E p \in People : asks' = [asks EXCEPT ![a] =
              [NoAsk EXCEPT !.pc = "filtering", !.keys = {k}, !.who = {p}, !.left = Searches]]
    /\ UNCHANGED <<index, ready, made, worker, cache, settled>>

\* getAccessibleDocumentIds, awaited between the lookup and the searches.  How
\* grants change what it returns is DocumentAccess.
ReadFilter(a) ==
    /\ asks[a].pc = "filtering"
    /\ \E p \in asks[a].who : asks' = [asks EXCEPT
          ![a].pc = "searching", ![a].who = {}, ![a].allowed = Opens[p]]
    /\ UNCHANGED <<index, ready, made, worker, cache, settled>>

\* The two searches run side by side (Promise.allSettled); one that rejects
\* counts as one that found nothing.
Search(a, s) ==
    /\ asks[a].pc = "searching"
    /\ s \in asks[a].left
    /\ \/ \E k \in asks[a].keys : asks' = [asks EXCEPT
              ![a].left = @ \ {s},
              ![a].heard = @ \cup {s},
              ![a].seen = [@ EXCEPT ![s] = Searchable(k, asks[a].allowed)]]
       \/ CanFail(s) /\ asks' = [asks EXCEPT ![a].left = @ \ {s}]
    /\ UNCHANGED <<index, ready, made, worker, cache, settled>>

\* Without a chunk, and a search may find none that is relevant, the call
\* ends here and caches nothing.
Retrieve(a) ==
    /\ asks[a].pc = "searching"
    /\ asks[a].left = {}
    /\ \/ asks' = [asks EXCEPT ![a] = NoAsk]
       \/ asks[a].seen # Blind /\ asks' = [asks EXCEPT ![a].pc = "answering"]
    /\ UNCHANGED <<index, ready, made, worker, cache, settled>>

\* The model answers and the answer is returned, or the model fails.
Answer(a) ==
    /\ asks[a].pc = "answering"
    /\ \/ asks' = [asks EXCEPT ![a].pc = "setting"]
       \/ CanFail("llm") /\ asks' = [asks EXCEPT ![a] = NoAsk]
    /\ UNCHANGED <<index, ready, made, worker, cache, settled>>

\* cacheService.set() is not awaited: it lands when it lands, or never.  A
\* scan under way owes no key that was not there when it landed.
Store(a) ==
    /\ asks[a].pc = "setting"
    /\ \/ /\ cache' = [k \in Keys |->
                 IF k \in asks[a].keys
                 THEN [full |-> TRUE, allowed |-> asks[a].allowed, heard |-> asks[a].heard,
                       seen |-> asks[a].seen, late |-> asks[a].late]
                 ELSE cache[k]]
          /\ worker' = [d \in Docs |->
                 [worker[d] EXCEPT !.owed = @ \ (asks[a].keys \ Full)]]
       \/ CanFail("redis") /\ UNCHANGED <<cache, worker>>
    /\ asks' = [asks EXCEPT ![a] = NoAsk]
    /\ UNCHANGED <<index, ready, made, settled>>

\* Mutant: SET without EX.
NeverExpire(k) == FALSE

\* The TTL of an entry, RAG_CACHE_TTL_SECONDS, runs out.
Expire(k) ==
    /\ cache[k].full
    /\ cache' = [cache EXCEPT ![k] = NoEntry]
    /\ UNCHANGED <<index, ready, made, worker, asks, settled>>
----------------------------------------------------------------------------

WorkerStep(d) == StoreChunks(d) \/ MarkReady(d) \/ ScanStart(d) \/ ScanBatch(d) \/ DelBatch(d)
AskStep(a) ==
    ReadFilter(a) \/ (\E s \in Searches : Search(a, s)) \/ Retrieve(a) \/ Answer(a) \/ Store(a)

Next ==
    \/ \E d \in Docs : StartRun(d) \/ WorkerStep(d) \/ FailRun(d) \/ SweepFails(d) \/ Crash(d)
    \/ \E a \in Askers, k \in Keys : Miss(a, k)
    \/ \E a \in Askers : AskStep(a)
    \/ \E k \in Keys : Expire(k)

Spec == Init /\ [][Next]_vars

\* The event loops go on and Redis expires what is due.
FairSpec ==
    /\ Spec
    /\ \A d \in Docs : WF_vars(WorkerStep(d))
    /\ \A a \in Askers : WF_vars(AskStep(a))
    /\ \A k \in Keys : WF_vars(Expire(k))
----------------------------------------------------------------------------
\* Properties

\* Types; a document's chunks are those of a run that was made.
TypeOK ==
    /\ index \in [Docs -> Nat] /\ made \in [Docs -> Nat]
    /\ \A d \in Docs : index[d] <= made[d] /\ made[d] <= MaxRuns[d]
    /\ ready \subseteq Docs /\ settled \subseteq Docs
    /\ worker \in [Docs -> Worker]
    /\ cache \in [Keys -> Entry]
    /\ asks \in [Askers -> Ask]

\* The entry of k is not what the searches that made it would find today,
\* under the filter they went by.
Outdated(k) ==
    /\ cache[k].full
    /\ \E s \in cache[k].heard : cache[k].seen[s] # Searchable(k, cache[k].allowed)

\* Once every document's last run went through its invalidation, an entry is
\* outdated for the asker it was made for, and for everyone else with the same
\* filter, only if a document became READY between one of its searches and its
\* set(): the sweep itself, in batches and beside other sweeps, misses none.
\* Whom the entry is handed to is HitsStayWithinAccess.
OutdatedOnlyIfLate ==
    settled = Docs => \A k \in Keys : Outdated(k) => cache[k].late

\* Whatever overlapped, failed or died, once processing stops the cache comes
\* to agree with the index for good, each entry under its own filter: an
\* outdated entry lives one TTL.
CacheConverges == <>[](\A k \in Keys : ~Outdated(k))

\* After the invalidation the fresh chunks are what questions are answered
\* from, as the comment beside the call says.  It does not hold (see README).
FreshAfterInvalidation ==
    settled = Docs => \A k \in Keys : ~Outdated(k)

\* The documents the entry of k draws on.
Drawn(k) == {d \in Docs : \E s \in cache[k].heard : cache[k].seen[s][d] # 0}

\* Whoever asks next for a cached question gets chunks only of documents that
\* person may open, as the documentation says of every retrieval.  It does not
\* hold: the lookup comes before the filter and the key names nobody (see
\* README).
HitsStayWithinAccess ==
    \A k \in Keys, p \in People : cache[k].full => Drawn(k) \subseteq Opens[p]
=============================================================================
