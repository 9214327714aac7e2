-------------------------- MODULE RagCache_proofs --------------------------
(***************************************************************************)
(* Proofs about the answer cache: for any number of documents, keys and    *)
(* questions, under every fault, an entry that no longer agrees with the   *)
(* index once every document's invalidation went through was searched      *)
(* before, and stored after, a document became READY.                      *)
(***************************************************************************)
EXTENDS RagCache, TLAPS

\* The asks and the workers know where they are.
PlaceInv ==
    /\ \A a \in Askers :
          /\ asks[a].pc = "idle" => asks[a].heard = {} /\ asks[a].left = {}
          /\ asks[a].pc = "filtering" => asks[a].heard = {}
          /\ asks[a].heard \cap asks[a].left = {}
          /\ \A k, l \in asks[a].keys : k = l
    /\ \A d \in Docs :
          /\ worker[d].pc # "idle" => d \notin settled
          /\ worker[d].pc \in {"processing", "stored"} => d \notin ready

\* What a search finds of d has not changed since d last became READY.
Current(d) == d \in settled \/ worker[d].pc \in {"invalidate", "scan", "del"}

\* What a search for k with the filter S finds of d.
Found(k, S, d) == IF d \in Within(k, S) /\ d \in ready THEN index[d] ELSE 0

\* A question nobody was late for saw what a search would still see, of every
\* document that has not been touched since.
AskInv ==
    \A a \in Askers, d \in Docs, s \in Searches, k \in Keys :
        /\ ~asks[a].late /\ s \in asks[a].heard /\ k \in asks[a].keys
        /\ Current(d)
        => asks[a].seen[s][d] = Found(k, asks[a].allowed, d)

\* Entry k, which nobody was late for, saw something else of d.
Stale(k, d) ==
    /\ cache[k].full /\ ~cache[k].late
    /\ \E s \in cache[k].heard : cache[k].seen[s][d] # Found(k, cache[k].allowed, d)

\* Such an entry is still ahead of the sweep that d owes.
SweepInv ==
    \A k \in Keys, d \in Docs : Stale(k, d) =>
        /\ d \notin settled
        /\ worker[d].pc = "scan" => k \in worker[d].owed
        /\ worker[d].pc = "del" =>
              k \in worker[d].batch \/ (k \in worker[d].owed /\ ~worker[d].last)

IInv == TypeOK /\ PlaceInv /\ AskInv /\ SweepInv
----------------------------------------------------------------------------
USE RagCacheAssumption

LEMMA Blanks ==
    NoSweep \in Worker /\ NoEntry \in Entry /\ NoAsk \in Ask
<1>1. Blind \in Sight
  BY DEF Blind, Sight, Searches
<1> QED BY <1>1 DEF NoSweep, NoEntry, NoAsk, Worker, Entry, Ask, WorkerSteps, AskSteps

LEMMA InitTypeOK == Init => TypeOK
BY Blanks DEF Init, TypeOK

LEMMA InitIInv == Init => IInv
<1> SUFFICES ASSUME Init PROVE IInv
  OBVIOUS
<1>1. PlaceInv
  BY DEF Init, PlaceInv, NoAsk, NoSweep
<1>2. AskInv
  BY DEF Init, AskInv, NoAsk
<1>3. SweepInv
  BY DEF Init, SweepInv, Stale, NoEntry
<1> QED BY InitTypeOK, <1>1, <1>2, <1>3 DEF IInv
----------------------------------------------------------------------------
\* What a search sees is a number per document.
LEMMA SearchableType ==
    ASSUME TypeOK, NEW k \in Keys, NEW S
    PROVE  /\ Searchable(k, S) \in [Docs -> Nat]
           /\ \A d \in Docs : Searchable(k, S)[d] = Found(k, S, d)
BY DEF Searchable, Found, TypeOK

LEMMA NextTypeOK == TypeOK /\ [Next]_vars => TypeOK'
<1> SUFFICES ASSUME TypeOK, [Next]_vars PROVE TypeOK'
  OBVIOUS
<1> USE Blanks DEF TypeOK
<1>s. ASSUME NEW d \in Docs, NEW pc \in WorkerSteps
      PROVE  [worker EXCEPT ![d].pc = pc] \in [Docs -> Worker]
  BY DEF Worker
<1>1. ASSUME NEW d \in Docs, StartRun(d) PROVE TypeOK'
  <2>1. worker' \in [Docs -> Worker]
    BY <1>1, <1>s DEF StartRun, GoTo, WorkerSteps
  <2>2. made' \in [Docs -> Nat] /\ made' = [made EXCEPT ![d] = made[d] + 1]
    BY <1>1 DEF StartRun
  <2>3. ready' \subseteq Docs /\ settled' \subseteq Docs
    BY <1>1 DEF StartRun
  <2>4. ASSUME NEW e \in Docs PROVE index[e] <= made'[e] /\ made'[e] <= MaxRuns[e]
    <3>1. made[e] \in Nat /\ index[e] \in Nat /\ MaxRuns[e] \in Nat
      OBVIOUS
    <3>2. CASE e = d
      <4>1. made'[e] = made[e] + 1 /\ made[e] < MaxRuns[e]
        BY <1>1, <2>2, <3>2 DEF StartRun
      <4>2. index[e] <= made[e]
        OBVIOUS
      <4> QED BY <3>1, <4>1, <4>2
    <3>3. CASE e # d
      BY <2>2, <3>3
    <3> QED BY <3>2, <3>3
  <2> QED BY <1>1, <2>1, <2>2, <2>3, <2>4 DEF StartRun
<1>2. ASSUME NEW d \in Docs, StoreChunks(d) PROVE TypeOK'
  <2>1. worker' \in [Docs -> Worker]
    BY <1>2, <1>s DEF StoreChunks, GoTo, WorkerSteps
  <2>2. index' \in [Docs -> Nat] /\ index' = [index EXCEPT ![d] = made[d]]
    BY <1>2 DEF StoreChunks
  <2>3. ASSUME NEW e \in Docs PROVE index'[e] <= made[e]
    <3>1. CASE e = d
      <4>1. index'[e] = made[e] /\ made[e] \in Nat
        BY <2>2, <3>1
      <4> QED BY <4>1
    <3>2. CASE e # d
      BY <2>2, <3>2
    <3> QED BY <3>1, <3>2
  <2> QED BY <1>2, <2>1, <2>2, <2>3 DEF StoreChunks
<1>3. ASSUME NEW d \in Docs, FailRun(d) PROVE TypeOK'
  <2>1. worker' \in [Docs -> Worker]
    BY <1>3, <1>s DEF FailRun, GoTo, WorkerSteps
  <2> QED BY <1>3, <2>1 DEF FailRun
<1>4. ASSUME NEW d \in Docs, MarkReady(d) PROVE TypeOK'
  <2>1. worker' \in [Docs -> Worker]
    BY <1>4, <1>s DEF MarkReady, GoTo, WorkerSteps
  <2>2. asks' \in [Askers -> Ask]
    BY <1>4 DEF MarkReady, Ask
  <2> QED BY <1>4, <2>1, <2>2 DEF MarkReady
<1>5. ASSUME NEW d \in Docs, ScanStart(d) PROVE TypeOK'
  <2>1. worker' \in [Docs -> Worker]
    BY <1>5 DEF ScanStart, Full, Worker, WorkerSteps
  <2> QED BY <1>5, <2>1 DEF ScanStart
<1>6. ASSUME NEW d \in Docs, ScanBatch(d) PROVE TypeOK'
  <2>1. PICK batch \in SUBSET Full, last \in BOOLEAN :
          worker' = [worker EXCEPT ![d] =
             [pc |-> "del", owed |-> @.owed \ batch, batch |-> batch, last |-> last]]
    BY <1>6 DEF ScanBatch
  <2>2. batch \in SUBSET Keys
    BY DEF Full
  <2>3. worker' \in [Docs -> Worker]
    BY <2>1, <2>2 DEF Worker, WorkerSteps
  <2> QED BY <1>6, <2>3 DEF ScanBatch
<1>7. ASSUME NEW d \in Docs, DelBatch(d) PROVE TypeOK'
  <2>1. cache' \in [Keys -> Entry]
    BY <1>7 DEF DelBatch
  <2>2. worker' \in [Docs -> Worker]
    <3>1. CASE worker[d].last
      BY <1>7, <3>1 DEF DelBatch
    <3>2. CASE ~worker[d].last
      <4>1. worker' = [worker EXCEPT ![d] = [worker[d] EXCEPT !.pc = "scan", !.batch = {}]]
        BY <1>7, <3>2 DEF DelBatch
      <4>2. [worker[d] EXCEPT !.pc = "scan", !.batch = {}] \in Worker
        BY DEF Worker, WorkerSteps
      <4> QED BY <4>1, <4>2
    <3> QED BY <3>1, <3>2
  <2>3. settled' \subseteq Docs
    BY <1>7 DEF DelBatch
  <2> QED BY <1>7, <2>1, <2>2, <2>3 DEF DelBatch
<1>8. ASSUME NEW d \in Docs, SweepFails(d) \/ Crash(d) PROVE TypeOK'
  BY <1>8 DEF SweepFails, Crash
<1>9. ASSUME NEW a \in Askers, NEW k \in Keys, Miss(a, k) PROVE TypeOK'
  <2>2. CASE asks' = [asks EXCEPT ![a] =
              [NoAsk EXCEPT !.pc = "searching", !.keys = {k}, !.allowed = Docs, !.left = Searches]]
    <3>1. [NoAsk EXCEPT !.pc = "searching", !.keys = {k}, !.allowed = Docs, !.left = Searches] \in Ask
      BY DEF Ask, AskSteps
    <3> QED BY <1>9, <2>2, <3>1 DEF Miss
  <2>3. ASSUME NEW p \in People, asks' = [asks EXCEPT ![a] =
              [NoAsk EXCEPT !.pc = "filtering", !.keys = {k}, !.who = {p}, !.left = Searches]]
        PROVE  TypeOK'
    <3>1. [NoAsk EXCEPT !.pc = "filtering", !.keys = {k}, !.who = {p}, !.left = Searches] \in Ask
      BY DEF Ask, AskSteps
    <3> QED BY <1>9, <2>3, <3>1 DEF Miss
  <2> QED BY <1>9, <2>2, <2>3 DEF Miss
<1>10. ASSUME NEW a \in Askers, NEW s \in Searches, Search(a, s) PROVE TypeOK'
  <2>1. ASSUME NEW k \in asks[a].keys,
               asks' = [asks EXCEPT
                  ![a].left = @ \ {s},
                  ![a].heard = @ \cup {s},
                  ![a].seen = [@ EXCEPT ![s] = Searchable(k, asks[a].allowed)]]
        PROVE  asks' \in [Askers -> Ask]
    <3>1. k \in Keys /\ asks[a].seen \in Sight
      BY DEF Ask
    <3>2. [asks[a].seen EXCEPT ![s] = Searchable(k, asks[a].allowed)] \in Sight
      BY <3>1, SearchableType DEF Sight
    <3>3. asks' = [asks EXCEPT ![a] =
              [asks[a] EXCEPT !.left = @ \ {s},
                              !.heard = @ \cup {s},
                              !.seen = [@ EXCEPT ![s] = Searchable(k, asks[a].allowed)]]]
      BY <2>1
    <3>4. [asks[a] EXCEPT !.left = @ \ {s},
                          !.heard = @ \cup {s},
                          !.seen = [@ EXCEPT ![s] = Searchable(k, asks[a].allowed)]] \in Ask
      BY <3>2 DEF Ask
    <3> QED BY <3>3, <3>4
  <2>2. ASSUME asks' = [asks EXCEPT ![a].left = @ \ {s}]
        PROVE  asks' \in [Askers -> Ask]
    <3>1. [asks[a] EXCEPT !.left = @ \ {s}] \in Ask
      BY DEF Ask
    <3>2. asks' = [asks EXCEPT ![a] = [asks[a] EXCEPT !.left = @ \ {s}]]
      BY <2>2
    <3> QED BY <3>1, <3>2
  <2>3. asks' \in [Askers -> Ask]
    BY <1>10, <2>1, <2>2 DEF Search
  <2> QED BY <1>10, <2>3 DEF Search
<1>11. ASSUME NEW a \in Askers, Retrieve(a) \/ Answer(a) PROVE TypeOK'
  <2>1. \/ asks' = [asks EXCEPT ![a] = NoAsk]
        \/ \E step \in {"answering", "setting"} : asks' = [asks EXCEPT ![a].pc = step]
    BY <1>11 DEF Retrieve, Answer
  <2>2. ASSUME NEW step \in {"answering", "setting"}, asks' = [asks EXCEPT ![a].pc = step]
        PROVE  asks' \in [Askers -> Ask]
    <3>1. [asks[a] EXCEPT !.pc = step] \in Ask
      BY DEF Ask, AskSteps
    <3> QED BY <2>2, <3>1
  <2>3. asks' \in [Askers -> Ask]
    BY <2>1, <2>2
  <2> QED BY <1>11, <2>3 DEF Retrieve, Answer
<1>15. ASSUME NEW a \in Askers, ReadFilter(a) PROVE TypeOK'
  <2>1. PICK p \in asks[a].who : asks' = [asks EXCEPT
            ![a].pc = "searching", ![a].who = {}, ![a].allowed = Opens[p]]
    BY <1>15 DEF ReadFilter
  <2>2. Opens[p] \in SUBSET Docs
    BY DEF Ask
  <2>3. [asks[a] EXCEPT !.pc = "searching", !.who = {}, !.allowed = Opens[p]] \in Ask
    BY <2>2 DEF Ask, AskSteps
  <2>4. asks' = [asks EXCEPT ![a] =
            [asks[a] EXCEPT !.pc = "searching", !.who = {}, !.allowed = Opens[p]]]
    BY <2>1
  <2> QED BY <1>15, <2>3, <2>4 DEF ReadFilter
<1>12. ASSUME NEW a \in Askers, Store(a) PROVE TypeOK'
  <2>1. asks' \in [Askers -> Ask]
    BY <1>12 DEF Store
  <2>2. cache' \in [Keys -> Entry]
    <3>1. [full |-> TRUE, allowed |-> asks[a].allowed, heard |-> asks[a].heard,
           seen |-> asks[a].seen, late |-> asks[a].late] \in Entry
      BY DEF Entry, Ask
    <3>2. CASE UNCHANGED cache
      BY <3>2
    <3>3. CASE cache' = [k \in Keys |->
                 IF k \in asks[a].keys
                 THEN [full |-> TRUE, allowed |-> asks[a].allowed, heard |-> asks[a].heard,
                       seen |-> asks[a].seen, late |-> asks[a].late]
                 ELSE cache[k]]
      BY <3>1, <3>3
    <3> QED BY <1>12, <3>2, <3>3 DEF Store
  <2>3. worker' \in [Docs -> Worker]
    <3>1. CASE UNCHANGED worker
      BY <3>1
    <3>2. CASE worker' = [d \in Docs |->
                 [worker[d] EXCEPT !.owed = @ \ (asks[a].keys \ Full)]]
      <4>1. ASSUME NEW d \in Docs
            PROVE  [worker[d] EXCEPT !.owed = @ \ (asks[a].keys \ Full)] \in Worker
        BY DEF Worker
      <4> QED BY <3>2, <4>1
    <3> QED BY <1>12, <3>1, <3>2 DEF Store
  <2> QED BY <1>12, <2>1, <2>2, <2>3 DEF Store
<1>13. ASSUME NEW k \in Keys, Expire(k) PROVE TypeOK'
  BY <1>13 DEF Expire
<1>14. CASE UNCHANGED vars
  BY <1>14 DEF vars
<1> QED BY <1>1, <1>2, <1>3, <1>4, <1>5, <1>6, <1>7, <1>8, <1>9, <1>10, <1>11,
           <1>12, <1>13, <1>14, <1>15 DEF Next, WorkerStep, AskStep

\* The type invariant of the answer cache.
THEOREM TypeCorrect == Spec => []TypeOK
BY InitTypeOK, NextTypeOK, PTL DEF Spec
----------------------------------------------------------------------------
\* The steps of a run, by the place they leave from and lead to.
LEMMA WorkerMoves ==
    ASSUME TypeOK, NEW e \in Docs,
           \/ StartRun(e) \/ WorkerStep(e) \/ FailRun(e) \/ SweepFails(e) \/ Crash(e)
    PROVE  \A d \in Docs : d # e => worker'[d] = worker[d]
BY DEF TypeOK, StartRun, WorkerStep, StoreChunks, MarkReady, ScanStart, ScanBatch,
       DelBatch, FailRun, SweepFails, Crash, GoTo

LEMMA NextPlaceInv == TypeOK /\ PlaceInv /\ [Next]_vars => PlaceInv'
<1> SUFFICES ASSUME TypeOK, PlaceInv, [Next]_vars PROVE PlaceInv'
  OBVIOUS
<1> DEFINE AskPlace(a) == /\ asks[a].pc = "idle" => asks[a].heard = {} /\ asks[a].left = {}
                          /\ asks[a].pc = "filtering" => asks[a].heard = {}
                          /\ asks[a].heard \cap asks[a].left = {}
                          /\ \A k, l \in asks[a].keys : k = l
           DocPlace(d) == /\ worker[d].pc # "idle" => d \notin settled
                          /\ worker[d].pc \in {"processing", "stored"} => d \notin ready
<1> SUFFICES (\A a \in Askers : AskPlace(a)') /\ (\A d \in Docs : DocPlace(d)')
  BY DEF PlaceInv
<1>0. (\A a \in Askers : AskPlace(a)) /\ (\A d \in Docs : DocPlace(d))
  BY DEF PlaceInv
<1>1. ASSUME NEW e \in Docs,
             StartRun(e) \/ WorkerStep(e) \/ FailRun(e) \/ SweepFails(e) \/ Crash(e)
      PROVE  \A d \in Docs : DocPlace(d)'
  <2>1. SUFFICES ASSUME NEW d \in Docs PROVE DocPlace(d)'
    OBVIOUS
  <2>2. DocPlace(d)
    BY <1>0
  <2>3. CASE d = e
    <3> USE <2>2, <2>3 DEF TypeOK
    <3>1. CASE StartRun(e)
      BY <3>1 DEF StartRun, GoTo
    <3>2. CASE StoreChunks(e)
      BY <3>2 DEF StoreChunks, GoTo
    <3>3. CASE MarkReady(e)
      BY <3>3 DEF MarkReady, GoTo
    <3>4. CASE ScanStart(e)
      BY <3>4 DEF ScanStart
    <3>5. CASE ScanBatch(e)
      <4>1. worker'[d].pc = "del" /\ settled' = settled /\ worker[d].pc = "scan"
        BY <3>5 DEF ScanBatch
      <4> QED BY <4>1
    <3>6. CASE DelBatch(e)
      <4>1. CASE worker[e].last
        BY <3>6, <4>1 DEF DelBatch, NoSweep
      <4>2. CASE ~worker[e].last
        <5>1. settled' = settled /\ ready' = ready /\ worker[d].pc = "del"
          BY <3>6, <4>2 DEF DelBatch
        <5>2. worker'[d].pc = "scan"
          BY <3>6, <4>2 DEF DelBatch, Worker
        <5> QED BY <5>1, <5>2
      <4> QED BY <4>1, <4>2
    <3>7. CASE FailRun(e)
      BY <3>7 DEF FailRun, GoTo
    <3>8. CASE SweepFails(e) \/ Crash(e)
      BY <3>8 DEF SweepFails, Crash, NoSweep
    <3> QED BY <1>1, <3>1, <3>2, <3>3, <3>4, <3>5, <3>6, <3>7, <3>8 DEF WorkerStep
  <2>4. CASE d # e
    <3>1. worker'[d] = worker[d]
      BY <1>1, <2>4, WorkerMoves
    <3>2. (d \in settled' => d \in settled) /\ (d \in ready' => d \in ready)
      BY <1>1, <2>4 DEF StartRun, WorkerStep, StoreChunks, MarkReady,
         ScanStart, ScanBatch, DelBatch, FailRun, SweepFails, Crash
    <3> QED BY <2>2, <3>1, <3>2
  <2> QED BY <2>3, <2>4
<1>2. ASSUME NEW e \in Docs,
             StartRun(e) \/ WorkerStep(e) \/ FailRun(e) \/ SweepFails(e) \/ Crash(e)
      PROVE  \A a \in Askers : AskPlace(a)'
  <2>1. CASE MarkReady(e)
    <3> SUFFICES ASSUME NEW a \in Askers PROVE AskPlace(a)'
      OBVIOUS
    <3>1. asks'[a] = asks[a] \/ asks'[a] = [asks[a] EXCEPT !.late = TRUE]
      BY <2>1 DEF MarkReady
    <3>2. asks'[a].pc = asks[a].pc /\ asks'[a].heard = asks[a].heard /\ asks'[a].left = asks[a].left
         /\ asks'[a].keys = asks[a].keys
      BY <3>1 DEF TypeOK, Ask
    <3> QED BY <1>0, <3>2
  <2>2. CASE ~MarkReady(e)
    <3>1. asks' = asks
      BY <1>2, <2>2 DEF StartRun, WorkerStep, StoreChunks, ScanStart, ScanBatch,
         DelBatch, FailRun, SweepFails, Crash
    <3> QED BY <1>0, <3>1
  <2> QED BY <2>1, <2>2
<1>3. ASSUME NEW b \in Askers, (\E k \in Keys : Miss(b, k)) \/ AskStep(b)
      PROVE  \A a \in Askers : AskPlace(a)'
  <2> SUFFICES ASSUME NEW a \in Askers PROVE AskPlace(a)'
    OBVIOUS
  <2>1. CASE a # b
    <3>1. asks'[a] = asks[a]
      BY <1>3, <2>1 DEF TypeOK, Miss, AskStep, ReadFilter, Search, Retrieve, Answer, Store
    <3> QED BY <1>0, <3>1
  <2>2. CASE a = b
    <3>1. ASSUME NEW s \in Searches, Search(b, s) PROVE AskPlace(a)'
      <4>1. asks'[a].pc = asks[a].pc /\ asks'[a].left = asks[a].left \ {s}
            /\ asks'[a].keys = asks[a].keys
        BY <2>2, <3>1 DEF TypeOK, Ask, Search
      <4>2. asks'[a].heard = asks[a].heard \/ asks'[a].heard = asks[a].heard \cup {s}
        BY <2>2, <3>1 DEF TypeOK, Ask, Search
      <4>3. asks[a].pc = "searching"
        BY <1>0, <2>2, <3>1 DEF Search
      <4> QED BY <1>0, <4>1, <4>2, <4>3
    <3>2. CASE \E k \in Keys : Miss(b, k)
      <4>1. PICK k \in Keys : Miss(a, k)
        BY <2>2, <3>2
      <4>2. asks'[a].pc # "idle" /\ asks'[a].heard = {} /\ asks'[a].keys = {k}
        BY <4>1, Blanks DEF TypeOK, Miss, NoAsk
      <4> QED BY <4>2
    <3>3. CASE Retrieve(b)
      BY <1>0, <2>2, <3>3, Blanks DEF TypeOK, Ask, Retrieve, NoAsk
    <3>4. CASE Answer(b)
      BY <1>0, <2>2, <3>4, Blanks DEF TypeOK, Ask, Answer, NoAsk
    <3>5. CASE Store(b)
      BY <2>2, <3>5, Blanks DEF TypeOK, Ask, Store, NoAsk
    <3>6. CASE ReadFilter(b)
      <4>1. PICK q \in asks[b].who : asks' = [asks EXCEPT
                ![b].pc = "searching", ![b].who = {}, ![b].allowed = Opens[q]]
        BY <3>6 DEF ReadFilter
      <4>2. /\ asks'[a].pc = "searching" /\ asks'[a].left = asks[a].left
            /\ asks'[a].heard = asks[a].heard /\ asks'[a].keys = asks[a].keys
        BY <2>2, <4>1 DEF TypeOK, Ask
      <4> QED BY <1>0, <4>2
    <3> QED BY <1>3, <3>1, <3>2, <3>3, <3>4, <3>5, <3>6 DEF AskStep
  <2> QED BY <2>1, <2>2
<1>4. ASSUME NEW b \in Askers, (\E k \in Keys : Miss(b, k)) \/ AskStep(b)
      PROVE  \A d \in Docs : DocPlace(d)'
  <2> SUFFICES ASSUME NEW d \in Docs PROVE DocPlace(d)'
    OBVIOUS
  <2>1. UNCHANGED <<ready, settled>>
    BY <1>4 DEF Miss, AskStep, ReadFilter, Search, Retrieve, Answer, Store
  <2>2. worker'[d].pc = worker[d].pc
    <3>1. CASE Store(b)
      <4>1. \/ worker' = worker
            \/ worker'[d] = [worker[d] EXCEPT !.owed = @ \ (asks[b].keys \ Full)]
        BY <3>1 DEF Store
      <4> QED BY <4>1 DEF TypeOK, Worker
    <3>2. CASE ~Store(b)
      BY <1>4, <3>2 DEF Miss, AskStep, ReadFilter, Search, Retrieve, Answer
    <3> QED BY <3>1, <3>2
  <2> QED BY <1>0, <2>1, <2>2
<1>5. CASE (\E k \in Keys : Expire(k)) \/ UNCHANGED vars
  BY <1>0, <1>5 DEF Expire, vars
<1> QED BY <1>1, <1>2, <1>3, <1>4, <1>5 DEF Next
----------------------------------------------------------------------------
\* A document is current after a step of a worker only if it was before, or
\* became READY.
LEMMA CurrentBefore ==
    ASSUME TypeOK, PlaceInv, NEW d \in Docs, NEW e \in Docs,
           StartRun(e) \/ WorkerStep(e) \/ FailRun(e) \/ SweepFails(e) \/ Crash(e),
           Current(d)'
    PROVE  /\ Current(d) \/ (d = e /\ MarkReady(e))
           /\ ~(d = e /\ (StartRun(e) \/ StoreChunks(e)))
           /\ ~(d = e /\ MarkReady(e)) =>
                 index'[d] = index[d] /\ (d \in ready' <=> d \in ready)
<1> USE DEF Current
<1>1. CASE d # e
  <2>1. worker'[d] = worker[d]
    BY <1>1, WorkerMoves
  <2>2. d \in settled' => d \in settled
    BY <1>1 DEF StartRun, WorkerStep, StoreChunks, MarkReady,
       ScanStart, ScanBatch, DelBatch, FailRun, SweepFails, Crash
  <2>3. index'[d] = index[d] /\ (d \in ready' <=> d \in ready)
    BY <1>1 DEF TypeOK, StartRun, WorkerStep, StoreChunks, MarkReady,
       ScanStart, ScanBatch, DelBatch, FailRun, SweepFails, Crash
  <2> QED BY <1>1, <2>1, <2>2, <2>3
<1>2. CASE d = e
  <2> USE <1>2 DEF TypeOK
  <2>0. worker[d].pc # "idle" => d \notin settled
    BY DEF PlaceInv
  <2>1. ~StartRun(e)
    <3> SUFFICES ASSUME StartRun(e) PROVE FALSE
      OBVIOUS
    <3>1. worker'[d].pc = "processing" /\ d \notin settled'
      BY DEF StartRun, GoTo
    <3> QED BY <3>1
  <2>2. ~StoreChunks(e)
    <3> SUFFICES ASSUME StoreChunks(e) PROVE FALSE
      OBVIOUS
    <3>1. worker'[d].pc = "stored" /\ settled' = settled /\ worker[d].pc = "processing"
      BY DEF StoreChunks, GoTo
    <3> QED BY <2>0, <3>1
  <2>3. CASE MarkReady(e)
    BY <2>1, <2>2, <2>3
  <2>4. CASE ScanStart(e) \/ ScanBatch(e) \/ DelBatch(e)
    <3>1. Current(d) /\ UNCHANGED <<index, ready>>
      BY <2>4 DEF ScanStart, ScanBatch, DelBatch
    <3> QED BY <2>1, <2>2, <3>1
  <2>5. CASE FailRun(e)
    <3>1. worker'[d].pc = "idle" /\ UNCHANGED <<settled, index, ready>>
      BY <2>5 DEF FailRun, GoTo
    <3> QED BY <2>1, <2>2, <3>1
  <2>6. CASE SweepFails(e) \/ Crash(e)
    <3>1. worker'[d].pc = "idle" /\ UNCHANGED <<settled, index, ready>>
      BY <2>6 DEF SweepFails, Crash, NoSweep
    <3> QED BY <2>1, <2>2, <3>1
  <2> QED BY <2>1, <2>2, <2>3, <2>4, <2>5, <2>6 DEF WorkerStep
<1> QED BY <1>1, <1>2

LEMMA NextAskInv == TypeOK /\ PlaceInv /\ AskInv /\ [Next]_vars => AskInv'
<1> USE DEF Found
<1> SUFFICES ASSUME TypeOK, PlaceInv, AskInv, [Next]_vars,
                    NEW a \in Askers, NEW d \in Docs, NEW s \in Searches, NEW k \in Keys,
                    ~asks'[a].late, s \in asks'[a].heard, k \in asks'[a].keys, Current(d)'
             PROVE  asks'[a].seen[s][d] = Found(k, asks[a].allowed, d)'
  BY DEF AskInv
<1>0. /\ ~asks[a].late /\ s \in asks[a].heard /\ k \in asks[a].keys /\ Current(d)
      => asks[a].seen[s][d] = Found(k, asks[a].allowed, d)
  BY DEF AskInv
<1>1. ASSUME NEW e \in Docs,
             StartRun(e) \/ WorkerStep(e) \/ FailRun(e) \/ SweepFails(e) \/ Crash(e)
      PROVE  asks'[a].seen[s][d] = Found(k, asks[a].allowed, d)'
  <2>1. /\ asks'[a].heard = asks[a].heard /\ asks'[a].keys = asks[a].keys
        /\ asks'[a].seen = asks[a].seen /\ ~asks[a].late
        /\ asks'[a].allowed = asks[a].allowed
        /\ MarkReady(e) => asks[a].heard = {}
    <3>1. CASE MarkReady(e)
      <4>1. asks[a].pc # "idle" /\ asks[a].left # Searches =>
               asks'[a] = [asks[a] EXCEPT !.late = TRUE]
        BY <3>1 DEF MarkReady
      <4>2. asks'[a] = asks[a] /\ ~(asks[a].pc # "idle" /\ asks[a].left # Searches)
        BY <3>1, <4>1 DEF MarkReady, TypeOK, Ask
      <4>3. asks[a].heard = {}
        BY <4>2 DEF PlaceInv, TypeOK, Ask
      <4> QED BY <4>2, <4>3
    <3>2. CASE ~MarkReady(e)
      <4>1. asks' = asks
        BY <1>1, <3>2 DEF StartRun, WorkerStep, StoreChunks, ScanStart, ScanBatch,
           DelBatch, FailRun, SweepFails, Crash
      <4> QED BY <3>2, <4>1
    <3> QED BY <3>1, <3>2
  <2>2. ~MarkReady(e)
    BY <2>1
  <2>3. Current(d) /\ index'[d] = index[d] /\ (d \in ready' <=> d \in ready)
    BY <1>1, <2>2, CurrentBefore
  <2> QED BY <1>0, <2>1, <2>3
<1>2. ASSUME NEW b \in Askers, (\E l \in Keys : Miss(b, l)) \/ AskStep(b)
      PROVE  asks'[a].seen[s][d] = Found(k, asks[a].allowed, d)'
  <2>1. UNCHANGED <<index, ready, settled>>
    BY <1>2 DEF Miss, AskStep, ReadFilter, Search, Retrieve, Answer, Store
  <2>2. worker'[d].pc = worker[d].pc
    <3>1. CASE Store(b)
      <4>1. \/ worker' = worker
            \/ worker'[d] = [worker[d] EXCEPT !.owed = @ \ (asks[b].keys \ Full)]
        BY <3>1 DEF Store
      <4> QED BY <4>1 DEF TypeOK, Worker
    <3>2. CASE ~Store(b)
      BY <1>2, <3>2 DEF Miss, AskStep, ReadFilter, Search, Retrieve, Answer
    <3> QED BY <3>1, <3>2
  <2>3. Current(d) /\ UNCHANGED <<index, ready>>
    BY <2>1, <2>2 DEF Current
  <2>4. CASE asks'[a] = asks[a]
    BY <1>0, <2>3, <2>4
  <2>5. ASSUME a = b, NEW t \in Searches, Search(b, t)
        PROVE  asks'[a].seen[s][d] = Found(k, asks[a].allowed, d)'
    <3>1. ASSUME NEW l \in asks[a].keys,
                 asks' = [asks EXCEPT
                    ![a].left = @ \ {t},
                    ![a].heard = @ \cup {t},
                    ![a].seen = [@ EXCEPT ![t] = Searchable(l, asks[a].allowed)]]
          PROVE  asks'[a].seen[s][d] = Found(k, asks[a].allowed, d)'
      <4>1. /\ asks'[a].seen = [asks[a].seen EXCEPT ![t] = Searchable(l, asks[a].allowed)]
            /\ asks'[a].heard = asks[a].heard \cup {t}
            /\ asks'[a].keys = asks[a].keys /\ asks'[a].late = asks[a].late
            /\ asks'[a].allowed = asks[a].allowed
        BY <3>1 DEF TypeOK, Ask
      <4>2. asks[a].seen \in [Searches -> [Docs -> Nat]]
        BY DEF TypeOK, Ask, Sight
      <4>3. CASE s = t
        <5>1. asks'[a].seen[s] = Searchable(l, asks[a].allowed) /\ l = k
          BY <4>1, <4>2, <4>3 DEF PlaceInv
        <5>2. asks'[a].seen[s][d] = Found(k, asks[a].allowed, d)
          BY <5>1, SearchableType DEF TypeOK, Ask
        <5> QED BY <2>3, <4>1, <5>2
      <4>4. CASE s # t
        BY <1>0, <2>3, <4>1, <4>2, <4>4
      <4> QED BY <4>3, <4>4
    <3>2. CASE asks' = [asks EXCEPT ![a].left = @ \ {t}]
      <4>1. /\ asks'[a].seen = asks[a].seen /\ asks'[a].heard = asks[a].heard
            /\ asks'[a].keys = asks[a].keys /\ asks'[a].late = asks[a].late
            /\ asks'[a].allowed = asks[a].allowed
        BY <3>2 DEF TypeOK, Ask
      <4> QED BY <1>0, <2>3, <4>1
    <3> QED BY <2>5, <3>1, <3>2 DEF Search
  <2>6. CASE a = b /\ ((\E l \in Keys : Miss(b, l)) \/ Store(b))
    <3>1. CASE \E l \in Keys : Miss(b, l)
      <4>1. PICK l \in Keys : Miss(a, l)
        BY <2>6, <3>1
      <4>2. asks'[a].heard = {}
        BY <4>1, Blanks DEF TypeOK, Miss, NoAsk
      <4> QED BY <4>2
    <3>2. CASE Store(b)
      <4>1. asks'[a] = NoAsk
        BY <2>6, <3>2 DEF TypeOK, Store
      <4>2. asks'[a].heard = {}
        BY <4>1 DEF NoAsk
      <4> QED BY <4>2
    <3> QED BY <2>6, <3>1, <3>2
  <2>7. CASE a = b /\ (Retrieve(b) \/ Answer(b))
    <3>1. \/ asks'[a] = NoAsk
          \/ asks'[a] = [asks[a] EXCEPT !.pc = "answering"]
          \/ asks'[a] = [asks[a] EXCEPT !.pc = "setting"]
      BY <2>7 DEF TypeOK, Retrieve, Answer
    <3>2. /\ asks'[a].seen = asks[a].seen /\ asks'[a].heard = asks[a].heard
          /\ asks'[a].keys = asks[a].keys /\ asks'[a].late = asks[a].late
          /\ asks'[a].allowed = asks[a].allowed
      BY <3>1 DEF TypeOK, Ask, NoAsk
    <3> QED BY <1>0, <2>3, <3>2
  <2>9. CASE a = b /\ ReadFilter(b)
    <3>1. PICK q \in asks[b].who : asks' = [asks EXCEPT
              ![b].pc = "searching", ![b].who = {}, ![b].allowed = Opens[q]]
      BY <2>9 DEF ReadFilter
    <3>2. asks'[a].heard = asks[a].heard /\ asks[a].pc = "filtering"
      BY <2>9, <3>1 DEF TypeOK, Ask, ReadFilter
    <3> QED BY <3>2 DEF PlaceInv
  <2>8. CASE a # b
    <3>1. asks'[a] = asks[a]
      BY <1>2, <2>8 DEF TypeOK, Miss, AskStep, ReadFilter, Search, Retrieve, Answer, Store
    <3> QED BY <2>4, <3>1
  <2> QED BY <1>2, <2>5, <2>6, <2>7, <2>8, <2>9 DEF AskStep
<1>3. CASE (\E l \in Keys : Expire(l)) \/ UNCHANGED vars
  <2>1. UNCHANGED <<asks, index, ready, settled, worker>>
    BY <1>3 DEF Expire, vars
  <2> QED BY <1>0, <2>1 DEF Current
<1> QED BY <1>1, <1>2, <1>3 DEF Next
----------------------------------------------------------------------------
\* What SweepInv asks of a stale entry.
Due(k, d) ==
    /\ d \notin settled
    /\ worker[d].pc = "scan" => k \in worker[d].owed
    /\ worker[d].pc = "del" =>
          k \in worker[d].batch \/ (k \in worker[d].owed /\ ~worker[d].last)

LEMMA NextSweepInv ==
    TypeOK /\ PlaceInv /\ AskInv /\ SweepInv /\ [Next]_vars => SweepInv'
<1> USE DEF Found
<1> SUFFICES ASSUME TypeOK, PlaceInv, AskInv, SweepInv, [Next]_vars,
                    NEW k \in Keys, NEW d \in Docs, Stale(k, d)'
             PROVE  Due(k, d)'
  BY DEF SweepInv, Due
<1>0. Stale(k, d) => Due(k, d)
  BY DEF SweepInv, Due
<1>1. ASSUME NEW e \in Docs, d # e,
             StartRun(e) \/ WorkerStep(e) \/ FailRun(e) \/ SweepFails(e) \/ Crash(e)
      PROVE  Due(k, d)'
  <2>1. worker'[d] = worker[d] /\ (d \in settled' => d \in settled)
    <3>1. worker'[d] = worker[d]
      BY <1>1, WorkerMoves
    <3>2. d \in settled' => d \in settled
      BY <1>1 DEF StartRun, WorkerStep, StoreChunks, MarkReady,
         ScanStart, ScanBatch, DelBatch, FailRun, SweepFails, Crash
    <3> QED BY <3>1, <3>2
  <2>2. index'[d] = index[d] /\ (d \in ready' <=> d \in ready)
    BY <1>1 DEF TypeOK, StartRun, WorkerStep, StoreChunks, MarkReady,
       ScanStart, ScanBatch, DelBatch, FailRun, SweepFails, Crash
  <2>3. cache'[k] = cache[k]
    <3>1. CASE DelBatch(e)
      <4>1. cache'[k] = NoEntry \/ cache'[k] = cache[k]
        BY <3>1 DEF DelBatch
      <4> QED BY <4>1 DEF Stale, NoEntry
    <3>2. CASE ~DelBatch(e)
      BY <1>1, <3>2 DEF StartRun, WorkerStep, StoreChunks, MarkReady,
         ScanStart, ScanBatch, FailRun, SweepFails, Crash
    <3> QED BY <3>1, <3>2
  <2>4. Stale(k, d)
    BY <2>2, <2>3 DEF Stale
  <2> QED BY <1>0, <2>1, <2>4 DEF Due
<1>2. ASSUME StartRun(d) \/ WorkerStep(d) \/ FailRun(d) \/ SweepFails(d) \/ Crash(d)
      PROVE  Due(k, d)'
  <2>0. worker[d].pc # "idle" => d \notin settled
    BY DEF PlaceInv
  <2>1. CASE StartRun(d)
    <3>1. d \notin settled' /\ worker'[d].pc = "processing"
      BY <2>1 DEF StartRun, GoTo, TypeOK
    <3> QED BY <3>1 DEF Due
  <2>2. CASE StoreChunks(d) \/ FailRun(d) \/ MarkReady(d)
    <3>1. settled' = settled /\ worker[d].pc # "idle"
      BY <2>2 DEF StoreChunks, FailRun, MarkReady
    <3>2. worker'[d].pc \in {"stored", "idle", "invalidate"}
      <4>1. \E step \in {"stored", "idle", "invalidate"} : worker' = [worker EXCEPT ![d].pc = step]
        BY <2>2 DEF StoreChunks, FailRun, MarkReady, GoTo
      <4>2. worker \in [Docs -> Worker]
        BY DEF TypeOK
      <4> QED BY <4>1, <4>2
    <3> QED BY <2>0, <3>1, <3>2 DEF Due
  <2>3. CASE SweepFails(d) \/ Crash(d)
    <3>1. settled' = settled /\ worker'[d].pc = "idle" /\ worker[d].pc # "idle"
      BY <2>3 DEF SweepFails, Crash, NoSweep, TypeOK
    <3> QED BY <2>0, <3>1 DEF Due
  <2>4. CASE ScanStart(d)
    <3>1. /\ UNCHANGED <<cache, settled>> /\ worker[d].pc = "invalidate"
          /\ worker'[d].pc = "scan" /\ worker'[d].owed = Full
      BY <2>4 DEF ScanStart, TypeOK, Worker
    <3>2. k \in Full
      BY <3>1 DEF Stale, Full
    <3> QED BY <2>0, <3>1, <3>2 DEF Due
  <2>5. CASE ScanBatch(d)
    <3>1. PICK batch \in SUBSET Full, last \in BOOLEAN :
            /\ last => (worker[d].owed \cap Full) \subseteq batch
            /\ worker' = [worker EXCEPT ![d] =
                  [pc |-> "del", owed |-> @.owed \ batch, batch |-> batch, last |-> last]]
      BY <2>5 DEF ScanBatch
    <3>2. worker[d].pc = "scan" /\ UNCHANGED <<cache, settled, index, ready>>
      BY <2>5 DEF ScanBatch
    <3>3. worker'[d] = [pc |-> "del", owed |-> worker[d].owed \ batch,
                        batch |-> batch, last |-> last]
      BY <3>1 DEF TypeOK
    <3>4. Stale(k, d) /\ k \in Full
      BY <3>2 DEF Stale, Full
    <3>5. k \in worker[d].owed /\ d \notin settled
      BY <1>0, <3>2, <3>4 DEF Due
    <3>6. worker'[d].pc = "del" /\ worker'[d].batch = batch /\ worker'[d].last = last
          /\ worker'[d].owed = worker[d].owed \ batch
      BY <3>3
    <3>7. k \in batch \/ (k \in worker[d].owed \ batch /\ ~last)
      BY <3>1, <3>4, <3>5
    <3> QED BY <3>2, <3>5, <3>6, <3>7 DEF Due
  <2>6. CASE DelBatch(d)
    <3>1. worker[d].pc = "del" /\ UNCHANGED <<index, ready>>
      BY <2>6 DEF DelBatch
    <3>2. k \notin worker[d].batch /\ cache'[k] = cache[k]
      <4>1. cache'[k] = IF k \in worker[d].batch THEN NoEntry ELSE cache[k]
        BY <2>6 DEF DelBatch
      <4>2. cache'[k].full
        BY DEF Stale
      <4> QED BY <4>1, <4>2 DEF NoEntry
    <3>3. Stale(k, d)
      BY <3>1, <3>2 DEF Stale
    <3>4. d \notin settled /\ k \in worker[d].owed /\ ~worker[d].last
      BY <1>0, <3>1, <3>2, <3>3 DEF Due
    <3>5. settled' = settled /\ worker' = [worker EXCEPT ![d].pc = "scan", ![d].batch = {}]
      BY <2>6, <3>4 DEF DelBatch
    <3>6. worker'[d].pc = "scan" /\ worker'[d].owed = worker[d].owed
      BY <3>5 DEF TypeOK, Worker
    <3> QED BY <3>4, <3>5, <3>6 DEF Due
  <2> QED BY <1>2, <2>1, <2>2, <2>3, <2>4, <2>5, <2>6 DEF WorkerStep
<1>3. ASSUME NEW a \in Askers, Store(a) PROVE Due(k, d)'
  <2>0. UNCHANGED <<index, ready, settled>>
    BY <1>3 DEF Store
  <2>1. CASE UNCHANGED <<cache, worker>>
    <3>1. Stale(k, d)
      BY <2>0, <2>1 DEF Stale
    <3> QED BY <1>0, <2>0, <2>1, <3>1 DEF Due
  <2>2. CASE /\ cache' = [l \in Keys |->
                   IF l \in asks[a].keys
                   THEN [full |-> TRUE, allowed |-> asks[a].allowed,
                         heard |-> asks[a].heard, seen |-> asks[a].seen,
                         late |-> asks[a].late]
                   ELSE cache[l]]
             /\ worker' = [e \in Docs |->
                   [worker[e] EXCEPT !.owed = @ \ (asks[a].keys \ Full)]]
    <3>1. /\ worker'[d].pc = worker[d].pc /\ worker'[d].batch = worker[d].batch
          /\ worker'[d].last = worker[d].last
          /\ worker'[d].owed = worker[d].owed \ (asks[a].keys \ Full)
      BY <2>2 DEF TypeOK, Worker
    <3>2. CASE k \in asks[a].keys
      <4>1. cache'[k] = [full |-> TRUE, allowed |-> asks[a].allowed,
                         heard |-> asks[a].heard, seen |-> asks[a].seen,
                         late |-> asks[a].late]
        BY <2>2, <3>2
      <4>2. /\ ~asks[a].late
            /\ \E s \in asks[a].heard : asks[a].seen[s][d] # Found(k, asks[a].allowed, d)
        BY <2>0, <4>1 DEF Stale
      <4>3. asks[a].heard \subseteq Searches
        BY DEF TypeOK, Ask
      <4>4. ~Current(d)
        BY <3>2, <4>2, <4>3 DEF AskInv
      <4> QED BY <2>0, <3>1, <4>4 DEF Due, Current
    <3>3. CASE k \notin asks[a].keys
      <4>1. cache'[k] = cache[k]
        BY <2>2, <3>3
      <4>2. Stale(k, d)
        BY <2>0, <4>1 DEF Stale
      <4>3. k \notin asks[a].keys \ Full
        BY <3>3
      <4> QED BY <1>0, <2>0, <3>1, <4>2, <4>3 DEF Due
    <3> QED BY <3>2, <3>3
  <2> QED BY <1>3, <2>1, <2>2 DEF Store
<1>4. CASE \/ \E a \in Askers, l \in Keys : Miss(a, l)
           \/ \E a \in Askers : ReadFilter(a)
           \/ \E a \in Askers, s \in Searches : Search(a, s)
           \/ \E a \in Askers : Retrieve(a) \/ Answer(a)
           \/ UNCHANGED vars
  <2>1. UNCHANGED <<index, ready, settled, worker, cache>>
    BY <1>4 DEF Miss, ReadFilter, Search, Retrieve, Answer, vars
  <2>2. Stale(k, d)
    BY <2>1 DEF Stale
  <2> QED BY <1>0, <2>1, <2>2 DEF Due
<1>5. ASSUME NEW l \in Keys, Expire(l) PROVE Due(k, d)'
  <2>1. UNCHANGED <<index, ready, settled, worker>>
    BY <1>5 DEF Expire
  <2>2. cache'[k] = NoEntry \/ cache'[k] = cache[k]
    BY <1>5 DEF Expire, TypeOK
  <2>3. Stale(k, d)
    BY <2>1, <2>2 DEF Stale, NoEntry
  <2> QED BY <1>0, <2>1, <2>3 DEF Due
<1> QED BY <1>1, <1>2, <1>3, <1>4, <1>5 DEF Next, AskStep

\* An entry that is outdated though every document's last run emptied the
\* cache was overtaken: a document became READY between a search of its
\* question and its set().
THEOREM OutdatedOnlyIfLateHolds == Spec => []OutdatedOnlyIfLate
<1>1. IInv /\ [Next]_vars => IInv'
  BY NextTypeOK, NextPlaceInv, NextAskInv, NextSweepInv DEF IInv
<1>2. IInv => OutdatedOnlyIfLate
  <2> SUFFICES ASSUME IInv, settled = Docs, NEW k \in Keys, Outdated(k), ~cache[k].late
               PROVE  FALSE
    BY DEF OutdatedOnlyIfLate
  <2>1. PICK s \in cache[k].heard : cache[k].seen[s] # Searchable(k, cache[k].allowed)
    BY DEF Outdated
  <2>2. /\ cache[k].seen[s] \in [Docs -> Nat]
        /\ Searchable(k, cache[k].allowed) \in [Docs -> Nat]
        /\ \A d \in Docs : Searchable(k, cache[k].allowed)[d] = Found(k, cache[k].allowed, d)
    BY SearchableType DEF IInv, TypeOK, Entry, Sight
  <2>3. PICK d \in Docs : cache[k].seen[s][d] # Found(k, cache[k].allowed, d)
    BY <2>1, <2>2
  <2>4. Stale(k, d)
    BY <2>1, <2>3 DEF Stale, Outdated
  <2> QED BY <2>4 DEF IInv, SweepInv
<1> QED BY InitIInv, <1>1, <1>2, PTL DEF Spec
=============================================================================
