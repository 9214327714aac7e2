---------------------- MODULE DocumentPipeline_proofs ----------------------
(***************************************************************************)
(* DocumentPipeline for any number of documents, handlers, slots, attempts *)
(* and chunks, and any combination of faults: an inductive invariant, and  *)
(* the safety properties that follow from it.                              *)
(***************************************************************************)
EXTENDS DocumentPipeline, SequenceTheorems, TLAPS

Requested(d) == status[d] \notin {"ABSENT", "UPLOADED"}

\* A handler that holds a document found it, and one that marked it QUEUED
\* did so for good.
RequestInv ==
    \A q \in Requests :
        /\ requests[q].pc # "idle" => requests[q].doc \in Docs /\ status[requests[q].doc] # "ABSENT"
        /\ requests[q].pc = "marked" => Requested(requests[q].doc)

\* A lock belongs to the slot that works on the job, and a job that may run
\* again has an attempt left.
JobOK(d) ==
    /\ job[d].state # "none" => Requested(d)
    /\ job[d].state \in {"waiting", "active"} => job[d].made < Attempts
    /\ job[d].lock # NoRunner =>
          /\ job[d].state = "active"
          /\ Busy(job[d].lock)
          /\ runs[job[d].lock].doc = d

JobInv == \A d \in Docs : JobOK(d)

\* What a run has behind it at each of its steps.
RunOK(r) ==
    LET d == runs[r].doc IN
    /\ d \in Docs /\ Requested(d)
    /\ runs[r].pc \notin {"begin", "throw"} => runs[r].gen \in 1..attempts[d]
    /\ runs[r].pc \in {"version", "createVersion", "intel", "ready", "done"}
          => chunks[d] # {}
    /\ runs[r].pc = "createVersion" => runs[r].next \in 1..(Len(versions[d]) + 1)

RunInv == \A r \in Runners : Busy(r) => RunOK(r)

\* The retained jobs are finished ones, each listed once.
LogInv ==
    /\ \A i \in DOMAIN completedLog : job[completedLog[i]].state = "completed"
    /\ \A i \in DOMAIN failedLog : job[failedLog[i]].state = "failed"
    /\ IsInjective(completedLog) /\ IsInjective(failedLog)

\* A slot that lost its lock lost it to an expiry.
LockInv == ~CanFail("stall") => \A r \in Runners : Busy(r) => HoldsLock(r)

IInv ==
    /\ TypeOK /\ RequestInv /\ JobInv /\ RunInv /\ LogInv /\ LockInv
    /\ WholeGeneration /\ ReadyIsIndexed /\ VersionsContiguous
----------------------------------------------------------------------------
\* Steps of a run: what they have in common.

\* Slot r goes on to another step of the same job.
Moves(r) ==
    /\ runs' = [runs EXCEPT ![r] = runs'[r]]
    /\ runs'[r] \in Run
    /\ runs'[r].doc = runs[r].doc
    /\ runs'[r].pc # "idle"

\* No step takes back what another run relies on.
DbGrows ==
    \A d \in Docs :
        /\ status'[d] # "ABSENT" \/ status[d] = "ABSENT"
        /\ status[d] \notin {"ABSENT", "UPLOADED"}
              => status'[d] \notin {"ABSENT", "UPLOADED"}
        /\ attempts'[d] >= attempts[d]
        /\ chunks[d] # {} => chunks'[d] # {}
        /\ Len(versions'[d]) >= Len(versions[d])

\* The database may change under runs, handlers and jobs that do not move.
LEMMA OthersKeep ==
    ASSUME IInv, TypeOK', DbGrows, NEW r \in Runners,
           runs'[r] = runs[r], Busy(r)
    PROVE  RunOK(r)'
<1>1. runs[r] \in Run /\ runs[r].doc \in Docs /\ RunOK(r)
  BY DEF IInv, TypeOK, RunInv, RunOK
<1>2. attempts[runs[r].doc] \in Nat /\ attempts'[runs[r].doc] \in Nat
  BY <1>1 DEF IInv, TypeOK
<1>3. Len(versions[runs[r].doc]) \in Nat /\ Len(versions'[runs[r].doc]) \in Nat
  BY <1>1, LenProperties DEF IInv, TypeOK
<1>4. /\ status'[runs[r].doc] \notin {"ABSENT", "UPLOADED"}
      /\ attempts'[runs[r].doc] >= attempts[runs[r].doc]
      /\ chunks[runs[r].doc] # {} => chunks'[runs[r].doc] # {}
      /\ Len(versions'[runs[r].doc]) >= Len(versions[runs[r].doc])
  BY <1>1 DEF RunOK, DbGrows, Requested
<1>5. runs[r].gen \in Nat /\ runs[r].next \in Nat
  BY <1>1 DEF Run
<1>6. runs[r].gen \in 1..attempts[runs[r].doc] => runs[r].gen \in 1..attempts'[runs[r].doc]
  BY <1>2, <1>4, <1>5
<1>7. runs[r].next \in 1..(Len(versions[runs[r].doc]) + 1)
         => runs[r].next \in 1..(Len(versions'[runs[r].doc]) + 1)
  <2>1. ASSUME NEW k \in Nat, NEW m \in Nat, NEW n \in Nat, m >= n, k \in 1..(n + 1)
        PROVE  k \in 1..(m + 1)
    BY <2>1
  <2> QED
    BY <1>3, <1>4, <1>5, <2>1
<1> QED
  BY <1>1, <1>4, <1>6, <1>7 DEF RunOK, Requested

LEMMA RequestsKeep ==
    ASSUME IInv, TypeOK', DbGrows, UNCHANGED requests
    PROVE  RequestInv'
BY DEF IInv, TypeOK, RequestInv, DbGrows, Request, Requested

LEMMA MovingRun ==
    ASSUME IInv, TypeOK', DbGrows, NEW r \in Runners, Busy(r), Moves(r),
           RunOK(r)', UNCHANGED <<queueVars, requests>>
    PROVE  RequestInv' /\ JobInv' /\ RunInv' /\ LogInv' /\ LockInv'
<1>1. runs \in [Runners -> Run] /\ job \in [Docs -> Job]
  BY DEF IInv, TypeOK
<1>2. \A s \in Runners : s # r => runs'[s] = runs[s]
  BY <1>1 DEF Moves
<1>3. \A s \in Runners : runs'[s].doc = runs[s].doc /\ (Busy(s)' <=> Busy(s))
  BY <1>1, <1>2 DEF Moves, Busy, At
<1>4. RequestInv'
  BY RequestsKeep
<1>5. JobInv'
  <2> SUFFICES ASSUME NEW d \in Docs PROVE JobOK(d)'
    BY DEF JobInv
  <2>1. job[d].lock \in Runners \cup {NoRunner} /\ job' = job /\ JobOK(d)
    BY <1>1 DEF Job, queueVars, IInv, JobInv
  <2> QED
    BY <1>3, <2>1 DEF JobOK, DbGrows, Requested, Busy, At
<1>6. RunInv'
  <2> SUFFICES ASSUME NEW s \in Runners, Busy(s)' PROVE RunOK(s)'
    BY DEF RunInv
  <2> QED
    BY <1>2, <1>3, OthersKeep
<1>7. LogInv'
  BY DEF IInv, LogInv, queueVars
<1>8. LockInv'
  BY <1>3 DEF IInv, LockInv, HoldsLock, CanFail, queueVars
<1> QED
  BY <1>4, <1>5, <1>6, <1>7, <1>8
----------------------------------------------------------------------------
\* The steps a run takes before its job ends.

\* The version numbers are 1, 2, ..., so the next one is one past them.
LEMMA NextVersion ==
    ASSUME TypeOK, VersionsContiguous, NEW d \in Docs
    PROVE  /\ Len(versions[d]) \in Nat
           /\ VersionNumbers(d) = 1..Len(versions[d])
           /\ LatestVersion(d) = Len(versions[d])
<1>1. versions[d] \in Seq(Nat)
  BY DEF TypeOK
<1>2. Len(versions[d]) \in Nat /\ DOMAIN versions[d] = 1..Len(versions[d])
  BY <1>1, LenProperties
<1>3. VersionNumbers(d) = 1..Len(versions[d])
  BY <1>2 DEF VersionNumbers, VersionsContiguous
<1>4. Len(versions[d]) \in VersionNumbers(d) \cup {0}
  BY <1>2, <1>3
<1>5. \A m \in VersionNumbers(d) : m <= Len(versions[d])
  BY <1>2, <1>3
<1>6. \A n \in VersionNumbers(d) \cup {0} :
        (\A m \in VersionNumbers(d) : m <= n) => n = Len(versions[d])
  <2> SUFFICES ASSUME NEW n \in 0..Len(versions[d]), n # Len(versions[d])
               PROVE  \E m \in 1..Len(versions[d]) : ~(m <= n)
    BY <1>2, <1>3
  <2> QED
    BY <1>2
<1>7. LatestVersion(d) = Len(versions[d])
  BY <1>4, <1>5, <1>6 DEF LatestVersion
<1> QED
  BY <1>2, <1>3, <1>7

\* What a run knows when it takes a step.
LEMMA RunFacts ==
    ASSUME IInv, NEW r \in Runners, Busy(r)
    PROVE  /\ runs[r] \in Run /\ runs \in [Runners -> Run]
           /\ runs[r].doc \in Docs
           /\ RunOK(r)
           /\ status \in [Docs -> Statuses]
           /\ attempts \in [Docs -> Nat]
           /\ chunks \in [Docs -> SUBSET (Nat \X Indexes)]
           /\ versions \in [Docs -> Seq(Nat)]
BY DEF IInv, TypeOK, RunInv, RunOK

LEMMA IncrementStep ==
    ASSUME IInv, NEW r \in Runners, RunIncrement(r) PROVE IInv'
<1> DEFINE d == runs[r].doc
<1>1. Busy(r) /\ runs[r].pc = "begin"
  BY DEF RunIncrement, Busy, At
<1>2. /\ runs[r] \in Run /\ runs \in [Runners -> Run] /\ d \in Docs
      /\ attempts \in [Docs -> Nat] /\ attempts[d] + 1 \in Nat
  BY <1>1, RunFacts
<1>3. /\ [runs[r] EXCEPT !.pc = "mark", !.gen = attempts[d] + 1] \in Run
      /\ [runs[r] EXCEPT !.pc = "throw"] \in Run
  BY <1>2 DEF Run, RunSteps
<1>4. /\ Moves(r)
      /\ \/ runs'[r].pc = "throw"
         \/ runs'[r].pc = "mark" /\ runs'[r].gen = attempts'[d]
  <2>1. CASE /\ attempts' = [attempts EXCEPT ![d] = @ + 1]
             /\ runs' = [runs EXCEPT ![r].pc = "mark", ![r].gen = attempts[d] + 1]
    <3>1. runs'[r] = [runs[r] EXCEPT !.pc = "mark", !.gen = attempts[d] + 1]
      BY <1>2, <2>1
    <3> QED
      BY <1>2, <1>3, <2>1, <3>1 DEF Moves, Run
  <2>2. CASE Goto(r, "throw")
    BY <1>2, <1>3, <2>2 DEF Moves, Goto, Run
  <2> QED
    BY <2>1, <2>2 DEF RunIncrement
<1>5. /\ attempts' \in [Docs -> Nat]
      /\ \A e \in Docs : attempts'[e] >= attempts[e]
      /\ runs'[r].pc = "mark" => attempts'[d] >= 1
  <2>1. CASE attempts' = [attempts EXCEPT ![d] = @ + 1]
    BY <1>2, <2>1
  <2>2. CASE Goto(r, "throw") /\ UNCHANGED attempts
    BY <1>2, <2>2 DEF Goto, Run
  <2> QED
    BY <2>1, <2>2 DEF RunIncrement
<1>6. TypeOK'
  BY <1>2, <1>4, <1>5 DEF RunIncrement, Moves, IInv, TypeOK, queueVars, webVars
<1>7. DbGrows
  BY <1>5, LenProperties DEF DbGrows, RunIncrement, IInv, TypeOK
<1>8. RunOK(r)'
  <2>1. RunOK(r)
    BY <1>1, RunFacts
  <2> QED
    BY <1>2, <1>4, <1>5, <2>1 DEF RunOK, Moves, RunIncrement, Requested
<1>9. WholeGeneration'
  <2> SUFFICES ASSUME NEW e \in Docs, NEW g \in 1..attempts[e], chunks[e] = Rows(g)
               PROVE  g \in 1..attempts'[e]
    BY DEF IInv, WholeGeneration, RunIncrement, Rows, Indexes
  <2> QED
    BY <1>2, <1>5
<1>10. ReadyIsIndexed' /\ VersionsContiguous'
  BY DEF IInv, ReadyIsIndexed, VersionsContiguous, RunIncrement
<1> QED
  BY <1>1, <1>4, <1>6, <1>7, <1>8, <1>9, <1>10, MovingRun DEF IInv, RunIncrement, webVars

LEMMA MarkStep ==
    ASSUME IInv, NEW r \in Runners, RunMark(r) PROVE IInv'
<1> DEFINE d == runs[r].doc
<1>1. Busy(r) /\ runs[r].pc = "mark"
  BY DEF RunMark, Busy, At
<1>2. /\ runs[r] \in Run /\ runs \in [Runners -> Run] /\ d \in Docs
      /\ status \in [Docs -> Statuses] /\ RunOK(r)
  BY <1>1, RunFacts
<1>3. /\ [runs[r] EXCEPT !.pc = "work"] \in Run
      /\ [runs[r] EXCEPT !.pc = "throw"] \in Run
  BY <1>2 DEF Run, RunSteps
<1>4. /\ Moves(r)
      /\ runs'[r].pc \in {"work", "throw"} /\ runs'[r].gen = runs[r].gen
  BY <1>2, <1>3 DEF RunMark, Moves, Goto, Run
<1>5. /\ status' \in [Docs -> Statuses]
      /\ \A e \in Docs : status'[e] = status[e] \/ (status'[e] = "PROCESSING" /\ e = d)
  BY <1>2 DEF RunMark, SetStatus, Statuses
<1>6. TypeOK'
  BY <1>2, <1>4, <1>5 DEF RunMark, Moves, IInv, TypeOK, queueVars, webVars
<1>7. DbGrows
  BY <1>2, <1>5, LenProperties DEF DbGrows, RunMark, IInv, TypeOK, RunOK, Requested
<1>8. RunOK(r)'
  BY <1>1, <1>2, <1>4, <1>5 DEF RunOK, RunMark, Requested, Moves
<1>9. WholeGeneration' /\ VersionsContiguous'
  BY DEF IInv, WholeGeneration, VersionsContiguous, RunMark
<1>10. ReadyIsIndexed'
  BY <1>5 DEF IInv, ReadyIsIndexed, RunMark
<1> QED
  BY <1>1, <1>4, <1>6, <1>7, <1>8, <1>9, <1>10, MovingRun DEF IInv, RunMark, webVars

LEMMA WorkStep ==
    ASSUME IInv, NEW r \in Runners, RunWork(r) PROVE IInv'
<1>1. Busy(r) /\ runs[r].pc = "work"
  BY DEF RunWork, Busy, At
<1>2. runs[r] \in Run /\ runs \in [Runners -> Run] /\ RunOK(r)
  BY <1>1, RunFacts
<1>3. /\ [runs[r] EXCEPT !.pc = "delete"] \in Run
      /\ [runs[r] EXCEPT !.pc = "catch"] \in Run
  BY <1>2 DEF Run, RunSteps
<1>4. /\ Moves(r)
      /\ runs'[r].pc \in {"delete", "catch"} /\ runs'[r].gen = runs[r].gen
  BY <1>2, <1>3 DEF RunWork, Moves, Goto, Run
<1>5. TypeOK'
  BY <1>2, <1>4 DEF RunWork, Moves, IInv, TypeOK, dbVars, queueVars, webVars
<1>6. DbGrows
  BY LenProperties DEF DbGrows, RunWork, IInv, TypeOK, dbVars
<1>7. RunOK(r)'
  BY <1>1, <1>2, <1>4 DEF RunOK, RunWork, Requested, dbVars, Moves
<1>8. WholeGeneration' /\ ReadyIsIndexed' /\ VersionsContiguous'
  BY DEF IInv, WholeGeneration, ReadyIsIndexed, VersionsContiguous, RunWork, dbVars
<1> QED
  BY <1>1, <1>4, <1>5, <1>6, <1>7, <1>8, MovingRun DEF IInv, RunWork, webVars

LEMMA DeleteStep ==
    ASSUME IInv, NEW r \in Runners, RunDeleteChunks(r) PROVE IInv'
<1> DEFINE d == runs[r].doc
<1>1. Busy(r) /\ runs[r].pc = "delete"
  BY DEF RunDeleteChunks, Busy, At
<1>2. /\ runs[r] \in Run /\ runs \in [Runners -> Run] /\ d \in Docs
      /\ chunks[d] \subseteq Nat \X Indexes /\ RunOK(r)
  BY <1>1, RunFacts
<1>3. /\ [runs[r] EXCEPT !.pc = "insert", !.seen = chunks[d]] \in Run
      /\ [runs[r] EXCEPT !.pc = "catch"] \in Run
  BY <1>2 DEF Run, RunSteps
<1>4. /\ Moves(r)
      /\ runs'[r].pc \in {"insert", "catch"} /\ runs'[r].gen = runs[r].gen
  <2>1. CASE runs' = [runs EXCEPT ![r].pc = "insert", ![r].seen = chunks[d]]
    <3>1. runs'[r] = [runs[r] EXCEPT !.pc = "insert", !.seen = chunks[d]]
      BY <1>2, <2>1
    <3> QED
      BY <1>2, <1>3, <2>1, <3>1 DEF Moves, Run
  <2>2. CASE Goto(r, "catch")
    BY <1>2, <1>3, <2>2 DEF Moves, Goto, Run
  <2> QED
    BY <2>1, <2>2 DEF RunDeleteChunks
<1>5. TypeOK'
  BY <1>2, <1>4 DEF RunDeleteChunks, Moves, IInv, TypeOK, dbVars, queueVars, webVars
<1>6. DbGrows
  BY LenProperties DEF DbGrows, RunDeleteChunks, IInv, TypeOK, dbVars
<1>7. RunOK(r)'
  BY <1>1, <1>2, <1>4 DEF RunOK, RunDeleteChunks, Requested, dbVars, Moves
<1>8. WholeGeneration' /\ ReadyIsIndexed' /\ VersionsContiguous'
  BY DEF IInv, WholeGeneration, ReadyIsIndexed, VersionsContiguous, RunDeleteChunks, dbVars
<1> QED
  BY <1>1, <1>4, <1>5, <1>6, <1>7, <1>8, MovingRun DEF IInv, RunDeleteChunks, webVars

\* The heart of WholeGeneration: a run whose INSERTs meet no row commits them
\* into an empty document, because every row stands in their way.
LEMMA InsertStep ==
    ASSUME IInv, NEW r \in Runners, RunInsertChunks(r) PROVE IInv'
<1> DEFINE d == runs[r].doc
           commits == /\ ~Collides(d, runs[r].seen)
                      /\ chunks' = [chunks EXCEPT ![d] =
                                      (@ \ runs[r].seen) \cup Rows(runs[r].gen)]
                      /\ runs' = [runs EXCEPT ![r].pc = "version", ![r].seen = {}]
           rollsBack == /\ runs' = [runs EXCEPT ![r].pc = "catch", ![r].seen = {}]
                        /\ UNCHANGED chunks
<1>1. Busy(r) /\ runs[r].pc = "insert"
  BY DEF RunInsertChunks, Busy, At
<1>2. /\ runs[r] \in Run /\ runs \in [Runners -> Run] /\ d \in Docs
      /\ chunks \in [Docs -> SUBSET (Nat \X Indexes)]
      /\ attempts \in [Docs -> Nat] /\ RunOK(r)
  BY <1>1, RunFacts
<1>3. /\ [runs[r] EXCEPT !.pc = "version", !.seen = {}] \in Run
      /\ [runs[r] EXCEPT !.pc = "catch", !.seen = {}] \in Run
  BY <1>2 DEF Run, RunSteps
<1>4. runs[r].gen \in 1..attempts[d]
  BY <1>1, <1>2 DEF RunOK
<1>5. Rows(runs[r].gen) # {} /\ Rows(runs[r].gen) \subseteq Nat \X Indexes
  <2>1. runs[r].gen \in Nat /\ 1 \in Indexes /\ Indexes \subseteq Nat
    BY <1>2, <1>4, PipelineAssumption DEF Indexes
  <2>2. <<runs[r].gen, 1>> \in Rows(runs[r].gen)
    BY <2>1 DEF Rows
  <2> QED
    BY <2>1, <2>2 DEF Rows
<1>6. commits \/ rollsBack
  BY DEF RunInsertChunks
<1>7. ASSUME commits PROVE chunks' = [chunks EXCEPT ![d] = Rows(runs[r].gen)]
  <2>1. chunks[d] \ runs[r].seen = {}
    <3> SUFFICES ASSUME NEW row \in chunks[d] \ runs[r].seen PROVE FALSE
      OBVIOUS
    <3>1. row[2] \in Indexes
      BY <1>2
    <3> QED
      BY <1>7, <3>1 DEF Collides
  <2> QED
    BY <1>7, <2>1
<1>8. /\ Moves(r)
      /\ runs'[r].pc \in {"version", "catch"} /\ runs'[r].gen = runs[r].gen
      /\ runs'[r].pc = "version" => chunks'[d] # {}
  <2>1. CASE commits
    <3>1. /\ runs' = [runs EXCEPT ![r] = runs'[r]]
          /\ runs'[r] = [runs[r] EXCEPT !.pc = "version", !.seen = {}]
      BY <1>2, <2>1
    <3>2. /\ runs'[r].pc = "version" /\ runs'[r].gen = runs[r].gen
          /\ runs'[r].doc = d
      BY <1>2, <3>1 DEF Run
    <3>3. Moves(r)
      BY <1>3, <3>1, <3>2 DEF Moves
    <3>4. chunks'[d] # {}
      BY <1>2, <1>5, <1>7, <2>1
    <3> QED
      BY <3>2, <3>3, <3>4
  <2>2. CASE rollsBack
    <3>1. runs'[r] = [runs[r] EXCEPT !.pc = "catch", !.seen = {}]
      BY <1>2, <2>2
    <3> QED
      BY <1>2, <1>3, <2>2, <3>1 DEF Moves, Run
  <2> QED
    BY <1>6, <2>1, <2>2
<1>9. /\ chunks' \in [Docs -> SUBSET (Nat \X Indexes)]
      /\ \A e \in Docs : chunks[e] # {} => chunks'[e] # {}
  BY <1>2, <1>5, <1>6, <1>7
<1>10. TypeOK'
  BY <1>2, <1>8, <1>9 DEF RunInsertChunks, Moves, IInv, TypeOK, queueVars, webVars
<1>11. DbGrows
  <2> SUFFICES \A e \in Docs : attempts[e] \in Nat /\ Len(versions[e]) \in Nat
    BY <1>9 DEF DbGrows, RunInsertChunks
  <2> QED
    BY LenProperties DEF IInv, TypeOK
<1>12. RunOK(r)'
  BY <1>1, <1>2, <1>8 DEF RunOK, RunInsertChunks, Requested, Moves
<1>13. WholeGeneration'
  <2> SUFFICES ASSUME NEW e \in Docs, chunks'[e] # {}
               PROVE  \E g \in 1..attempts[e] : chunks'[e] = Rows(g)
    BY DEF WholeGeneration, RunInsertChunks, Rows, Indexes
  <2>1. CASE commits /\ e = d
    BY <1>2, <1>4, <1>7, <2>1
  <2>2. CASE rollsBack \/ e # d
    BY <1>2, <1>6, <1>7, <2>2 DEF IInv, WholeGeneration
  <2> QED
    BY <1>6, <2>1, <2>2
<1>14. ReadyIsIndexed' /\ VersionsContiguous'
  BY <1>9 DEF IInv, ReadyIsIndexed, VersionsContiguous, RunInsertChunks
<1> QED
  BY <1>1, <1>8, <1>10, <1>11, <1>12, <1>13, <1>14, MovingRun
  DEF IInv, RunInsertChunks, webVars

LEMMA ReadVersionStep ==
    ASSUME IInv, NEW r \in Runners, RunReadVersion(r) PROVE IInv'
<1> DEFINE d == runs[r].doc
<1>1. Busy(r) /\ runs[r].pc = "version"
  BY DEF RunReadVersion, Busy, At
<1>2. runs[r] \in Run /\ runs \in [Runners -> Run] /\ d \in Docs /\ RunOK(r)
  BY <1>1, RunFacts
<1>3. /\ LatestVersion(d) = Len(versions[d]) /\ Len(versions[d]) \in Nat
      /\ LatestVersion(d) + 1 \in Nat
  BY <1>2, NextVersion DEF IInv
<1>4. /\ [runs[r] EXCEPT !.pc = "createVersion", !.next = LatestVersion(d) + 1] \in Run
      /\ [runs[r] EXCEPT !.pc = "intel"] \in Run
  BY <1>2, <1>3 DEF Run, RunSteps
<1>5. /\ Moves(r)
      /\ runs'[r].gen = runs[r].gen
      /\ \/ runs'[r].pc = "createVersion" /\ runs'[r].next = Len(versions[d]) + 1
         \/ runs'[r].pc = "intel"
  <2>1. CASE runs' = [runs EXCEPT ![r].pc = "createVersion",
                                  ![r].next = LatestVersion(d) + 1]
    <3>1. runs'[r] = [runs[r] EXCEPT !.pc = "createVersion", !.next = LatestVersion(d) + 1]
      BY <1>2, <2>1
    <3> QED
      BY <1>2, <1>3, <1>4, <2>1, <3>1 DEF Moves, Run
  <2>2. CASE Goto(r, "intel")
    BY <1>2, <1>4, <2>2 DEF Moves, Goto, Run
  <2> QED
    BY <2>1, <2>2 DEF RunReadVersion
<1>6. TypeOK'
  BY <1>2, <1>5 DEF RunReadVersion, Moves, IInv, TypeOK, dbVars, queueVars, webVars
<1>7. DbGrows
  BY LenProperties DEF DbGrows, RunReadVersion, IInv, TypeOK, dbVars
<1>8. RunOK(r)'
  BY <1>1, <1>2, <1>3, <1>5 DEF RunOK, RunReadVersion, Requested, dbVars, Moves
<1>9. WholeGeneration' /\ ReadyIsIndexed' /\ VersionsContiguous'
  BY DEF IInv, WholeGeneration, ReadyIsIndexed, VersionsContiguous, RunReadVersion, dbVars
<1> QED
  BY <1>1, <1>5, <1>6, <1>7, <1>8, <1>9, MovingRun DEF IInv, RunReadVersion, webVars

\* The number a run read is either the next one still, or taken.
LEMMA CreateVersionStep ==
    ASSUME IInv, NEW r \in Runners, RunCreateVersion(r) PROVE IInv'
<1> DEFINE d == runs[r].doc
           n == runs[r].next
           inserts == ~VersionTaken(d, n) /\ versions' = [versions EXCEPT ![d] = Append(@, n)]
<1>1. Busy(r) /\ runs[r].pc = "createVersion"
  BY DEF RunCreateVersion, Busy, At
<1>2. /\ runs[r] \in Run /\ runs \in [Runners -> Run] /\ d \in Docs
      /\ versions \in [Docs -> Seq(Nat)] /\ RunOK(r)
  BY <1>1, RunFacts
<1>3. \A e \in Docs : Len(versions[e]) \in Nat
  BY <1>2, LenProperties
<1>4. VersionNumbers(d) = 1..Len(versions[d]) /\ n \in 1..(Len(versions[d]) + 1)
  BY <1>1, <1>2, NextVersion DEF IInv, RunOK
<1>5. inserts \/ UNCHANGED versions
  BY DEF RunCreateVersion
<1>6. ASSUME inserts PROVE n = Len(versions[d]) + 1
  BY <1>2, <1>3, <1>4, <1>6 DEF VersionTaken
<1>7. [runs[r] EXCEPT !.pc = "intel", !.next = 0] \in Run
  BY <1>2 DEF Run, RunSteps
<1>8. Moves(r) /\ runs'[r].pc = "intel" /\ runs'[r].gen = runs[r].gen
  <2>1. runs'[r] = [runs[r] EXCEPT !.pc = "intel", !.next = 0]
    BY <1>2 DEF RunCreateVersion
  <2> QED
    BY <1>2, <1>7, <2>1 DEF RunCreateVersion, Moves, Run
<1>9. /\ versions' \in [Docs -> Seq(Nat)]
      /\ \A e \in Docs : Len(versions'[e]) >= Len(versions[e])
  <2>1. CASE inserts
    <3>1. Append(versions[d], n) \in Seq(Nat)
          /\ Len(Append(versions[d], n)) = Len(versions[d]) + 1
      BY <1>2, <1>3, <1>4, AppendProperties
    <3> QED
      BY <1>2, <1>3, <2>1, <3>1
  <2>2. CASE UNCHANGED versions
    BY <1>2, <1>3, <2>2
  <2> QED
    BY <1>5, <2>1, <2>2
<1>10. TypeOK'
  BY <1>2, <1>8, <1>9 DEF RunCreateVersion, Moves, IInv, TypeOK, queueVars, webVars
<1>11. DbGrows
  BY <1>9 DEF DbGrows, RunCreateVersion, IInv, TypeOK
<1>12. RunOK(r)'
  BY <1>1, <1>2, <1>8 DEF RunOK, RunCreateVersion, Requested, Moves
<1>13. VersionsContiguous'
  <2> SUFFICES ASSUME NEW e \in Docs, NEW i \in DOMAIN versions'[e]
               PROVE  versions'[e][i] = i
    BY DEF VersionsContiguous
  <2>1. CASE inserts /\ e = d
    <3>1. versions'[d] = Append(versions[d], n)
      BY <1>2, <2>1
    <3>2. DOMAIN versions[d] = 1..Len(versions[d])
          /\ DOMAIN versions'[d] = 1..(Len(versions[d]) + 1)
      BY <1>2, <1>3, <1>4, <3>1, AppendProperties, LenProperties
    <3>3. CASE i = Len(versions[d]) + 1
      BY <1>2, <1>4, <1>6, <2>1, <3>1, <3>3, AppendProperties
    <3>4. CASE i \in 1..Len(versions[d])
      BY <1>2, <1>4, <2>1, <3>1, <3>2, <3>4, AppendProperties DEF IInv, VersionsContiguous
    <3> QED
      BY <1>3, <2>1, <3>2, <3>3, <3>4
  <2>2. CASE UNCHANGED versions \/ e # d
    BY <1>2, <1>5, <2>2 DEF IInv, VersionsContiguous
  <2> QED
    BY <1>5, <2>1, <2>2
<1>14. WholeGeneration' /\ ReadyIsIndexed'
  BY DEF IInv, WholeGeneration, ReadyIsIndexed, RunCreateVersion
<1> QED
  BY <1>1, <1>8, <1>10, <1>11, <1>12, <1>13, <1>14, MovingRun
  DEF IInv, RunCreateVersion, webVars

LEMMA IntelligenceStep ==
    ASSUME IInv, NEW r \in Runners, RunIntelligence(r) PROVE IInv'
<1>1. Busy(r) /\ runs[r].pc = "intel"
  BY DEF RunIntelligence, Busy, At
<1>2. /\ runs[r] \in Run /\ runs \in [Runners -> Run]
      /\ runs[r].doc \in Docs /\ RunOK(r)
  BY <1>1, RunFacts
<1>3. [runs[r] EXCEPT !.pc = "ready"] \in Run
  BY <1>2 DEF Run, RunSteps
<1>4. Moves(r) /\ runs'[r].pc = "ready" /\ runs'[r].gen = runs[r].gen
  BY <1>2, <1>3 DEF RunIntelligence, Moves, Goto, Run
<1>5. TypeOK'
  BY <1>2, <1>4 DEF RunIntelligence, Moves, IInv, TypeOK, queueVars, webVars
<1>6. DbGrows
  BY LenProperties DEF DbGrows, RunIntelligence, IInv, TypeOK
<1>7. RunOK(r)'
  BY <1>1, <1>2, <1>4 DEF RunOK, RunIntelligence, Requested, Moves
<1>8. WholeGeneration' /\ ReadyIsIndexed' /\ VersionsContiguous'
  BY DEF IInv, WholeGeneration, ReadyIsIndexed, VersionsContiguous, RunIntelligence
<1> QED
  BY <1>1, <1>4, <1>5, <1>6, <1>7, <1>8, MovingRun DEF IInv, RunIntelligence, webVars

\* READY is written by a run that published its chunks, and chunks stay.
LEMMA ReadyStep ==
    ASSUME IInv, NEW r \in Runners, RunReady(r) PROVE IInv'
<1> DEFINE d == runs[r].doc
<1>1. Busy(r) /\ runs[r].pc = "ready"
  BY DEF RunReady, Busy, At
<1>2. /\ runs[r] \in Run /\ runs \in [Runners -> Run] /\ d \in Docs
      /\ status \in [Docs -> Statuses] /\ RunOK(r)
  BY <1>1, RunFacts
<1>3. /\ [runs[r] EXCEPT !.pc = "done"] \in Run
      /\ [runs[r] EXCEPT !.pc = "catch"] \in Run
  BY <1>2 DEF Run, RunSteps
<1>4. /\ Moves(r)
      /\ runs'[r].pc \in {"done", "catch"} /\ runs'[r].gen = runs[r].gen
  BY <1>2, <1>3 DEF RunReady, Moves, Goto, Run
<1>5. /\ status' \in [Docs -> Statuses]
      /\ \A e \in Docs : status'[e] = status[e] \/ (status'[e] = "READY" /\ e = d)
  BY <1>2 DEF RunReady, SetStatus, Statuses
<1>6. TypeOK'
  BY <1>2, <1>4, <1>5 DEF RunReady, Moves, IInv, TypeOK, queueVars, webVars
<1>7. DbGrows
  BY <1>2, <1>5, LenProperties DEF DbGrows, RunReady, IInv, TypeOK, RunOK, Requested
<1>8. RunOK(r)'
  BY <1>1, <1>2, <1>4, <1>5 DEF RunOK, RunReady, Requested, Moves
<1>9. WholeGeneration' /\ VersionsContiguous'
  BY DEF IInv, WholeGeneration, VersionsContiguous, RunReady
<1>10. ReadyIsIndexed'
  BY <1>1, <1>2, <1>5 DEF IInv, ReadyIsIndexed, RunReady, RunOK
<1> QED
  BY <1>1, <1>4, <1>6, <1>7, <1>8, <1>9, <1>10, MovingRun DEF IInv, RunReady, webVars

LEMMA CatchStep ==
    ASSUME IInv, NEW r \in Runners, RunCatch(r) PROVE IInv'
<1> DEFINE d == runs[r].doc
<1>1. Busy(r) /\ runs[r].pc = "catch"
  BY DEF RunCatch, Busy, At
<1>2. /\ runs[r] \in Run /\ runs \in [Runners -> Run] /\ d \in Docs
      /\ status \in [Docs -> Statuses] /\ RunOK(r)
  BY <1>1, RunFacts
<1>3. [runs[r] EXCEPT !.pc = "throw"] \in Run
  BY <1>2 DEF Run, RunSteps
<1>4. Moves(r) /\ runs'[r].pc = "throw" /\ runs'[r].gen = runs[r].gen
  BY <1>2, <1>3 DEF RunCatch, Moves, Goto, Run
<1>5. /\ status' \in [Docs -> Statuses]
      /\ \A e \in Docs : status'[e] = status[e] \/ (status'[e] = "FAILED" /\ e = d)
  BY <1>2 DEF RunCatch, SetStatus, Statuses
<1>6. TypeOK'
  BY <1>2, <1>4, <1>5 DEF RunCatch, Moves, IInv, TypeOK, queueVars, webVars
<1>7. DbGrows
  BY <1>2, <1>5, LenProperties DEF DbGrows, RunCatch, IInv, TypeOK, RunOK, Requested
<1>8. RunOK(r)'
  BY <1>1, <1>2, <1>4, <1>5 DEF RunOK, RunCatch, Requested, Moves
<1>9. WholeGeneration' /\ VersionsContiguous'
  BY DEF IInv, WholeGeneration, VersionsContiguous, RunCatch
<1>10. ReadyIsIndexed'
  BY <1>5 DEF IInv, ReadyIsIndexed, RunCatch
<1> QED
  BY <1>1, <1>4, <1>6, <1>7, <1>8, <1>9, <1>10, MovingRun DEF IInv, RunCatch, webVars
----------------------------------------------------------------------------
\* Steps of the queue.

\* A job that is not listed comes in.
LEMMA RetainedLog ==
    ASSUME NEW log \in Seq(Docs), IsInjective(log), NEW d \in Docs,
           \A i \in DOMAIN log : log[i] # d, NEW keep \in Nat \ {0}
    PROVE  LET new == Append(Kept(log, keep), d) IN
           /\ new \in Seq(Docs)
           /\ IsInjective(new)
           /\ \A i \in DOMAIN new :
                 \/ new[i] = d
                 \/ \E j \in DOMAIN log : new[i] = log[j] /\ log[j] \notin Dropped(log, keep)
           /\ \A e \in Dropped(log, keep) : \E j \in DOMAIN log : log[j] = e
<1> DEFINE new == Append(Kept(log, keep), d)
           rest == Kept(log, keep)
           n == Len(log)
<1>1. n \in Nat /\ DOMAIN log = 1..n
  BY LenProperties
<1>2. CASE n >= keep
  <2>1. log # <<>>
    BY <1>1, <1>2
  <2>2. rest = Tail(log) /\ Dropped(log, keep) = {Head(log)}
    BY <1>2 DEF Kept, Dropped
  <2>3. /\ rest \in Seq(Docs) /\ Len(rest) = n - 1
        /\ \A i \in 1..Len(rest) : rest[i] = log[i + 1]
    BY <2>1, <2>2, HeadTailProperties
  <2>4. /\ new \in Seq(Docs) /\ Len(new) = Len(rest) + 1
        /\ \A i \in 1..Len(rest) : new[i] = rest[i]
        /\ new[Len(rest) + 1] = d
    BY <2>3, AppendProperties
  <2>5. DOMAIN new = 1..Len(new)
    BY <2>4, LenProperties
  <2>6. Dropped(log, keep) = {log[1]} /\ 1 \in DOMAIN log
    BY <1>1, <1>2, <2>1, <2>2
  <2> HIDE DEF new, rest, n
  <2>7. Len(rest) + 1 = n /\ Len(new) = n /\ Len(rest) = n - 1
    BY <1>1, <2>3, <2>4
  <2>8. /\ DOMAIN new = 1..n /\ new[n] = d
        /\ \A i \in 1..(n - 1) : new[i] = log[i + 1]
    BY <2>3, <2>4, <2>5, <2>7
  <2>9. IsInjective(new)
    <3> SUFFICES ASSUME NEW a \in 1..n, NEW b \in 1..n, new[a] = new[b]
                 PROVE  a = b
      BY <2>8 DEF IsInjective
    <3>1. \A i \in 1..(n - 1) : i + 1 \in DOMAIN log /\ new[i] # d
      <4>1. \A i \in 1..(n - 1) : i + 1 \in DOMAIN log
        BY <1>1
      <4> QED
        BY <2>8, <4>1
    <3>2. CASE a \in 1..(n - 1) /\ b \in 1..(n - 1)
      <4>1. a + 1 \in DOMAIN log /\ b + 1 \in DOMAIN log /\ log[a + 1] = log[b + 1]
        BY <2>8, <3>1, <3>2
      <4>2. a + 1 = b + 1
        BY <4>1 DEF IsInjective
      <4> QED
        BY <4>2
    <3>3. CASE a = n \/ b = n
      BY <1>1, <2>8, <3>1, <3>3
    <3> QED
      BY <1>1, <3>2, <3>3
  <2>10. \A i \in DOMAIN new :
            new[i] = d \/ \E j \in DOMAIN log : new[i] = log[j] /\ log[j] \notin Dropped(log, keep)
    <3> SUFFICES ASSUME NEW i \in 1..(n - 1)
                 PROVE  i + 1 \in DOMAIN log /\ log[i + 1] \notin Dropped(log, keep)
      BY <1>1, <2>8
    <3> QED
      BY <1>1, <2>6 DEF IsInjective
  <2> QED
    BY <2>4, <2>6, <2>9, <2>10 DEF new
<1>3. CASE ~(n >= keep)
  <2>1. rest = log /\ Dropped(log, keep) = {}
    BY <1>3 DEF Kept, Dropped
  <2>2. /\ new \in Seq(Docs) /\ Len(new) = n + 1
        /\ \A i \in 1..n : new[i] = log[i]
        /\ new[n + 1] = d
    BY <2>1, AppendProperties
  <2>3. DOMAIN new = 1..(n + 1)
    BY <2>2, LenProperties
  <2> HIDE DEF new, rest, n
  <2>4. IsInjective(new)
    BY <1>1, <2>2, <2>3 DEF IsInjective
  <2>5. \A i \in DOMAIN new :
           new[i] = d \/ \E j \in DOMAIN log : new[i] = log[j] /\ log[j] \notin Dropped(log, keep)
    <3> SUFFICES ASSUME NEW i \in 1..n PROVE i \in DOMAIN log /\ new[i] = log[i]
      BY <1>1, <2>1, <2>2, <2>3
    <3> QED
      BY <1>1, <2>2
  <2> QED
    BY <2>1, <2>2, <2>4, <2>5 DEF new
<1> QED
  BY <1>2, <1>3

\* Moving an active job to a finished set: its lock is gone, no other active
\* or waiting job changes, and the logs list finished jobs as before.
LEMMA RetireKeeps ==
    ASSUME TypeOK, LogInv, NEW d \in Docs, job[d].state = "active",
           NEW made \in 0..Attempts, NEW state, NEW log, NEW keep,
           \/ state = "completed" /\ log = completedLog /\ keep = KeepCompleted
           \/ state = "failed" /\ log = failedLog /\ keep = KeepFailed,
           Retire(d, made, state, log, keep)
    PROVE  /\ job' \in [Docs -> Job]
           /\ completedLog' \in Seq(Docs) /\ failedLog' \in Seq(Docs)
           /\ LogInv'
           /\ job'[d].state = state /\ job'[d].lock = NoRunner
           /\ \A e \in Docs \ {d} :
                 \/ job'[e] = job[e]
                 \/ job'[e] = NoJob /\ job[e].state \in {"completed", "failed"}
<1> DEFINE new == Append(Kept(log, keep), d)
           dropped == Dropped(log, keep)
           finished == [job[d] EXCEPT !.state = state, !.made = made, !.lock = NoRunner]
<1>1. /\ job \in [Docs -> Job] /\ job[d] \in Job
      /\ completedLog \in Seq(Docs) /\ failedLog \in Seq(Docs)
  BY DEF TypeOK
<1>2. /\ log \in Seq(Docs) /\ IsInjective(log) /\ keep \in Nat \ {0}
      /\ \A i \in DOMAIN log : job[log[i]].state = state
      /\ state \in {"completed", "failed"}
  BY <1>1, PipelineAssumption DEF LogInv
<1>3. \A i \in DOMAIN log : log[i] # d
  BY <1>2
<1>4. /\ new \in Seq(Docs)
      /\ IsInjective(new)
      /\ \A i \in DOMAIN new :
            \/ new[i] = d
            \/ \E j \in DOMAIN log : /\ new[i] = log[j]
                                     /\ log[j] \notin dropped
      /\ \A e \in dropped : \E j \in DOMAIN log : log[j] = e
  BY <1>2, <1>3, RetainedLog
<1>5. /\ job' = [e \in Docs |-> CASE e = d -> finished
                                  [] e \in dropped \ {d} -> NoJob
                                  [] OTHER -> job[e]]
      /\ IF state = "completed"
         THEN completedLog' = new /\ UNCHANGED failedLog
         ELSE failedLog' = new /\ UNCHANGED completedLog
  BY DEF Retire
<1> HIDE DEF new, dropped
<1>6. /\ finished \in Job /\ finished.state = state /\ finished.lock = NoRunner
      /\ NoJob \in Job
  <2>1. state \in JobStates /\ 0 \in 0..Attempts /\ 0 \in 0..MaxStalled
    BY <1>2, PipelineAssumption DEF JobStates
  <2> QED
    BY <1>1, <2>1 DEF Job, NoJob, JobStates
<1> HIDE DEF finished
<1>7. /\ job'[d] = finished
      /\ \A e \in Docs \ {d} : job'[e] = IF e \in dropped THEN NoJob ELSE job[e]
  BY <1>5
<1>8. job' \in [Docs -> Job]
  BY <1>1, <1>5, <1>6
<1>9. completedLog' \in Seq(Docs) /\ failedLog' \in Seq(Docs)
  BY <1>1, <1>4, <1>5
<1>10. \A i \in DOMAIN new : job'[new[i]].state = state
  <2> SUFFICES ASSUME NEW j \in DOMAIN log, log[j] \notin dropped
               PROVE  job'[log[j]].state = state
    BY <1>4, <1>6, <1>7
  <2>1. log[j] \in Docs \ {d}
    BY <1>2, <1>3, ElementOfSeq, LenProperties
  <2> QED
    BY <1>2, <1>7, <2>1
<1>11. LogInv'
  <2>1. CASE state = "completed"
    <3>1. \A i \in DOMAIN failedLog : failedLog[i] \in Docs /\ failedLog[i] # d
      BY <1>1, ElementOfSeq, LenProperties DEF LogInv
    <3>2. \A i \in DOMAIN failedLog : failedLog[i] \notin dropped
      BY <1>2, <1>4, <2>1 DEF LogInv
    <3>3. \A i \in DOMAIN failedLog : job'[failedLog[i]] = job[failedLog[i]]
      BY <1>7, <3>1, <3>2
    <3>4. completedLog' = new /\ failedLog' = failedLog
      BY <1>5, <2>1
    <3> QED
      BY <1>4, <1>10, <2>1, <3>3, <3>4 DEF LogInv
  <2>2. CASE state = "failed"
    <3>1. \A i \in DOMAIN completedLog : completedLog[i] \in Docs /\ completedLog[i] # d
      BY <1>1, ElementOfSeq, LenProperties DEF LogInv
    <3>2. \A i \in DOMAIN completedLog : completedLog[i] \notin dropped
      BY <1>2, <1>4, <2>2 DEF LogInv
    <3>3. \A i \in DOMAIN completedLog : job'[completedLog[i]] = job[completedLog[i]]
      BY <1>7, <3>1, <3>2
    <3>4. failedLog' = new /\ completedLog' = completedLog
      BY <1>5, <2>2
    <3> QED
      BY <1>4, <1>10, <2>2, <3>3, <3>4 DEF LogInv
  <2> QED
    BY <1>2, <2>1, <2>2
<1>12. \A e \in dropped : job[e].state \in {"completed", "failed"}
  BY <1>2, <1>4
<1> QED
  BY <1>6, <1>7, <1>8, <1>9, <1>11, <1>12

LEMMA LogsKeep ==
    ASSUME TypeOK, LogInv, UNCHANGED <<completedLog, failedLog>>,
           \A e \in Docs : job[e].state \in {"completed", "failed"}
                              => job'[e].state = job[e].state
    PROVE  LogInv'
<1>1. \A i \in DOMAIN completedLog : completedLog[i] \in Docs
  BY ElementOfSeq, LenProperties DEF TypeOK
<1>2. \A i \in DOMAIN failedLog : failedLog[i] \in Docs
  BY ElementOfSeq, LenProperties DEF TypeOK
<1> QED
  BY <1>1, <1>2 DEF LogInv

\* As long as no lock expires, a busy slot holds the lock of an active job.
LEMMA Locked ==
    ASSUME IInv, ~CanFail("stall"), NEW s \in Runners, Busy(s)
    PROVE  /\ runs[s].doc \in Docs
           /\ job[runs[s].doc].lock = s
           /\ job[runs[s].doc].state = "active"
BY PipelineAssumption DEF IInv, LockInv, HoldsLock, RunInv, RunOK, JobInv, JobOK

\* Jobs may lose their lock, their slot or their place in the queue as long as
\* no slot goes on holding what is gone.
LEMMA QueueMoves ==
    ASSUME IInv, TypeOK', LogInv', UNCHANGED <<dbVars, requests>>,
           \A s \in Runners : runs'[s] = runs[s] \/ runs'[s] = NoRun,
           \A e \in Docs :
              \/ /\ job'[e] = job[e]
                 /\ job[e].lock # NoRunner => runs'[job[e].lock] = runs[job[e].lock]
              \/ /\ job'[e].lock = NoRunner
                 /\ job'[e].state # "none" => Requested(e)
                 /\ job'[e].state \in {"waiting", "active"} => job'[e].made < Attempts
                 /\ ~CanFail("stall") =>
                       \A s \in Runners : runs'[s].pc # "idle" => runs'[s].doc # e
    PROVE  IInv'
<1>1. RequestInv'
  BY DEF IInv, RequestInv, dbVars, Requested
<1>2. JobInv'
  <2> SUFFICES ASSUME NEW e \in Docs PROVE JobOK(e)'
    BY DEF JobInv
  <2>1. JobOK(e)
    BY DEF IInv, JobInv
  <2> QED
    BY <2>1 DEF JobOK, Requested, Busy, At, dbVars
<1>3. RunInv'
  <2> SUFFICES ASSUME NEW s \in Runners, runs'[s].pc # "idle" PROVE RunOK(s)'
    BY DEF RunInv, Busy, At
  <2>1. runs'[s] = runs[s] /\ RunOK(s)
    BY DEF NoRun, IInv, RunInv, Busy, At
  <2> QED
    BY <2>1 DEF RunOK, Requested, dbVars
<1>4. LockInv'
  <2> SUFFICES ASSUME ~CanFail("stall"), NEW s \in Runners, runs'[s].pc # "idle"
               PROVE  job'[runs'[s].doc].lock = s
    BY DEF LockInv, HoldsLock, Busy, At, CanFail
  <2>1. runs'[s] = runs[s] /\ Busy(s)
    BY DEF NoRun, Busy, At
  <2> QED
    BY <2>1, Locked
<1>5. WholeGeneration' /\ ReadyIsIndexed' /\ VersionsContiguous'
  BY DEF IInv, WholeGeneration, ReadyIsIndexed, VersionsContiguous, dbVars
<1> QED
  BY <1>1, <1>2, <1>3, <1>4, <1>5 DEF IInv

\* A slot that lets go of its document: what becomes of the other jobs and
\* slots when its own job is retired, queued again or only unlocked.
LEMMA Releases ==
    ASSUME IInv, NEW r \in Runners, Busy(r),
           TypeOK', LogInv', UNCHANGED <<dbVars, requests>>,
           runs' = [runs EXCEPT ![r] = NoRun],
           \/ /\ ~HoldsLock(r)
              /\ UNCHANGED job
           \/ /\ HoldsLock(r)
              /\ job'[runs[r].doc].lock = NoRunner
              /\ job'[runs[r].doc].state \in {"waiting", "active"}
                    => job'[runs[r].doc].made < Attempts
              /\ \A e \in Docs \ {runs[r].doc} :
                    \/ job'[e] = job[e]
                    \/ job'[e] = NoJob /\ job[e].state \in {"completed", "failed"}
    PROVE  IInv'
<1> DEFINE d == runs[r].doc
<1>1. /\ d \in Docs /\ Requested(d) /\ r # NoRunner
      /\ runs \in [Runners -> Run] /\ job \in [Docs -> Job]
  BY PipelineAssumption DEF IInv, TypeOK, RunInv, RunOK
<1>2. /\ \A s \in Runners : runs'[s] = IF s = r THEN NoRun ELSE runs[s]
      /\ runs'[r].pc = "idle"
  BY <1>1 DEF NoRun
<1>3. \A e \in Docs : JobOK(e) /\ job[e].lock \in Runners \cup {NoRunner}
  BY <1>1 DEF IInv, JobInv, Job
<1>4. ASSUME NEW e \in Docs, job'[e] = job[e], e # d \/ ~HoldsLock(r),
             job[e].lock # NoRunner
      PROVE  runs'[job[e].lock] = runs[job[e].lock]
  BY <1>2, <1>3, <1>4 DEF JobOK, HoldsLock
<1>5. ASSUME NEW e \in Docs, job'[e].lock = NoRunner, ~CanFail("stall"),
             job[e].lock = r \/ job[e].state # "active",
             NEW s \in Runners, runs'[s].pc # "idle"
      PROVE  runs'[s].doc # e
  BY <1>2, <1>5, Locked DEF Busy, At
<1>6. ASSUME NEW e \in Docs
      PROVE  \/ /\ job'[e] = job[e]
                /\ job[e].lock # NoRunner => runs'[job[e].lock] = runs[job[e].lock]
             \/ /\ job'[e].lock = NoRunner
                /\ job'[e].state # "none" => Requested(e)
                /\ job'[e].state \in {"waiting", "active"} => job'[e].made < Attempts
                /\ ~CanFail("stall") =>
                      \A s \in Runners : runs'[s].pc # "idle" => runs'[s].doc # e
  <2>1. CASE ~HoldsLock(r) /\ UNCHANGED job
    BY <1>4, <2>1
  <2>2. CASE HoldsLock(r) /\ e = d
    BY <1>1, <1>5, <2>2 DEF HoldsLock
  <2>3. CASE HoldsLock(r) /\ e # d /\ job'[e] = job[e]
    BY <1>4, <2>3
  <2>4. CASE HoldsLock(r) /\ e # d /\ job'[e] = NoJob
             /\ job[e].state \in {"completed", "failed"}
    BY <1>5, <2>4 DEF NoJob
  <2> QED
    BY <2>1, <2>2, <2>3, <2>4
<1> QED
  BY <1>2, <1>6, QueueMoves

LEMMA CompleteStep ==
    ASSUME IInv, NEW r \in Runners, RunComplete(r) PROVE IInv'
<1> DEFINE d == runs[r].doc
<1>1. Busy(r)
  BY DEF RunComplete, Busy, At
<1>2. /\ d \in Docs /\ job \in [Docs -> Job] /\ runs \in [Runners -> Run] /\ NoRun \in Run
  BY <1>1 DEF IInv, TypeOK, RunInv, RunOK, NoRun, Run, RunSteps
<1>3. runs' \in [Runners -> Run] /\ runs' = [runs EXCEPT ![r] = NoRun]
  BY <1>2 DEF RunComplete
<1>4. CASE ~HoldsLock(r)
  <2>1. UNCHANGED <<dbVars, queueVars, webVars, crashes>>
    BY <1>4 DEF RunComplete, queueVars
  <2>2. TypeOK' /\ LogInv'
    BY <1>3, <2>1 DEF IInv, TypeOK, LogInv, dbVars, queueVars, webVars
  <2> QED
    BY <1>1, <1>3, <1>4, <2>1, <2>2, Releases DEF queueVars, webVars
<1>5. CASE HoldsLock(r)
  <2>1. job[d].state = "active" /\ job[d].made \in 0..Attempts
    BY <1>2, <1>5, PipelineAssumption DEF HoldsLock, IInv, JobInv, JobOK, Job
  <2>2. Retire(d, job[d].made, "completed", completedLog, KeepCompleted)
    BY <1>5 DEF RunComplete
  <2>3. /\ job' \in [Docs -> Job]
        /\ completedLog' \in Seq(Docs) /\ failedLog' \in Seq(Docs)
        /\ LogInv'
        /\ job'[d].state = "completed" /\ job'[d].lock = NoRunner
        /\ \A e \in Docs \ {d} :
              \/ job'[e] = job[e]
              \/ job'[e] = NoJob /\ job[e].state \in {"completed", "failed"}
    BY <1>2, <2>1, <2>2, RetireKeeps DEF IInv
  <2>4. TypeOK'
    BY <1>3, <2>3 DEF RunComplete, IInv, TypeOK, dbVars, webVars
  <2> QED
    BY <1>1, <1>3, <1>5, <2>3, <2>4, Releases DEF RunComplete, webVars
<1> QED
  BY <1>4, <1>5

LEMMA ThrowStep ==
    ASSUME IInv, NEW r \in Runners, RunThrow(r) PROVE IInv'
<1> DEFINE d == runs[r].doc
           made == job[d].made + 1
<1>1. Busy(r)
  BY DEF RunThrow, Busy, At
<1>2. /\ d \in Docs /\ job \in [Docs -> Job] /\ runs \in [Runners -> Run] /\ NoRun \in Run
  BY <1>1 DEF IInv, TypeOK, RunInv, RunOK, NoRun, Run, RunSteps
<1>3. runs' \in [Runners -> Run] /\ runs' = [runs EXCEPT ![r] = NoRun]
  BY <1>2 DEF RunThrow
<1>4. CASE ~HoldsLock(r)
  <2>1. UNCHANGED <<dbVars, queueVars, webVars, crashes>>
    BY <1>4 DEF RunThrow
  <2>2. TypeOK' /\ LogInv'
    BY <1>3, <2>1 DEF IInv, TypeOK, LogInv, dbVars, queueVars, webVars
  <2> QED
    BY <1>1, <1>3, <1>4, <2>1, <2>2, Releases DEF queueVars, webVars
<1>5. CASE HoldsLock(r)
  <2>1. /\ job[d].state = "active" /\ job[d] \in Job
        /\ made \in 0..Attempts
    BY <1>2, <1>5, PipelineAssumption DEF HoldsLock, IInv, JobInv, JobOK, Job
  <2>2. FailAttempt(d)
    BY <1>5 DEF RunThrow
  <2>3. deadLetters' \subseteq Docs
    BY <1>2, <2>2 DEF FailAttempt, OnFailed, IInv, TypeOK
  <2>4. CASE made < Attempts
    <3>1. /\ job' = [job EXCEPT ![d].state = "waiting", ![d].made = made,
                                ![d].lock = NoRunner]
          /\ UNCHANGED <<completedLog, failedLog>>
      BY <2>2, <2>4 DEF FailAttempt
    <3>2. [job[d] EXCEPT !.state = "waiting", !.made = made, !.lock = NoRunner] \in Job
      BY <2>1 DEF Job, JobStates
    <3>3. job' \in [Docs -> Job]
      BY <1>2, <3>1, <3>2
    <3>4. /\ job'[d].lock = NoRunner /\ job'[d].made = made /\ job'[d].state = "waiting"
          /\ \A e \in Docs \ {d} : job'[e] = job[e]
      BY <1>2, <2>1, <3>1 DEF Job
    <3>5. TypeOK'
      BY <1>3, <2>3, <3>1, <3>3 DEF RunThrow, IInv, TypeOK, dbVars, webVars
    <3>6. LogInv'
      BY <2>1, <3>1, <3>4, LogsKeep DEF IInv
    <3> QED
      BY <1>1, <1>3, <1>5, <2>4, <3>4, <3>5, <3>6, Releases DEF RunThrow, webVars
  <2>5. CASE ~(made < Attempts)
    <3>1. Retire(d, made, "failed", failedLog, KeepFailed)
      BY <2>2, <2>5 DEF FailAttempt
    <3>2. /\ job' \in [Docs -> Job]
          /\ completedLog' \in Seq(Docs) /\ failedLog' \in Seq(Docs)
          /\ LogInv'
          /\ job'[d].state = "failed" /\ job'[d].lock = NoRunner
          /\ \A e \in Docs \ {d} :
                \/ job'[e] = job[e]
                \/ job'[e] = NoJob /\ job[e].state \in {"completed", "failed"}
      BY <1>2, <2>1, <3>1, RetireKeeps DEF IInv
    <3>3. TypeOK'
      BY <1>3, <2>3, <3>2 DEF RunThrow, IInv, TypeOK, dbVars, webVars
    <3> QED
      BY <1>1, <1>3, <1>5, <3>2, <3>3, Releases DEF RunThrow, webVars
  <2> QED
    BY <2>4, <2>5
<1> QED
  BY <1>4, <1>5

LEMMA CrashStep ==
    ASSUME IInv, NEW r \in Runners, Crash(r) PROVE IInv'
<1> DEFINE d == runs[r].doc
<1>1. Busy(r)
  BY DEF Crash, Busy
<1>2. /\ d \in Docs /\ job \in [Docs -> Job] /\ job[d] \in Job
      /\ runs \in [Runners -> Run] /\ NoRun \in Run
  BY <1>1 DEF IInv, TypeOK, RunInv, RunOK, NoRun, Run, RunSteps
<1>3. runs' \in [Runners -> Run] /\ runs' = [runs EXCEPT ![r] = NoRun]
  BY <1>2 DEF Crash
<1>4. [job[d] EXCEPT !.lock = NoRunner] \in Job
  BY <1>2 DEF Job
<1>5. /\ job' \in [Docs -> Job]
      /\ \A e \in Docs \ {d} : job'[e] = job[e]
      /\ HoldsLock(r) => job'[d] = [job[d] EXCEPT !.lock = NoRunner]
      /\ ~HoldsLock(r) => job' = job
  BY <1>2, <1>4 DEF Crash
<1>6. \A e \in Docs : job'[e].state = job[e].state /\ job'[e].made = job[e].made
  BY <1>2, <1>5 DEF Job
<1>7. HoldsLock(r) => /\ job'[d].lock = NoRunner
                      /\ job'[d].state \in {"waiting", "active"} => job'[d].made < Attempts
  BY <1>2, <1>5, <1>6 DEF Job, IInv, JobInv, JobOK
<1>8. TypeOK'
  <2>1. crashes' \in 0..MaxCrashes
    <3>1. crashes \in 0..MaxCrashes
      BY DEF IInv, TypeOK
    <3>2. crashes < MaxCrashes /\ crashes' = crashes + 1
      BY DEF Crash
    <3> QED
      BY <3>1, <3>2, PipelineAssumption
  <2>2. /\ status' = status /\ attempts' = attempts /\ chunks' = chunks
        /\ versions' = versions /\ intel' = intel
        /\ requests' = requests /\ asked' = asked
        /\ completedLog' = completedLog /\ failedLog' = failedLog
        /\ deadLetters' = deadLetters
    BY DEF Crash, dbVars, webVars
  <2> QED
    BY <1>3, <1>5, <2>1, <2>2 DEF IInv, TypeOK
<1>9. LogInv'
  BY <1>6, LogsKeep DEF IInv, Crash
<1> QED
  BY <1>1, <1>3, <1>5, <1>7, <1>8, <1>9, Releases DEF Crash, webVars

LEMMA LoseLockStep ==
    ASSUME IInv, NEW r \in Runners, LoseLock(r) PROVE IInv'
<1> DEFINE d == runs[r].doc
<1>1. Busy(r) /\ CanFail("stall")
  BY DEF LoseLock, Busy
<1>2. d \in Docs /\ job \in [Docs -> Job] /\ job[d] \in Job
  BY <1>1 DEF IInv, TypeOK, RunInv, RunOK
<1>3. [job[d] EXCEPT !.lock = NoRunner] \in Job
  BY <1>2 DEF Job
<1>4. /\ job' = [job EXCEPT ![d] = [job[d] EXCEPT !.lock = NoRunner]]
      /\ job' \in [Docs -> Job]
  BY <1>2, <1>3 DEF LoseLock
<1>5. /\ \A e \in Docs : job'[e].state = job[e].state /\ job'[e].made = job[e].made
      /\ \A e \in Docs \ {d} : job'[e] = job[e]
      /\ job'[d].lock = NoRunner
  BY <1>2, <1>4 DEF Job
<1>6. TypeOK'
  BY <1>4 DEF LoseLock, IInv, TypeOK, dbVars, webVars
<1>7. LogInv'
  BY <1>5, LogsKeep DEF IInv, LoseLock
<1>8. \A e \in Docs : JobOK(e)
  BY DEF IInv, JobInv
<1> QED
  BY <1>1, <1>2, <1>5, <1>6, <1>7, <1>8, QueueMoves DEF LoseLock, webVars, JobOK

LEMMA RecoverStalledStep ==
    ASSUME IInv, NEW d \in Docs, RecoverStalled(d) PROVE IInv'
<1>1. /\ job \in [Docs -> Job] /\ job[d] \in Job /\ JobOK(d)
      /\ job[d].state = "active" /\ job[d].lock = NoRunner
      /\ job[d].made \in 0..Attempts
  BY PipelineAssumption DEF IInv, TypeOK, JobInv, JobOK, RecoverStalled, Job
<1>2. ASSUME ~CanFail("stall"), NEW s \in Runners, Busy(s)
      PROVE  /\ job[runs[s].doc].lock # NoRunner
             /\ job[runs[s].doc].state = "active"
  BY <1>2, Locked, PipelineAssumption
<1>3. CASE job[d].stalls < MaxStalled
  <2>1. job' = [job EXCEPT ![d].state = "waiting", ![d].stalls = @ + 1]
        /\ UNCHANGED <<completedLog, failedLog, deadLetters>>
    BY <1>3 DEF RecoverStalled
  <2>2. [job[d] EXCEPT !.state = "waiting", !.stalls = @ + 1] \in Job
    <3>1. job[d].stalls + 1 \in 0..MaxStalled
      BY <1>1, <1>3, PipelineAssumption DEF Job
    <3> QED
      BY <1>1, <3>1 DEF Job, JobStates
  <2>3. /\ job' \in [Docs -> Job]
        /\ \A e \in Docs \ {d} : job'[e] = job[e]
        /\ job'[d].lock = NoRunner /\ job'[d].made = job[d].made
        /\ job'[d].state = "waiting"
    BY <1>1, <2>1, <2>2 DEF Job
  <2>4. TypeOK'
    BY <2>1, <2>3 DEF RecoverStalled, IInv, TypeOK, dbVars, webVars
  <2>5. LogInv'
    BY <1>1, <2>1, <2>3, LogsKeep DEF IInv
  <2> QED
    BY <1>1, <1>2, <2>3, <2>4, <2>5, QueueMoves DEF RecoverStalled, webVars, JobOK, Busy, At
<1>4. CASE ~(job[d].stalls < MaxStalled)
  <2>1. /\ Retire(d, job[d].made, "failed", failedLog, KeepFailed)
        /\ OnFailed(d, job[d].made)
    BY <1>4 DEF RecoverStalled
  <2>2. /\ job' \in [Docs -> Job]
        /\ completedLog' \in Seq(Docs) /\ failedLog' \in Seq(Docs)
        /\ LogInv'
        /\ job'[d].state = "failed" /\ job'[d].lock = NoRunner
        /\ \A e \in Docs \ {d} :
              \/ job'[e] = job[e]
              \/ job'[e] = NoJob /\ job[e].state \in {"completed", "failed"}
    BY <1>1, <2>1, RetireKeeps DEF IInv
  <2>3. TypeOK'
    BY <2>1, <2>2 DEF RecoverStalled, OnFailed, IInv, TypeOK, dbVars, webVars
  <2>4. UNCHANGED <<dbVars, requests, runs>>
    BY DEF RecoverStalled, webVars
  <2>5. ASSUME NEW e \in Docs, job'[e].lock = NoRunner,
               job[e].lock = NoRunner \/ job[e].state # "active",
               ~CanFail("stall"), NEW s \in Runners, runs'[s].pc # "idle"
        PROVE  runs'[s].doc # e
    BY <1>2, <2>4, <2>5 DEF Busy, At
  <2>6. ASSUME NEW e \in Docs, job'[e] # job[e]
        PROVE  /\ job'[e].lock = NoRunner
               /\ job'[e].state # "none" => Requested(e)
               /\ job'[e].state \notin {"waiting", "active"}
               /\ job[e].lock = NoRunner \/ job[e].state # "active"
    BY <1>1, <2>2, <2>6 DEF JobOK, NoJob
  <2> QED
    BY <2>2, <2>3, <2>4, <2>5, <2>6, QueueMoves
<1> QED
  BY <1>3, <1>4

LEMMA PickUpStep ==
    ASSUME IInv, NEW r \in Runners, NEW d \in Docs, PickUp(r, d) PROVE IInv'
<1> DEFINE run == [NoRun EXCEPT !.pc = "begin", !.doc = d]
<1>1. /\ job \in [Docs -> Job] /\ job[d] \in Job /\ JobOK(d)
      /\ runs \in [Runners -> Run] /\ r # NoRunner
      /\ job[d].state = "waiting" /\ ~Busy(r)
  BY PipelineAssumption DEF IInv, TypeOK, JobInv, PickUp, Busy
<1>2. /\ run \in Run /\ run.pc = "begin" /\ run.doc = d
      /\ [job[d] EXCEPT !.state = "active", !.lock = r] \in Job
  BY <1>1 DEF Run, RunSteps, NoRun, Job, JobStates
<1> HIDE DEF run
<1>3. /\ runs' \in [Runners -> Run] /\ runs'[r] = run
      /\ \A s \in Runners \ {r} : runs'[s] = runs[s]
  BY <1>1, <1>2 DEF PickUp, run
<1>4. /\ job' \in [Docs -> Job]
      /\ job'[d].state = "active" /\ job'[d].lock = r /\ job'[d].made = job[d].made
      /\ \A e \in Docs \ {d} : job'[e] = job[e]
  BY <1>1, <1>2 DEF PickUp, Job
<1>5. TypeOK'
  BY <1>3, <1>4 DEF PickUp, IInv, TypeOK, dbVars, webVars
<1>6. RequestInv'
  BY DEF IInv, RequestInv, Requested, PickUp, dbVars, webVars
<1>7. JobInv'
  <2> SUFFICES ASSUME NEW e \in Docs PROVE JobOK(e)'
    BY DEF JobInv
  <2>1. CASE e = d
    BY <1>1, <1>2, <1>3, <1>4, <2>1 DEF JobOK, Requested, Busy, At, PickUp, dbVars
  <2>2. CASE e # d
    <3>1. JobOK(e) /\ job'[e] = job[e] /\ job[e].lock \in Runners \cup {NoRunner}
      BY <1>1, <1>4, <2>2 DEF IInv, JobInv, Job
    <3>2. job[e].lock # NoRunner => job[e].lock \in Runners \ {r}
      BY <1>1, <3>1 DEF JobOK
    <3> QED
      BY <1>3, <3>1, <3>2 DEF JobOK, Requested, Busy, At, PickUp, dbVars
  <2> QED
    BY <2>1, <2>2
<1>8. RunInv'
  <2> SUFFICES ASSUME NEW s \in Runners, Busy(s)' PROVE RunOK(s)'
    BY DEF RunInv
  <2>1. CASE s = r
    BY <1>1, <1>2, <1>3, <2>1 DEF RunOK, JobOK, Requested, PickUp, dbVars
  <2>2. CASE s # r
    BY <1>3, <2>2 DEF IInv, RunInv, RunOK, Requested, Busy, At, PickUp, dbVars
  <2> QED
    BY <2>1, <2>2
<1>9. LogInv'
  BY <1>1, <1>4, LogsKeep DEF IInv, PickUp
<1>10. LockInv'
  <2> SUFFICES ASSUME ~CanFail("stall"), NEW s \in Runners, runs'[s].pc # "idle"
               PROVE  job'[runs'[s].doc].lock = s
    BY DEF LockInv, HoldsLock, Busy, At, CanFail
  <2>1. CASE s = r
    BY <1>2, <1>3, <1>4, <2>1
  <2>2. CASE s # r
    BY <1>1, <1>3, <1>4, <2>2, Locked DEF Busy, At
  <2> QED
    BY <2>1, <2>2
<1>11. WholeGeneration' /\ ReadyIsIndexed' /\ VersionsContiguous'
  BY DEF IInv, WholeGeneration, ReadyIsIndexed, VersionsContiguous, PickUp, dbVars
<1> QED
  BY <1>5, <1>6, <1>7, <1>8, <1>9, <1>10, <1>11 DEF IInv
----------------------------------------------------------------------------
\* Steps of the API process.

\* They change statuses and handlers only.
LEMMA WebMoves ==
    ASSUME IInv, TypeOK', DbGrows, RequestInv', ReadyIsIndexed',
           UNCHANGED <<attempts, chunks, versions, queueVars, runs>>
    PROVE  IInv'
<1>1. JobInv'
  BY DEF IInv, JobInv, JobOK, DbGrows, Requested, Busy, At, queueVars
<1>2. RunInv'
  BY OthersKeep DEF RunInv, Busy, At
<1>3. LogInv' /\ LockInv'
  BY DEF IInv, LogInv, LockInv, HoldsLock, Busy, At, CanFail, queueVars
<1>4. WholeGeneration' /\ VersionsContiguous'
  BY DEF IInv, WholeGeneration, VersionsContiguous
<1> QED
  BY <1>1, <1>2, <1>3, <1>4 DEF IInv

LEMMA UploadStep ==
    ASSUME IInv, NEW d \in Docs, Upload(d) PROVE IInv'
<1>1. /\ status' \in [Docs -> Statuses] /\ status'[d] = "UPLOADED"
      /\ status[d] = "ABSENT"
      /\ \A e \in Docs \ {d} : status'[e] = status[e]
  BY DEF IInv, TypeOK, Upload, SetStatus, Statuses
<1>2. TypeOK'
  BY <1>1 DEF Upload, IInv, TypeOK, queueVars, webVars
<1>3. DbGrows
  BY <1>1, LenProperties DEF DbGrows, Upload, IInv, TypeOK
<1>4. RequestInv'
  BY <1>1 DEF IInv, TypeOK, RequestInv, Requested, Upload, webVars
<1>5. ReadyIsIndexed'
  BY <1>1 DEF IInv, ReadyIsIndexed, Upload
<1> QED
  BY <1>2, <1>3, <1>4, <1>5, WebMoves DEF Upload

LEMMA ProcessCheckStep ==
    ASSUME IInv, NEW q \in Requests, NEW d \in Docs, ProcessCheck(q, d) PROVE IInv'
<1>1. /\ requests' \in [Requests -> Request]
      /\ requests'[q] = [pc |-> "checked", doc |-> d]
      /\ \A p \in Requests \ {q} : requests'[p] = requests[p]
  BY DEF IInv, TypeOK, ProcessCheck, Request, RequestSteps
<1>2. asked' \in [Docs -> 0..MaxRequests]
  BY PipelineAssumption DEF IInv, TypeOK, ProcessCheck
<1>3. TypeOK'
  BY <1>1, <1>2 DEF ProcessCheck, IInv, TypeOK, dbVars, queueVars
<1>4. DbGrows
  BY LenProperties DEF DbGrows, ProcessCheck, IInv, TypeOK, dbVars
<1>5. RequestInv'
  <2> SUFFICES ASSUME NEW p \in Requests
               PROVE  /\ requests'[p].pc # "idle"
                            => requests'[p].doc \in Docs /\ status[requests'[p].doc] # "ABSENT"
                      /\ requests'[p].pc = "marked"
                            => status[requests'[p].doc] \notin {"ABSENT", "UPLOADED"}
    BY DEF RequestInv, Requested, ProcessCheck, dbVars
  <2>1. CASE p = q
    BY <1>1, <2>1 DEF ProcessCheck
  <2>2. CASE p # q
    BY <1>1, <2>2 DEF IInv, RequestInv, Requested
  <2> QED
    BY <2>1, <2>2
<1>6. ReadyIsIndexed'
  BY DEF IInv, ReadyIsIndexed, ProcessCheck, dbVars
<1> QED
  BY <1>3, <1>4, <1>5, <1>6, WebMoves DEF ProcessCheck, dbVars

LEMMA ProcessMarkStep ==
    ASSUME IInv, NEW q \in Requests, ProcessMark(q) PROVE IInv'
<1> DEFINE d == requests[q].doc
<1>1. /\ d \in Docs /\ status[d] # "ABSENT"
      /\ requests \in [Requests -> Request] /\ requests[q] \in Request
      /\ status \in [Docs -> Statuses]
  BY DEF IInv, TypeOK, RequestInv, ProcessMark
<1>2. /\ status' \in [Docs -> Statuses] /\ status'[d] = "QUEUED"
      /\ \A e \in Docs \ {d} : status'[e] = status[e]
  BY <1>1 DEF ProcessMark, SetStatus, Statuses
<1>3. [requests[q] EXCEPT !.pc = "marked"] \in Request
  BY <1>1 DEF Request, RequestSteps
<1>4. /\ requests' \in [Requests -> Request]
      /\ requests'[q].doc = d
      /\ \A p \in Requests \ {q} : requests'[p] = requests[p]
  BY <1>1, <1>3 DEF ProcessMark, Request
<1>5. TypeOK'
  BY <1>2, <1>4 DEF ProcessMark, IInv, TypeOK, queueVars
<1>6. DbGrows
  BY <1>1, <1>2, LenProperties DEF DbGrows, ProcessMark, IInv, TypeOK
<1>7. RequestInv'
  BY <1>1, <1>2, <1>4 DEF IInv, RequestInv, Requested
<1>8. ReadyIsIndexed'
  BY <1>1, <1>2 DEF IInv, ReadyIsIndexed, ProcessMark
<1> QED
  BY <1>5, <1>6, <1>7, <1>8, WebMoves DEF ProcessMark

LEMMA ProcessAbortStep ==
    ASSUME IInv, NEW q \in Requests, ProcessAbort(q) PROVE IInv'
<1>1. /\ requests' \in [Requests -> Request]
      /\ requests'[q].pc = "idle"
      /\ \A p \in Requests \ {q} : requests'[p] = requests[p]
  BY DEF IInv, TypeOK, ProcessAbort, NoRequest, Request, RequestSteps
<1>2. TypeOK'
  BY <1>1 DEF ProcessAbort, IInv, TypeOK, dbVars, queueVars
<1>3. DbGrows
  BY LenProperties DEF DbGrows, ProcessAbort, IInv, TypeOK, dbVars
<1>4. RequestInv'
  BY <1>1 DEF IInv, RequestInv, Requested, ProcessAbort, dbVars
<1>5. ReadyIsIndexed'
  BY DEF IInv, ReadyIsIndexed, ProcessAbort, dbVars
<1> QED
  BY <1>2, <1>3, <1>4, <1>5, WebMoves DEF ProcessAbort, dbVars

LEMMA ProcessEnqueueStep ==
    ASSUME IInv, NEW q \in Requests, ProcessEnqueue(q) PROVE IInv'
<1> DEFINE d == requests[q].doc
           added == [NoJob EXCEPT !.state = "waiting"]
<1>1. /\ d \in Docs /\ Requested(d) /\ job \in [Docs -> Job]
      /\ requests' \in [Requests -> Request]
      /\ requests'[q].pc = "idle"
      /\ \A p \in Requests \ {q} : requests'[p] = requests[p]
  BY DEF IInv, TypeOK, RequestInv, ProcessEnqueue, NoRequest, Request, RequestSteps
<1>2. /\ added \in Job /\ added.state = "waiting" /\ added.made = 0
      /\ added.lock = NoRunner
  BY PipelineAssumption DEF NoJob, Job, JobStates
<1> HIDE DEF added
<1>3. job' = job \/ (job[d].state = "none" /\ job' = [job EXCEPT ![d] = added])
  BY DEF ProcessEnqueue, AddJob, added
<1>4. /\ job' \in [Docs -> Job]
      /\ \A e \in Docs : job'[e] = job[e] \/ (e = d /\ job[d].state = "none" /\ job'[d] = added)
  BY <1>1, <1>2, <1>3
<1>5. TypeOK'
  BY <1>1, <1>4 DEF ProcessEnqueue, IInv, TypeOK, dbVars
<1>6. RequestInv'
  BY <1>1 DEF IInv, RequestInv, Requested, ProcessEnqueue, dbVars
<1>7. JobInv'
  <2> SUFFICES ASSUME NEW e \in Docs PROVE JobOK(e)'
    BY DEF JobInv
  <2>1. JobOK(e) /\ (job'[e] = job[e] \/ (e = d /\ job'[d] = added))
    BY <1>4 DEF IInv, JobInv
  <2> QED
    BY <1>1, <1>2, <2>1, PipelineAssumption
    DEF JobOK, Requested, Busy, At, ProcessEnqueue, dbVars
<1>8. RunInv'
  BY DEF IInv, RunInv, RunOK, Requested, Busy, At, ProcessEnqueue, dbVars
<1>9. LogInv'
  BY <1>4, LogsKeep DEF IInv, ProcessEnqueue
<1>10. LockInv'
  <2> SUFFICES ASSUME ~CanFail("stall"), NEW s \in Runners, Busy(s)
               PROVE  job'[runs[s].doc].lock = s
    BY DEF LockInv, HoldsLock, Busy, At, CanFail, ProcessEnqueue
  <2> QED
    BY <1>4, Locked
<1>11. WholeGeneration' /\ ReadyIsIndexed' /\ VersionsContiguous'
  BY DEF IInv, WholeGeneration, ReadyIsIndexed, VersionsContiguous, ProcessEnqueue, dbVars
<1> QED
  BY <1>5, <1>6, <1>7, <1>8, <1>9, <1>10, <1>11 DEF IInv
----------------------------------------------------------------------------
\* The inductive invariant.

LEMMA InitIInv == Init => IInv
<1> SUFFICES ASSUME Init PROVE IInv
  OBVIOUS
<1>1. \A d \in Docs : job[d] = NoJob /\ status[d] = "ABSENT"
                      /\ chunks[d] = {} /\ versions[d] = <<>>
  BY DEF Init
<1>2. NoJob \in Job /\ NoRun \in Run /\ NoRequest \in Request
  BY PipelineAssumption
  DEF NoJob, NoRun, NoRequest, Job, Run, Request, JobStates, RunSteps, RequestSteps
<1>3. TypeOK
  BY <1>2, PipelineAssumption DEF Init, TypeOK, Statuses
<1>4. RequestInv /\ JobInv /\ RunInv /\ LockInv
  BY <1>1 DEF Init, RequestInv, JobInv, JobOK, RunInv, LockInv, NoJob, NoRun, NoRequest, Busy, At
<1>5. LogInv
  BY DEF Init, LogInv, IsInjective
<1>6. WholeGeneration /\ ReadyIsIndexed /\ VersionsContiguous
  BY <1>1 DEF WholeGeneration, ReadyIsIndexed, VersionsContiguous
<1> QED
  BY <1>3, <1>4, <1>5, <1>6 DEF IInv

LEMMA NextIInv == IInv /\ [Next]_vars => IInv'
<1> SUFFICES ASSUME IInv, [Next]_vars PROVE IInv'
  OBVIOUS
<1>1. CASE UNCHANGED vars
  <2>1. UNCHANGED <<dbVars, queueVars, webVars, runs, crashes>>
    BY <1>1 DEF vars
  <2>2. TypeOK'
    BY <2>1 DEF IInv, TypeOK, dbVars, queueVars, webVars
  <2>3. LogInv'
    BY <2>1 DEF IInv, LogInv, queueVars
  <2> QED
    BY <2>1, <2>2, <2>3, QueueMoves DEF queueVars, webVars
<1>2. ASSUME NEW d \in Docs, Upload(d) \/ RecoverStalled(d) PROVE IInv'
  BY <1>2, UploadStep, RecoverStalledStep
<1>3. ASSUME NEW q \in Requests, NEW d \in Docs, ProcessCheck(q, d) PROVE IInv'
  BY <1>3, ProcessCheckStep
<1>4. ASSUME NEW q \in Requests, RequestStep(q) \/ ProcessAbort(q) PROVE IInv'
  BY <1>4, ProcessMarkStep, ProcessEnqueueStep, ProcessAbortStep DEF RequestStep
<1>5. ASSUME NEW r \in Runners, NEW d \in Docs, PickUp(r, d) PROVE IInv'
  BY <1>5, PickUpStep
<1>6. ASSUME NEW r \in Runners, RunStep(r) PROVE IInv'
  BY <1>6, IncrementStep, MarkStep, WorkStep, DeleteStep, InsertStep, ReadVersionStep,
     CreateVersionStep, IntelligenceStep, ReadyStep, CompleteStep, CatchStep, ThrowStep
  DEF RunStep
<1>7. ASSUME NEW r \in Runners, LoseLock(r) \/ Crash(r) PROVE IInv'
  BY <1>7, LoseLockStep, CrashStep
<1> QED
  BY <1>1, <1>2, <1>3, <1>4, <1>5, <1>6, <1>7 DEF Next

LEMMA AlwaysIInv == Spec => []IInv
  BY InitIInv, NextIInv, PTL DEF Spec
----------------------------------------------------------------------------
\* What follows from it.

\* Every variable stays in its domain, whatever fails.
THEOREM TypeCorrect == Spec => []TypeOK
<1>1. IInv => TypeOK
  BY DEF IInv
<1> QED
  BY <1>1, AlwaysIInv, PTL

\* The searchable chunks of a document (saveChunksWithEmbeddings) are always
\* the complete output of one run, however many runs overlap.
THEOREM WholeGenerationHolds == Spec => []WholeGeneration
<1>1. IInv => WholeGeneration
  BY DEF IInv
<1> QED
  BY <1>1, AlwaysIInv, PTL

\* No document reads READY without searchable chunks.
THEOREM ReadyIsIndexedHolds == Spec => []ReadyIsIndexed
<1>1. IInv => ReadyIsIndexed
  BY DEF IInv
<1> QED
  BY <1>1, AlwaysIInv, PTL

\* createVersion's read-then-insert leaves no gap and no repetition.
THEOREM VersionsContiguousHolds == Spec => []VersionsContiguous
<1>1. IInv => VersionsContiguous
  BY DEF IInv
<1> QED
  BY <1>1, AlwaysIInv, PTL

\* The job id and the lock keep a document from being processed twice at once,
\* as long as locks do not expire under a live handler.
THEOREM ExclusiveRunsHolds == Spec => []ExclusiveRuns
<1>1. IInv => ExclusiveRuns
  BY DEF IInv, ExclusiveRuns, LockInv, HoldsLock
<1> QED
  BY <1>1, AlwaysIInv, PTL
----------------------------------------------------------------------------
\* The status of a document and the state of its job.

\* Without expired locks and database errors a run that is about to end has
\* written its verdict, and so has one that has ended.
VerdictInv ==
    ~CanFail("stall") /\ ~CanFail("db") =>
        /\ VerdictMatchesJob
        /\ \A r \in Runners :
              /\ At(r, "done") => status[runs[r].doc] \in {"READY", "QUEUED"}
              /\ At(r, "throw") => status[runs[r].doc] \in {"FAILED", "QUEUED"}

\* Who writes a status: a request, or a run in the middle of its document.
LEMMA StatusChanges ==
    ASSUME IInv, [Next]_vars, NEW d \in Docs
    PROVE  \/ status'[d] \in {status[d], "QUEUED"}
           \/ status[d] = "ABSENT"
           \/ \E r \in Runners : /\ runs[r].doc = d
                                 /\ runs[r].pc \in {"mark", "ready", "catch"}
                                 /\ UNCHANGED job
<1>0. status \in [Docs -> Statuses]
  BY DEF IInv, TypeOK
<1>1. ASSUME NEW e \in Docs, Upload(e)
      PROVE  status'[d] = status[d] \/ status[d] = "ABSENT"
  BY <1>0, <1>1 DEF Upload, SetStatus
<1>2. ASSUME NEW q \in Requests, ProcessMark(q)
      PROVE  status'[d] \in {status[d], "QUEUED"}
  BY <1>0, <1>2 DEF ProcessMark, SetStatus
<1>3. ASSUME NEW r \in Runners, RunMark(r) \/ RunReady(r) \/ RunCatch(r)
      PROVE  \/ status'[d] = status[d]
             \/ /\ runs[r].doc = d /\ runs[r].pc \in {"mark", "ready", "catch"}
                /\ UNCHANGED job
  BY <1>0, <1>3 DEF RunMark, RunReady, RunCatch, SetStatus, At, queueVars
<1>4. ASSUME \/ UNCHANGED vars
             \/ \E e \in Docs : RecoverStalled(e)
             \/ \E q \in Requests, e \in Docs : ProcessCheck(q, e)
             \/ \E q \in Requests : ProcessEnqueue(q) \/ ProcessAbort(q)
             \/ \E r \in Runners, e \in Docs : PickUp(r, e)
             \/ \E r \in Runners :
                   \/ RunIncrement(r) \/ RunWork(r) \/ RunDeleteChunks(r) \/ RunInsertChunks(r)
                   \/ RunReadVersion(r) \/ RunCreateVersion(r) \/ RunIntelligence(r)
                   \/ RunComplete(r) \/ RunThrow(r) \/ LoseLock(r) \/ Crash(r)
      PROVE  status' = status
  BY <1>4
  DEF vars, dbVars, RecoverStalled, ProcessCheck, ProcessEnqueue, ProcessAbort, PickUp,
      RunIncrement, RunWork, RunDeleteChunks, RunInsertChunks, RunReadVersion,
      RunCreateVersion, RunIntelligence, RunComplete, RunThrow, LoseLock, Crash
<1> QED
  BY <1>1, <1>2, <1>3, <1>4 DEF Next, RequestStep, RunStep

\* How a run comes to its last step: by its verdict.
LEMMA RunArrives ==
    ASSUME IInv, [Next]_vars, ~CanFail("db"), NEW r \in Runners,
           runs'[r] # runs[r], runs'[r].pc \in {"done", "throw"}
    PROVE  status'[runs'[r].doc] = IF runs'[r].pc = "done" THEN "READY" ELSE "FAILED"
<1>0. runs \in [Runners -> Run] /\ runs[r] \in Run /\ status \in [Docs -> Statuses]
  BY DEF IInv, TypeOK
<1>1. ASSUME NEW s \in Runners, RunReady(s) \/ RunCatch(s)
      PROVE  status'[runs'[r].doc] = IF runs'[r].pc = "done" THEN "READY" ELSE "FAILED"
  <2>1. Busy(s)
    BY <1>1 DEF RunReady, RunCatch, Busy, At
  <2>2. s = r /\ runs[r].doc \in Docs
    BY <1>0, <1>1, <2>1, RunFacts DEF RunReady, RunCatch, Goto
  <2>3. \/ SetStatus(runs[r].doc, "READY") /\ Goto(r, "done")
        \/ SetStatus(runs[r].doc, "FAILED") /\ Goto(r, "throw")
    BY <1>1, <2>2 DEF RunReady, RunCatch
  <2> QED
    BY <1>0, <2>2, <2>3 DEF SetStatus, Goto, Run
<1>2. ASSUME NEW s \in Runners,
             RunIncrement(s) \/ RunMark(s) \/ RunWork(s) \/ RunDeleteChunks(s)
      PROVE  FALSE
  BY <1>0, <1>2 DEF RunIncrement, RunMark, RunWork, RunDeleteChunks, Goto, Run
<1>3. ASSUME NEW s \in Runners,
             RunInsertChunks(s) \/ RunReadVersion(s) \/ RunCreateVersion(s) \/ RunIntelligence(s)
      PROVE  FALSE
  BY <1>0, <1>3 DEF RunInsertChunks, RunReadVersion, RunCreateVersion, RunIntelligence, Goto, Run
<1>4. ASSUME NEW s \in Runners, RunComplete(s) \/ RunThrow(s) \/ Crash(s)
      PROVE  FALSE
  BY <1>0, <1>4 DEF RunComplete, RunThrow, Crash, NoRun
<1>5. ASSUME NEW s \in Runners, NEW e \in Docs, PickUp(s, e)
      PROVE  FALSE
  BY <1>0, <1>5 DEF PickUp, NoRun
<1>6. ASSUME \/ UNCHANGED vars
             \/ \E e \in Docs : Upload(e) \/ RecoverStalled(e)
             \/ \E q \in Requests, e \in Docs : ProcessCheck(q, e)
             \/ \E q \in Requests : ProcessMark(q) \/ ProcessEnqueue(q) \/ ProcessAbort(q)
             \/ \E s \in Runners : LoseLock(s)
      PROVE  FALSE
  BY <1>6
  DEF vars, Upload, RecoverStalled, ProcessCheck, ProcessMark, ProcessEnqueue, ProcessAbort,
      LoseLock
<1> QED
  BY <1>1, <1>2, <1>3, <1>4, <1>5, <1>6 DEF Next, RequestStep, RunStep

\* How a job is finished for good: by the end of the run that holds its lock.
LEMMA JobEnds ==
    ASSUME IInv, [Next]_vars, NEW d \in Docs,
           \/ job'[d].state = "completed"
           \/ job'[d].state = "failed" /\ job'[d].made = Attempts
    PROVE  \/ job'[d].state = job[d].state /\ job'[d].made = job[d].made
           \/ \E r \in Runners : /\ runs[r].doc = d /\ UNCHANGED status
                                 /\ At(r, IF job'[d].state = "completed" THEN "done" ELSE "throw")
<1>0. job \in [Docs -> Job] /\ job[d] \in Job /\ TypeOK /\ LogInv
  BY DEF IInv, TypeOK
<1>1. ASSUME NEW e \in Docs, job[e].state = "active", NEW made \in 0..Attempts,
             NEW state, NEW log, NEW keep,
             \/ state = "completed" /\ log = completedLog /\ keep = KeepCompleted
             \/ state = "failed" /\ log = failedLog /\ keep = KeepFailed,
             Retire(e, made, state, log, keep)
      PROVE  \/ job'[d] = job[d]
             \/ d = e /\ job'[d].state = state /\ job'[d].made = made
  <2>1. /\ job'[e].state = state
        /\ d # e => job'[d] = job[d] \/ job'[d] = NoJob
    BY <1>0, <1>1, RetireKeeps
  <2>2. job'[e].made = made
    BY <1>0, <1>1 DEF Retire, Job
  <2> QED
    BY <2>1, <2>2 DEF NoJob
<1>2. ASSUME NEW r \in Runners, RunComplete(r)
      PROVE  \/ job'[d] = job[d]
             \/ runs[r].doc = d /\ job'[d].state = "completed"
  <2> DEFINE e == runs[r].doc
  <2>1. e \in Docs
    BY <1>2, RunFacts DEF RunComplete, Busy, At
  <2>2. CASE HoldsLock(r)
    <3>1. job[e].state = "active" /\ job[e].made \in 0..Attempts
      BY <1>0, <2>1, <2>2, PipelineAssumption DEF HoldsLock, IInv, JobInv, JobOK, Job
    <3>2. Retire(e, job[e].made, "completed", completedLog, KeepCompleted)
      BY <1>2, <2>2 DEF RunComplete
    <3> QED
      BY <1>1, <2>1, <3>1, <3>2
  <2>3. CASE ~HoldsLock(r)
    BY <1>2, <2>3 DEF RunComplete
  <2> QED
    BY <2>2, <2>3
<1>3. ASSUME NEW r \in Runners, RunThrow(r)
      PROVE  \/ job'[d] = job[d]
             \/ runs[r].doc = d /\ job'[d].state = "failed"
  <2> DEFINE e == runs[r].doc
  <2>1. e \in Docs
    BY <1>3, RunFacts DEF RunThrow, Busy, At
  <2>2. CASE HoldsLock(r)
    <3>1. job[e].state = "active" /\ job[e].made + 1 \in 0..Attempts /\ job[e] \in Job
      BY <1>0, <2>1, <2>2, PipelineAssumption DEF HoldsLock, IInv, JobInv, JobOK, Job
    <3>2. FailAttempt(e)
      BY <1>3, <2>2 DEF RunThrow
    <3>3. CASE job[e].made + 1 < Attempts
      <4>1. job' = [job EXCEPT ![e].state = "waiting", ![e].made = job[e].made + 1,
                               ![e].lock = NoRunner]
        BY <3>2, <3>3 DEF FailAttempt
      <4>2. job'[e].state = "waiting"
        BY <1>0, <2>1, <3>1, <4>1 DEF Job
      <4> QED
        BY <1>0, <4>1, <4>2
    <3>4. CASE ~(job[e].made + 1 < Attempts)
      <4>1. Retire(e, job[e].made + 1, "failed", failedLog, KeepFailed)
        BY <3>2, <3>4 DEF FailAttempt
      <4> QED
        BY <1>1, <2>1, <3>1, <4>1
    <3> QED
      BY <3>3, <3>4
  <2>3. CASE ~HoldsLock(r)
    BY <1>3, <2>3 DEF RunThrow, queueVars
  <2> QED
    BY <2>2, <2>3
<1>4. ASSUME NEW e \in Docs, RecoverStalled(e)
      PROVE  job'[d] = job[d]
  <2>1. job[e].state = "active" /\ job[e] \in Job /\ job[e].made \in 0..Attempts
        /\ job[e].made < Attempts
    BY <1>0, <1>4, PipelineAssumption DEF RecoverStalled, IInv, JobInv, JobOK, Job
  <2>2. CASE job[e].stalls < MaxStalled
    <3>1. job' = [job EXCEPT ![e].state = "waiting", ![e].stalls = @ + 1]
      BY <1>4, <2>2 DEF RecoverStalled
    <3>2. job'[e].state = "waiting"
      BY <1>0, <2>1, <3>1 DEF Job
    <3> QED
      BY <1>0, <3>1, <3>2
  <2>3. CASE ~(job[e].stalls < MaxStalled)
    <3>1. Retire(e, job[e].made, "failed", failedLog, KeepFailed)
      BY <1>4, <2>3 DEF RecoverStalled
    <3>2. \/ job'[d] = job[d]
          \/ d = e /\ job'[d].state = "failed" /\ job'[d].made = job[e].made
      BY <1>1, <2>1, <3>1
    <3> QED
      BY <2>1, <3>2, PipelineAssumption
  <2> QED
    BY <2>2, <2>3
<1>5. ASSUME NEW q \in Requests, ProcessEnqueue(q)
      PROVE  job'[d] = job[d]
  BY <1>0, <1>5 DEF ProcessEnqueue, AddJob, NoJob
<1>6. ASSUME NEW r \in Runners, NEW e \in Docs, PickUp(r, e)
      PROVE  job'[d] = job[d]
  <2>1. job' = [job EXCEPT ![e].state = "active", ![e].lock = r]
    BY <1>6 DEF PickUp
  <2>2. e = d => job'[d].state = "active"
    BY <1>0, <2>1 DEF Job
  <2> QED
    BY <1>0, <2>1, <2>2
<1>7. ASSUME NEW r \in Runners, LoseLock(r) \/ Crash(r)
      PROVE  job'[d].state = job[d].state /\ job'[d].made = job[d].made
  <2>1. job'[d] = job[d] \/ job'[d] = [job[d] EXCEPT !.lock = NoRunner]
    BY <1>0, <1>7 DEF LoseLock, Crash
  <2> QED
    BY <1>0, <2>1 DEF Job
<1>8. ASSUME \/ UNCHANGED vars
             \/ \E e \in Docs : Upload(e)
             \/ \E q \in Requests, e \in Docs : ProcessCheck(q, e)
             \/ \E q \in Requests : ProcessMark(q) \/ ProcessAbort(q)
             \/ \E r \in Runners :
                   \/ RunIncrement(r) \/ RunMark(r) \/ RunWork(r) \/ RunDeleteChunks(r)
                   \/ RunInsertChunks(r) \/ RunReadVersion(r) \/ RunCreateVersion(r)
                   \/ RunIntelligence(r) \/ RunReady(r) \/ RunCatch(r)
      PROVE  job' = job
  BY <1>8
  DEF vars, queueVars, Upload, ProcessCheck, ProcessMark, ProcessAbort, RunIncrement, RunMark,
      RunWork, RunDeleteChunks, RunInsertChunks, RunReadVersion, RunCreateVersion,
      RunIntelligence, RunReady, RunCatch
<1>9. CASE \E r \in Runners : RunComplete(r) \/ RunThrow(r)
  BY <1>2, <1>3, <1>9 DEF RunComplete, RunThrow, dbVars
<1> QED
  BY <1>4, <1>5, <1>6, <1>7, <1>8, <1>9 DEF Next, RequestStep, RunStep

LEMMA VerdictStep ==
    ASSUME IInv, VerdictInv, [Next]_vars
    PROVE  VerdictInv'
<1> SUFFICES ASSUME ~CanFail("stall"), ~CanFail("db")
             PROVE  /\ VerdictMatchesJob'
                    /\ \A r \in Runners :
                          /\ runs'[r].pc = "done" => status'[runs'[r].doc] \in {"READY", "QUEUED"}
                          /\ runs'[r].pc = "throw" => status'[runs'[r].doc] \in {"FAILED", "QUEUED"}
  BY DEF VerdictInv, CanFail, At
<1>1. ASSUME NEW r \in Runners, NEW s \in Runners, Busy(r), Busy(s), runs[r].doc = runs[s].doc
      PROVE  r = s
  BY <1>1, Locked
<1>2. ASSUME NEW d \in Docs, job[d].state # "active"
      PROVE  status'[d] \in {status[d], "QUEUED"} \/ status[d] = "ABSENT"
  BY <1>2, Locked, StatusChanges DEF Busy, At
<1>3. ASSUME NEW r \in Runners, runs[r].pc \in {"done", "throw"}
      PROVE  status'[runs[r].doc] \in {status[runs[r].doc], "QUEUED"}
  <2>1. Busy(r) /\ runs[r].doc \in Docs /\ status[runs[r].doc] # "ABSENT"
    BY <1>3, RunFacts DEF Busy, At, RunOK, Requested
  <2>2. ASSUME NEW s \in Runners, runs[s].doc = runs[r].doc,
               runs[s].pc \in {"mark", "ready", "catch"}
        PROVE  FALSE
    BY <1>1, <1>3, <2>1, <2>2 DEF Busy, At
  <2> QED
    BY <2>1, <2>2, StatusChanges
<1>4. ASSUME NEW r \in Runners, runs'[r].pc \in {"done", "throw"}
      PROVE  /\ runs'[r].pc = "done" => status'[runs'[r].doc] \in {"READY", "QUEUED"}
             /\ runs'[r].pc = "throw" => status'[runs'[r].doc] \in {"FAILED", "QUEUED"}
  <2>1. CASE runs'[r] = runs[r]
    BY <1>3, <1>4, <2>1 DEF VerdictInv, At
  <2>2. CASE runs'[r] # runs[r]
    BY <1>4, <2>2, RunArrives
  <2> QED
    BY <2>1, <2>2
<1>5. ASSUME NEW d \in Docs,
             \/ job'[d].state = "completed"
             \/ job'[d].state = "failed" /\ job'[d].made = Attempts
      PROVE  status'[d] \in {"QUEUED", IF job'[d].state = "completed" THEN "READY" ELSE "FAILED"}
  <2>1. CASE job'[d].state = job[d].state /\ job'[d].made = job[d].made
    BY <1>2, <1>5, <2>1 DEF VerdictInv, VerdictMatchesJob
  <2>2. ASSUME NEW r \in Runners, runs[r].doc = d, UNCHANGED status,
               At(r, IF job'[d].state = "completed" THEN "done" ELSE "throw")
        PROVE  status'[d] \in {"QUEUED", IF job'[d].state = "completed" THEN "READY" ELSE "FAILED"}
    BY <1>5, <2>2 DEF VerdictInv
  <2> QED
    BY <1>5, <2>1, <2>2, JobEnds
<1> QED
  BY <1>4, <1>5 DEF VerdictMatchesJob

\* Without expired locks and database errors documents.status says what BullMQ
\* says of the job, whatever crashes, is asked again or is evicted.
THEOREM VerdictMatchesJobHolds == Spec => []VerdictMatchesJob
<1>1. Init => VerdictInv
  BY DEF Init, VerdictInv, VerdictMatchesJob, NoJob, NoRun, At
<1>2. IInv /\ VerdictInv /\ [Next]_vars => VerdictInv'
  BY VerdictStep
<1>3. VerdictInv => VerdictMatchesJob
  BY DEF VerdictInv, VerdictMatchesJob
<1> QED
  BY <1>1, <1>2, <1>3, AlwaysIInv, PTL DEF Spec
----------------------------------------------------------------------------
\* The pipeline implements DocumentLifecycle.

LEMMA RowsOf ==
    ASSUME NEW g \in Nat
    PROVE  Rows(g) # {} /\ \A row \in Rows(g) : row[1] = g
<1>1. <<g, 1>> \in Rows(g)
  BY PipelineAssumption DEF Rows, Indexes
<1>2. ASSUME NEW row \in {g} \X Indexes PROVE row[1] = g
  OBVIOUS
<1> QED
  BY <1>1, <1>2 DEF Rows

\* The mapped index is the run whose rows are there.
LEMMA GenerationOf ==
    ASSUME NEW g \in Nat PROVE Generation(Rows(g)) = g
BY RowsOf DEF Generation

LEMMA Stutter ==
    ASSUME UNCHANGED <<status, chunks>> PROVE UNCHANGED Lifecycle!vars
BY DEF Lifecycle!vars, index

\* Writing a status maps to writing a status.
LEMMA StatusStep ==
    ASSUME NEW d \in Docs, NEW s, SetStatus(d, s), UNCHANGED chunks
    PROVE  Lifecycle!SetStatus(d, s)
BY DEF SetStatus, Lifecycle!SetStatus, index

\* The database changes in six ways only.
LEMMA RefinedStep == IInv /\ [Next]_vars => [Lifecycle!Next]_(Lifecycle!vars)
<1> SUFFICES ASSUME IInv, [Next]_vars, ~UNCHANGED <<status, chunks>>
             PROVE  Lifecycle!Next
  BY Stutter
<1>1. ASSUME NEW d \in Docs, Upload(d) PROVE Lifecycle!Next
  BY <1>1, StatusStep DEF Upload, Lifecycle!Upload, Lifecycle!Next
<1>2. ASSUME NEW q \in Requests, ProcessMark(q) PROVE Lifecycle!Next
  <2>1. requests[q].doc \in Docs /\ status[requests[q].doc] # "ABSENT"
    BY <1>2 DEF IInv, RequestInv, ProcessMark
  <2>2. Lifecycle!SetStatus(requests[q].doc, "QUEUED")
    BY <1>2, <2>1, StatusStep DEF ProcessMark
  <2> QED
    BY <2>1, <2>2 DEF Lifecycle!Queue, Lifecycle!Next
<1>3. ASSUME NEW r \in Runners, Busy(r)
      PROVE  runs[r].doc \in Docs /\ Lifecycle!Requested(runs[r].doc)
  BY <1>3 DEF IInv, RunInv, RunOK, Requested, Lifecycle!Requested
<1>4. ASSUME NEW r \in Runners, RunMark(r) PROVE Lifecycle!Next
  <2>1. runs[r].doc \in Docs /\ Lifecycle!Requested(runs[r].doc)
    BY <1>3, <1>4 DEF RunMark, Busy, At
  <2>2. Lifecycle!SetStatus(runs[r].doc, "PROCESSING")
    BY <1>4, <2>1, StatusStep DEF RunMark
  <2> QED
    BY <2>1, <2>2 DEF Lifecycle!Start, Lifecycle!Next
<1>5. ASSUME NEW r \in Runners, RunInsertChunks(r) PROVE Lifecycle!Next
  <2> DEFINE d == runs[r].doc
             g == runs[r].gen
  <2>1. /\ d \in Docs /\ Lifecycle!Requested(d)
        /\ Busy(r) /\ runs[r].pc = "insert"
    BY <1>3, <1>5 DEF RunInsertChunks, Busy, At
  <2>2. /\ chunks \in [Docs -> SUBSET (Nat \X Indexes)]
        /\ attempts \in [Docs -> Nat] /\ g \in 1..attempts[d]
    BY <2>1, RunFacts DEF RunOK
  <2>3. g \in Nat \ {0}
    BY <2>1, <2>2
  <2>4. /\ ~Collides(d, runs[r].seen)
        /\ chunks' = [chunks EXCEPT ![d] = (@ \ runs[r].seen) \cup Rows(g)]
        /\ UNCHANGED status
    BY <1>5 DEF RunInsertChunks
  <2>5. \A row \in chunks[d] : row[2] \in Indexes
    BY <2>1, <2>2
  <2>6. chunks[d] \ runs[r].seen = {}
    BY <2>4, <2>5 DEF Collides
  <2>7. chunks'[d] = Rows(g) /\ \A e \in Docs \ {d} : chunks'[e] = chunks[e]
    BY <2>1, <2>2, <2>4, <2>6
  <2>8. index'[d] = g
    BY <2>1, <2>3, <2>7, GenerationOf DEF index
  <2>9. index' = [index EXCEPT ![d] = index'[d]]
    BY <2>1, <2>7 DEF index
  <2> QED
    BY <2>1, <2>3, <2>4, <2>8, <2>9 DEF Lifecycle!Publish, Lifecycle!Next
<1>6. ASSUME NEW r \in Runners, RunReady(r) PROVE Lifecycle!Next
  <2> DEFINE d == runs[r].doc
  <2>1. /\ d \in Docs /\ Lifecycle!Requested(d) /\ chunks[d] # {}
    BY <1>3, <1>6 DEF RunReady, Busy, At, IInv, RunInv, RunOK
  <2>2. PICK g \in 1..attempts[d] : chunks[d] = Rows(g)
    BY <2>1 DEF IInv, WholeGeneration
  <2>3. attempts[d] \in Nat /\ g \in Nat \ {0}
    BY <2>1 DEF IInv, TypeOK
  <2>4. index[d] # 0
    BY <2>1, <2>2, <2>3, GenerationOf DEF index
  <2>5. Lifecycle!SetStatus(d, "READY")
    BY <1>6, <2>1, StatusStep DEF RunReady
  <2> QED
    BY <2>1, <2>4, <2>5 DEF Lifecycle!Finish, Lifecycle!Next
<1>7. ASSUME NEW r \in Runners, RunCatch(r) PROVE Lifecycle!Next
  <2>1. runs[r].doc \in Docs /\ Lifecycle!Requested(runs[r].doc)
    BY <1>3, <1>7 DEF RunCatch, Busy, At
  <2>2. Lifecycle!SetStatus(runs[r].doc, "FAILED")
    BY <1>7, <2>1, StatusStep DEF RunCatch
  <2> QED
    BY <2>1, <2>2 DEF Lifecycle!Fail, Lifecycle!Next
<1>8. ASSUME NEW d \in Docs, RecoverStalled(d) PROVE FALSE
  BY <1>8 DEF RecoverStalled, dbVars
<1>9. ASSUME NEW q \in Requests, NEW d \in Docs, ProcessCheck(q, d) PROVE FALSE
  BY <1>9 DEF ProcessCheck, dbVars
<1>10. ASSUME NEW q \in Requests, ProcessEnqueue(q) \/ ProcessAbort(q) PROVE FALSE
  BY <1>10 DEF ProcessEnqueue, ProcessAbort, dbVars
<1>11. ASSUME NEW r \in Runners, NEW d \in Docs, PickUp(r, d) PROVE FALSE
  BY <1>11 DEF PickUp, dbVars
<1>12. ASSUME NEW r \in Runners,
              \/ RunIncrement(r) \/ RunWork(r) \/ RunDeleteChunks(r) \/ RunReadVersion(r)
              \/ RunCreateVersion(r) \/ RunIntelligence(r) \/ RunComplete(r) \/ RunThrow(r)
              \/ LoseLock(r) \/ Crash(r)
       PROVE  FALSE
  BY <1>12
  DEF RunIncrement, RunWork, RunDeleteChunks, RunReadVersion, RunCreateVersion,
      RunIntelligence, RunComplete, RunThrow, LoseLock, Crash, dbVars
<1>13. ~UNCHANGED vars
  BY DEF vars, dbVars
<1> QED
  BY <1>1, <1>2, <1>4, <1>5, <1>6, <1>7, <1>8, <1>9, <1>10, <1>11, <1>12, <1>13
  DEF Next, RequestStep, RunStep

\* Whatever the queue, the workers and the database do, a document goes
\* through the lifecycle: a chunk index replaced whole, in one step, after a
\* request, and READY shown only over such an index.
THEOREM LifecycleImplemented == Spec => ImplementsLifecycle
<1>1. Init => Lifecycle!Init
  <2>1. Generation({}) = 0
    BY DEF Generation
  <2> QED
    BY <2>1 DEF Init, Lifecycle!Init, index
<1> QED
  BY <1>1, AlwaysIInv, RefinedStep, PTL DEF Spec, ImplementsLifecycle, Lifecycle!Spec
=============================================================================
