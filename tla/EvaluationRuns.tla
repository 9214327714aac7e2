--------------------------- MODULE EvaluationRuns ---------------------------
(***************************************************************************)
(* Evaluation runs over one dataset: API handlers that create runs and     *)
(* execute them inline, the queue that hands the others to the evaluation  *)
(* worker, and the dataset that may grow or go in the meantime.            *)
(*                                                                         *)
(* An action is an awaited call.  The two reads of createRun are one, as   *)
(* are findRunById and the update after it: a run never changes its        *)
(* dataset, and both calls fail alike when it is gone.  The questions of a *)
(* run change nothing here, and one that fails is a result like any other. *)
(* Cases are never removed one by one and every reader takes them all, so  *)
(* they go by number, and what a reader or a run has of them is how many.  *)
(* Scores are left out; of the rows of a case it is told whether there is  *)
(* one, or more than one.                                                  *)
(***************************************************************************)
EXTENDS Naturals, FiniteSetsExt

CONSTANTS
    MaxCases,   \* bound: test cases the dataset may come to hold
    Runs,       \* evaluation_runs rows that may be made
    Handlers,   \* API requests that create or execute a run
    Workers,    \* evaluation workers, of concurrency 1
    Attempts,   \* attempts of an evaluation job
    MaxStalled, \* BullMQ's maxStalledCount
    MaxManual,  \* bound: POST /runs/:id/execute requests
    MaxCrashes, \* bound: requests and workers that die
    Faults,     \* what may go wrong, a subset of FaultKinds
    NoRun, NoWorker

FaultKinds == {"redis", "db", "crash", "stall"}

ASSUME EvaluationAssumption ==
    /\ Attempts \in Nat \ {0}
    /\ MaxCases \in Nat /\ MaxStalled \in Nat /\ MaxManual \in Nat /\ MaxCrashes \in Nat
    /\ Faults \subseteq FaultKinds
    /\ Handlers \cap Workers = {}
    /\ NoRun \notin Runs /\ NoWorker \notin Handlers \cup Workers

VARIABLES
    cases,      \* how many evaluation_cases the dataset has
    dataset,    \* "new", "present" or, once deleted, "gone"
    run,        \* evaluation_runs
    results,    \* per run, how many cases have an evaluation_results row
    repeated,   \* and how many have more than one
    job,        \* the BullMQ job evaluation.run of each run
    calls,      \* createRun() and executeRun() calls, of handlers and workers
    manual,     \* execute requests so far
    crashes,
    abandoned   \* history: runs an execution left RUNNING that no queue
                \* repeats, and that nobody executed since

rows == <<cases, dataset, run, results, repeated>>
vars == <<rows, job, calls, manual, crashes, abandoned>>
----------------------------------------------------------------------------

Statuses == {"none", "PENDING", "RUNNING", "COMPLETED", "FAILED", "gone"}
Steps == {"idle", "create", "enqueue", "begin", "cases", "results", "complete", "fail"}
Callers == Handlers \cup Workers

Call == [pc : Steps, run : Runs \cup {NoRun}, read : 0..MaxCases, async : BOOLEAN]
Idle == [pc |-> "idle", run |-> NoRun, read |-> 0, async |-> FALSE]

Job == [state : {"none", "waiting", "active", "completed", "failed"},
        made : 0..Attempts, stalls : 0..MaxStalled, lock : Workers \cup {NoWorker}]
NoJob == [state |-> "none", made |-> 0, stalls |-> 0, lock |-> NoWorker]

\* totalCases and completedCases.
Row == [status : Statuses, total : 0..MaxCases, completed : 0..MaxCases]
NoRow == [status |-> "none", total |-> 0, completed |-> 0]

CanFail(kind) == kind \in Faults
At(c, step) == calls[c].pc = step
GoTo(c, step) == calls' = [calls EXCEPT ![c].pc = step]
Exists(i) == run[i].status \notin {"none", "gone"}

Init ==
    /\ cases = 0 /\ dataset = "new"
    /\ run = [i \in Runs |-> NoRow]
    /\ results = [i \in Runs |-> 0] /\ repeated = [i \in Runs |-> 0]
    /\ job = [i \in Runs |-> NoJob]
    /\ calls = [c \in Callers |-> Idle]
    /\ manual = 0 /\ crashes = 0
    /\ abandoned = {}
----------------------------------------------------------------------------
\* The dataset

\* createDataset, then addCases in the same request or a later one.
AddCases ==
    /\ dataset # "gone"
    /\ \E n \in cases..MaxCases : cases' = n
    /\ dataset' = "present"
    /\ UNCHANGED <<run, results, repeated, job, calls, manual, crashes, abandoned>>

\* ON DELETE CASCADE takes cases, runs and results along; the jobs stay.
DeleteDataset ==
    /\ dataset = "present"
    /\ dataset' = "gone" /\ cases' = 0
    /\ run' = [i \in Runs |-> IF Exists(i) THEN [NoRow EXCEPT !.status = "gone"] ELSE run[i]]
    /\ results' = [i \in Runs |-> 0] /\ repeated' = [i \in Runs |-> 0]
    /\ UNCHANGED <<job, calls, manual, crashes, abandoned>>
----------------------------------------------------------------------------
\* API requests

\* createRun of a dataset with cases; benchmarkComparison is two of them.
CreateRead(h) ==
    /\ At(h, "idle")
    /\ cases # 0
    /\ \E async \in BOOLEAN :
          calls' = [calls EXCEPT ![h] = [Idle EXCEPT !.pc = "create", !.read = cases,
                                                     !.async = async]]
    /\ UNCHANGED <<rows, job, manual, crashes, abandoned>>

\* The row, unless the dataset is gone (foreign key); then the job, or the
\* execution within the request.
CreateRow(h, i) ==
    /\ At(h, "create")
    /\ run[i].status = "none"
    /\ \/ /\ dataset = "present"
          /\ run' = [run EXCEPT ![i] = [status |-> "PENDING", completed |-> 0,
                                        total |-> calls[h].read]]
          /\ calls' = [calls EXCEPT ![h] =
                [Idle EXCEPT !.pc = IF calls[h].async THEN "enqueue" ELSE "begin", !.run = i]]
       \/ /\ dataset = "gone" \/ CanFail("db")
          /\ calls' = [calls EXCEPT ![h] = Idle]
          /\ UNCHANGED run
    /\ UNCHANGED <<cases, dataset, results, repeated, job, manual, crashes, abandoned>>

\* Without a queue, or when add() rejects, the run stays as it was made.
Enqueue(h) ==
    /\ At(h, "enqueue")
    /\ \/ job' = [job EXCEPT ![calls[h].run] = [NoJob EXCEPT !.state = "waiting"]]
       \/ CanFail("redis") /\ UNCHANGED job
    /\ calls' = [calls EXCEPT ![h] = Idle]
    /\ UNCHANGED <<rows, manual, crashes, abandoned>>

\* POST /runs/:id/execute, of any run in any status.
ExecuteManually(h, i) ==
    /\ At(h, "idle")
    /\ Exists(i)
    /\ manual < MaxManual
    /\ manual' = manual + 1
    /\ calls' = [calls EXCEPT ![h] = [Idle EXCEPT !.pc = "begin", !.run = i]]
    /\ UNCHANGED <<rows, job, crashes, abandoned>>
----------------------------------------------------------------------------
\* The queue

\* BullMQ hands a job to a worker that holds its lock.
HoldsLock(c) == calls[c].run \in Runs /\ job[calls[c].run].lock = c

\* Mutant: the job stays in the wait list.
PickUpAndLeave(w, i) ==
    /\ At(w, "idle")
    /\ job[i].state = "waiting"
    /\ calls' = [calls EXCEPT ![w] = [Idle EXCEPT !.pc = "begin", !.run = i]]
    /\ UNCHANGED <<rows, job, manual, crashes, abandoned>>

\* The evaluation worker's processor calls executeRun.
PickUp(w, i) ==
    /\ At(w, "idle")
    /\ job[i].state = "waiting"
    /\ job' = [job EXCEPT ![i].state = "active", ![i].lock = w]
    /\ calls' = [calls EXCEPT ![w] = [Idle EXCEPT !.pc = "begin", !.run = i]]
    /\ UNCHANGED <<rows, manual, crashes, abandoned>>

\* Mutant: nobody looks for stalled jobs.
NeverRecoverStalled(i) == FALSE

\* An active job without a lock waits again, or fails when it has stalled too
\* often.
RecoverStalled(i) ==
    /\ job[i].state = "active" /\ job[i].lock = NoWorker
    /\ job' = IF job[i].stalls < MaxStalled
              THEN [job EXCEPT ![i].state = "waiting", ![i].stalls = @ + 1]
              ELSE [job EXCEPT ![i].state = "failed"]
    /\ UNCHANGED <<rows, calls, manual, crashes, abandoned>>

\* The lock of a live execution expires.
LoseLock(w) ==
    /\ CanFail("stall")
    /\ ~At(w, "idle") /\ HoldsLock(w)
    /\ job' = [job EXCEPT ![calls[w].run].lock = NoWorker]
    /\ UNCHANGED <<rows, calls, manual, crashes, abandoned>>

\* The run was marked and no queue will repeat the execution of c.
Abandons(c) ==
    /\ calls[c].pc \in {"cases", "results", "complete", "fail"}
    /\ ~HoldsLock(c)

Abandon(c) ==
    abandoned' = IF Abandons(c) THEN abandoned \cup {calls[c].run} ELSE abandoned

\* A request or a worker dies, at shutdown too: closeWorkers() does not know
\* the evaluation worker.
Crash(c) ==
    /\ CanFail("crash")
    /\ crashes < MaxCrashes
    /\ ~At(c, "idle")
    /\ crashes' = crashes + 1
    /\ Abandon(c)
    /\ calls' = [calls EXCEPT ![c] = Idle]
    /\ job' = IF c \in Workers /\ HoldsLock(c)
              THEN [job EXCEPT ![calls[c].run].lock = NoWorker]
              ELSE job
    /\ UNCHANGED <<rows, manual>>
----------------------------------------------------------------------------
\* executeRun(), of a handler or a worker

Survives(c) == Exists(calls[c].run)

\* Mutant: one attempt too many.
SettleLate(c, ok) ==
    LET i == calls[c].run
        made == job[i].made + 1
        end == IF ok THEN [job[i] EXCEPT !.state = "completed", !.lock = NoWorker]
               ELSE [job[i] EXCEPT !.state = IF made <= Attempts THEN "waiting" ELSE "failed",
                                   !.made = made, !.lock = NoWorker]
    IN  /\ job' = IF HoldsLock(c) THEN [job EXCEPT ![i] = end] ELSE job
        /\ calls' = [calls EXCEPT ![c] = Idle]

\* What the end of an execution means for its job: a result or a rejection
\* counts only with the lock.
Settle(c, ok) ==
    LET i == calls[c].run
        made == job[i].made + 1
        end == IF ok THEN [job[i] EXCEPT !.state = "completed", !.lock = NoWorker]
               ELSE [job[i] EXCEPT !.state = IF made < Attempts THEN "waiting" ELSE "failed",
                                   !.made = made, !.lock = NoWorker]
    IN  /\ job' = IF HoldsLock(c) THEN [job EXCEPT ![i] = end] ELSE job
        /\ calls' = [calls EXCEPT ![c] = Idle]

\* RUNNING, or an exception before the try block.
Begin(c) ==
    /\ At(c, "begin")
    /\ \/ /\ Survives(c)
          /\ run' = [run EXCEPT ![calls[c].run].status = "RUNNING"]
          /\ abandoned' = abandoned \ {calls[c].run}
          /\ GoTo(c, "cases")
          /\ UNCHANGED job
       \/ /\ ~Survives(c) \/ CanFail("db")
          /\ Settle(c, FALSE)
          /\ UNCHANGED <<run, abandoned>>
    /\ UNCHANGED <<cases, dataset, results, repeated, manual, crashes>>

\* The dataset as it is by now, which may have more cases than at createRun.
ReadCases(c) ==
    /\ At(c, "cases")
    /\ \/ calls' = [calls EXCEPT ![c].pc = "results", ![c].read = cases]
       \/ CanFail("db") /\ GoTo(c, "fail")
    /\ UNCHANGED <<rows, job, manual, crashes, abandoned>>

\* Mutant: createResultsBatch() is not awaited, and lost.
LoseResults(c) ==
    /\ At(c, "results")
    /\ GoTo(c, "complete")
    /\ UNCHANGED <<rows, job, manual, crashes, abandoned>>

\* The questions, then one createMany that adds a row for each of them, refused
\* when the run is gone.
WriteResults(c) ==
    /\ At(c, "results")
    /\ \/ LET i == calls[c].run
           IN  /\ Survives(c) \/ calls[c].read = 0
               /\ repeated' = [repeated EXCEPT ![i] = Max({@, Min({calls[c].read, results[i]})})]
               /\ results' = [results EXCEPT ![i] = Max({@, calls[c].read})]
               /\ GoTo(c, "complete")
       \/ /\ ~Survives(c) \/ CanFail("db")
          /\ GoTo(c, "fail")
          /\ UNCHANGED <<results, repeated>>
    /\ UNCHANGED <<cases, dataset, run, job, manual, crashes, abandoned>>

\* COMPLETED with the count of the cases that were read, after their results.
Complete(c) ==
    /\ At(c, "complete")
    /\ \/ /\ Survives(c)
          /\ run' = [run EXCEPT ![calls[c].run].status = "COMPLETED",
                                ![calls[c].run].completed = calls[c].read]
          /\ abandoned' = abandoned \ {calls[c].run}
          /\ Settle(c, TRUE)
       \/ /\ ~Survives(c) \/ CanFail("db")
          /\ GoTo(c, "fail")
          /\ UNCHANGED <<run, job, abandoned>>
    /\ UNCHANGED <<cases, dataset, results, repeated, manual, crashes>>

\* Mutant: the catch block logs and returns.
FailSilently(c) ==
    /\ At(c, "fail")
    /\ Settle(c, TRUE)
    /\ UNCHANGED <<rows, manual, crashes, abandoned>>

\* The catch block: FAILED is recorded and returned, so that the queue does
\* not try again; only when that update rejects does the call reject.
Fail(c) ==
    /\ At(c, "fail")
    /\ \/ /\ Survives(c)
          /\ run' = [run EXCEPT ![calls[c].run].status = "FAILED"]
          /\ abandoned' = abandoned \ {calls[c].run}
          /\ Settle(c, TRUE)
       \/ /\ ~Survives(c) \/ CanFail("db")
          /\ Abandon(c)
          /\ Settle(c, FALSE)
          /\ UNCHANGED run
    /\ UNCHANGED <<cases, dataset, results, repeated, manual, crashes>>
----------------------------------------------------------------------------

ExecuteStep(c) ==
    \/ Begin(c) \/ ReadCases(c) \/ WriteResults(c) \/ Complete(c) \/ Fail(c)

Next ==
    \/ AddCases \/ DeleteDataset
    \/ \E h \in Handlers : CreateRead(h) \/ Enqueue(h)
    \/ \E h \in Handlers, i \in Runs : CreateRow(h, i) \/ ExecuteManually(h, i)
    \/ \E i \in Runs : RecoverStalled(i)
    \/ \E w \in Workers, i \in Runs : PickUp(w, i)
    \/ \E w \in Workers : LoseLock(w)
    \/ \E c \in Callers : ExecuteStep(c) \/ Crash(c)

Spec == Init /\ [][Next]_vars

\* Ready continuations run; an idle worker takes a waiting job and looks for
\* stalled ones.
FairSpec ==
    /\ Spec
    /\ \A c \in Callers : WF_vars(ExecuteStep(c))
    /\ \A i \in Runs : WF_vars(\E w \in Workers : PickUp(w, i)) /\ WF_vars(RecoverStalled(i))
----------------------------------------------------------------------------
\* Properties

TypeOK ==
    /\ cases \in 0..MaxCases /\ dataset \in {"new", "present", "gone"}
    /\ run \in [Runs -> Row] /\ results \in [Runs -> 0..MaxCases]
    /\ repeated \in [Runs -> 0..MaxCases]
    /\ job \in [Runs -> Job] /\ calls \in [Callers -> Call]
    /\ manual \in 0..MaxManual /\ crashes \in 0..MaxCrashes
    /\ abandoned \subseteq Runs

\* A COMPLETED run covers the cases it was made for and has a result for each
\* case it counts, whichever executions of it overlap or fail and however the
\* dataset grows meanwhile.
CompletedIsComplete ==
    \A i \in Runs :
        run[i].status = "COMPLETED" =>
            /\ run[i].total <= run[i].completed
            /\ run[i].completed <= results[i]

Executing(i) == \E c \in Callers : ~At(c, "idle") /\ calls[c].run = i

Final(i) == run[i].status \in {"COMPLETED", "FAILED", "gone"}

\* When the queue calls a job completed and nobody executes its run, the run
\* has its verdict, or an execution nobody repeats left it RUNNING.
VerdictRecorded ==
    \A i \in Runs :
        job[i].state = "completed" /\ ~Executing(i) /\ i \notin abandoned => Final(i)

\* Every case is answered once in a run that was delivered once and that nobody
\* executed by hand.
OncePerDelivery ==
    \A i \in Runs :
        manual = 0 /\ job[i].stalls = 0 /\ job[i].made = 0 => repeated[i] = 0

\* A run that was given to the queue ends in a verdict or as a failed job.
QueuedRunsEnd ==
    \A i \in Runs :
        <>[](job[i].state # "none" => \/ Final(i) \/ job[i].state = "failed"
                                      \/ i \in abandoned)
=============================================================================
