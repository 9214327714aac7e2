----------------------- MODULE EvaluationRuns_proofs -----------------------
(***************************************************************************)
(* Theorems about EvaluationRuns, for any runs, requests, workers, bounds  *)
(* and faults.                                                             *)
(*                                                                         *)
(* The invariant follows an execution: what it has read covers what its    *)
(* run was made for, and what it has written covers what it has read, as   *)
(* long as the run exists.  A run without a verdict whose job is completed *)
(* is in the hands of an execution that has marked it.  A run that nothing *)
(* has repeated is in one pair of hands, or waits in the queue.            *)
(***************************************************************************)
EXTENDS EvaluationRuns, TLAPS

Marked == {"cases", "results", "complete", "fail"}

\* Everything but an idle call and one that has not made its row knows a run.
CallInv ==
    \A c \in Callers :
        calls[c].pc \notin {"idle", "create"} =>
            calls[c].run \in Runs /\ run[calls[c].run].status # "none"

\* A job that may run again has an attempt left, a lock belongs to an active
\* job, and only a run that was made has a job.
JobInv ==
    \A i \in Runs :
        /\ job[i].state \in {"waiting", "active"} => job[i].made < Attempts
        /\ job[i].lock # NoWorker => job[i].state = "active"
        /\ job[i].state # "none" => run[i].status # "none"

\* Runs go with their dataset, which only grows.
RowInv == \A i \in Runs : Exists(i) => dataset = "present" /\ run[i].total <= cases

\* What a call has read and written.
ReadInv ==
    \A c \in Callers :
        /\ At(c, "create") /\ dataset # "gone" => calls[c].read <= cases
        /\ calls[c].pc \in {"results", "complete"} /\ Survives(c) =>
              run[calls[c].run].total <= calls[c].read
        /\ At(c, "complete") /\ Survives(c) => calls[c].read <= results[calls[c].run]

VerdictInv ==
    \A i \in Runs :
        job[i].state = "completed" /\ i \notin abandoned /\ ~Final(i) =>
            \E c \in Callers : calls[c].pc \in Marked /\ calls[c].run = i

IInv ==
    /\ TypeOK
    /\ CallInv /\ JobInv
    /\ RowInv /\ ReadInv
    /\ CompletedIsComplete
    /\ VerdictInv
----------------------------------------------------------------------------
\* Facts about one step

\* The larger and the smaller of two numbers.
LEMMA MaxOfTwo ==
    ASSUME NEW n \in Nat, NEW a \in 0..n, NEW b \in 0..n
    PROVE  /\ Max({a, b}) \in 0..n /\ Max({a, b}) >= a /\ Max({a, b}) >= b
           /\ a = 0 /\ b = 0 => Max({a, b}) = 0
<1>1. \E x \in {a, b} : \A y \in {a, b} : x >= y
  OBVIOUS
<1> QED BY <1>1 DEF Max

LEMMA MinOfTwo ==
    ASSUME NEW n \in Nat, NEW a \in 0..n, NEW b \in 0..n
    PROVE  Min({a, b}) \in 0..n /\ Min({a, b}) <= b
<1>1. \E x \in {a, b} : \A y \in {a, b} : x <= y
  OBVIOUS
<1> QED BY <1>1 DEF Min

LEMMA NextCases ==
    ASSUME Next
    PROVE  \/ AddCases \/ DeleteDataset
           \/ \E h \in Handlers : CreateRead(h) \/ Enqueue(h)
           \/ \E h \in Handlers, i \in Runs : CreateRow(h, i) \/ ExecuteManually(h, i)
           \/ \E i \in Runs : RecoverStalled(i)
           \/ \E w \in Workers, i \in Runs : PickUp(w, i)
           \/ \E w \in Workers : LoseLock(w)
           \/ \E c \in Callers : \/ Begin(c) \/ ReadCases(c) \/ WriteResults(c)
                                 \/ Complete(c) \/ Fail(c) \/ Crash(c)
  BY DEF Next, ExecuteStep

\* The lock of a call is that of an active job with an attempt left.
LEMMA LockIsActive ==
    ASSUME TypeOK, JobInv, NEW c \in Callers, HoldsLock(c)
    PROVE  /\ calls[c].run \in Runs
           /\ job[calls[c].run].state = "active"
           /\ job[calls[c].run].made < Attempts
  BY EvaluationAssumption DEF HoldsLock, JobInv, Callers

\* The two ways an execution ends.
LEMMA SettleTypes ==
    ASSUME TypeOK, JobInv, NEW c \in Callers, NEW ok \in BOOLEAN, Settle(c, ok)
    PROVE  job' \in [Runs -> Job] /\ calls' \in [Callers -> Call]
<1>1. Idle \in Call
  BY EvaluationAssumption DEF Idle, Call, Steps
<1>2. calls' \in [Callers -> Call]
  BY <1>1 DEF Settle, TypeOK
<1>3. CASE HoldsLock(c)
  <2> DEFINE i == calls[c].run
             made == job[i].made + 1
  <2>1. i \in Runs /\ job[i] \in Job /\ made \in 0..Attempts
    BY <1>3, LockIsActive, EvaluationAssumption DEF TypeOK, Job
  <2>2. [job[i] EXCEPT !.state = "completed", !.lock = NoWorker] \in Job
    BY <2>1 DEF Job
  <2>3. [job[i] EXCEPT !.state = IF made < Attempts THEN "waiting" ELSE "failed",
                       !.made = made, !.lock = NoWorker] \in Job
    BY <2>1 DEF Job
  <2> QED BY <1>2, <1>3, <2>1, <2>2, <2>3 DEF Settle, TypeOK
<1>4. CASE ~HoldsLock(c)
  BY <1>2, <1>4 DEF Settle, TypeOK
<1> QED BY <1>3, <1>4
----------------------------------------------------------------------------
\* Types

LEMMA TypeInit == Init => TypeOK
  BY EvaluationAssumption DEF Init, TypeOK, Row, NoRow, Statuses, Job, NoJob, Call, Idle, Steps

LEMMA TypeStep ==
    ASSUME TypeOK, CallInv, JobInv, [Next]_vars
    PROVE  TypeOK'
<1> USE EvaluationAssumption
<1>0. Idle \in Call /\ NoRow \in Row /\ NoJob \in Job
  BY DEF Idle, Call, Steps, NoRow, Row, Statuses, NoJob, Job
<1>1. CASE AddCases
  BY <1>1 DEF AddCases, TypeOK
<1>2. CASE DeleteDataset
  <2>1. [NoRow EXCEPT !.status = "gone"] \in Row
    BY DEF NoRow, Row, Statuses
  <2> QED BY <1>2, <2>1 DEF DeleteDataset, TypeOK
<1>3. ASSUME NEW h \in Handlers, CreateRead(h)
      PROVE  TypeOK'
  <2>1. ASSUME NEW async \in BOOLEAN
        PROVE  [Idle EXCEPT !.pc = "create", !.read = cases, !.async = async] \in Call
    BY DEF Idle, Call, Steps, TypeOK
  <2>2. calls' \in [Callers -> Call]
    BY <1>3, <2>1 DEF CreateRead, TypeOK, Callers
  <2> QED BY <1>3, <2>2 DEF CreateRead, rows, TypeOK
<1>4. ASSUME NEW h \in Handlers, NEW i \in Runs, CreateRow(h, i)
      PROVE  TypeOK'
  <2>1. h \in Callers /\ calls[h] \in Call
    BY DEF Callers, TypeOK
  <2>2. [status |-> "PENDING", completed |-> 0, total |-> calls[h].read] \in Row
    BY <2>1 DEF Call, Row, Statuses
  <2>3. [Idle EXCEPT !.pc = IF calls[h].async THEN "enqueue" ELSE "begin", !.run = i] \in Call
    BY <1>0 DEF Call, Steps
  <2>4. run' \in [Runs -> Row] /\ calls' \in [Callers -> Call]
    BY <1>0, <1>4, <2>2, <2>3 DEF CreateRow, TypeOK
  <2> QED BY <1>4, <2>4 DEF CreateRow, TypeOK
<1>5. ASSUME NEW h \in Handlers, Enqueue(h)
      PROVE  TypeOK'
  <2>1. [NoJob EXCEPT !.state = "waiting"] \in Job
    BY DEF NoJob, Job
  <2>2. job' \in [Runs -> Job]
    BY <1>5, <2>1 DEF Enqueue, TypeOK
  <2>3. calls' \in [Callers -> Call]
    BY <1>0, <1>5 DEF Enqueue, TypeOK
  <2> QED BY <1>5, <2>2, <2>3 DEF Enqueue, rows, TypeOK
<1>6. ASSUME NEW h \in Handlers, NEW i \in Runs, ExecuteManually(h, i)
      PROVE  TypeOK'
  <2>1. [Idle EXCEPT !.pc = "begin", !.run = i] \in Call
    BY <1>0 DEF Call, Steps
  <2>2. calls' \in [Callers -> Call]
    BY <1>6, <2>1 DEF ExecuteManually, TypeOK
  <2>3. manual' \in 0..MaxManual
    BY <1>6 DEF ExecuteManually, TypeOK
  <2> QED BY <1>6, <2>2, <2>3 DEF ExecuteManually, rows, TypeOK
<1>7. ASSUME NEW i \in Runs, RecoverStalled(i)
      PROVE  TypeOK'
  <2>1. job[i] \in Job
    BY DEF TypeOK
  <2>2. ASSUME job[i].stalls < MaxStalled
        PROVE  [job[i] EXCEPT !.state = "waiting", !.stalls = @ + 1] \in Job
    <3>1. job[i].stalls + 1 \in 0..MaxStalled
      BY <2>1, <2>2 DEF Job
    <3> QED BY <2>1, <3>1 DEF Job
  <2>3. [job[i] EXCEPT !.state = "failed"] \in Job
    BY <2>1 DEF Job
  <2>4. job' \in [Runs -> Job]
    BY <1>7, <2>2, <2>3 DEF RecoverStalled, TypeOK
  <2> QED BY <1>7, <2>4 DEF RecoverStalled, rows, TypeOK
<1>8. ASSUME NEW w \in Workers, NEW i \in Runs, PickUp(w, i)
      PROVE  TypeOK'
  <2>1. [Idle EXCEPT !.pc = "begin", !.run = i] \in Call
    BY <1>0 DEF Call, Steps
  <2>2. [job[i] EXCEPT !.state = "active", !.lock = w] \in Job
    BY DEF TypeOK, Job
  <2>3. job' \in [Runs -> Job] /\ calls' \in [Callers -> Call]
    BY <1>8, <2>1, <2>2 DEF PickUp, TypeOK
  <2> QED BY <1>8, <2>3 DEF PickUp, rows, TypeOK
<1>9. ASSUME NEW w \in Workers, LoseLock(w)
      PROVE  TypeOK'
  <2>1. ASSUME NEW i \in Runs
        PROVE  [job[i] EXCEPT !.lock = NoWorker] \in Job
    BY DEF TypeOK, Job
  <2>2. job' \in [Runs -> Job]
    BY <1>9, <2>1 DEF LoseLock, HoldsLock, TypeOK
  <2> QED BY <1>9, <2>2 DEF LoseLock, rows, TypeOK
<1>10. ASSUME NEW c \in Callers, Crash(c)
       PROVE  TypeOK'
  <2>1. ASSUME NEW i \in Runs
        PROVE  [job[i] EXCEPT !.lock = NoWorker] \in Job
    BY DEF TypeOK, Job
  <2>2. job' \in [Runs -> Job]
    BY <1>10, <2>1 DEF Crash, HoldsLock, TypeOK
  <2>3. calls' \in [Callers -> Call] /\ crashes' \in 0..MaxCrashes
    BY <1>0, <1>10 DEF Crash, TypeOK
  <2>4. abandoned' \subseteq Runs
    BY <1>10 DEF Crash, Abandon, Abandons, CallInv, TypeOK
  <2> QED BY <1>10, <2>2, <2>3, <2>4 DEF Crash, rows, TypeOK
<1>11. ASSUME NEW c \in Callers, NEW step \in Steps
       PROVE  /\ [calls[c] EXCEPT !.pc = step] \in Call
              /\ [calls[c] EXCEPT !.pc = step, !.read = cases] \in Call
  BY DEF TypeOK, Call
<1>13. ASSUME NEW c \in Callers, Begin(c)
       PROVE  TypeOK'
  <2>1. calls[c].run \in Runs
    BY <1>13 DEF Begin, At, CallInv
  <2>2. job' \in [Runs -> Job] /\ calls' \in [Callers -> Call]
    <3>1. CASE Settle(c, FALSE)
      BY <3>1, SettleTypes
    <3>2. CASE GoTo(c, "cases") /\ UNCHANGED job
      BY <3>2, <1>11 DEF GoTo, TypeOK, Steps
    <3> QED BY <1>13, <3>1, <3>2 DEF Begin
  <2>3. run' \in [Runs -> Row]
    <3>1. [run[calls[c].run] EXCEPT !.status = "RUNNING"] \in Row
      BY <2>1 DEF TypeOK, Row, Statuses
    <3> QED BY <1>13, <3>1 DEF Begin, TypeOK
  <2>4. abandoned' \subseteq Runs
    BY <1>13 DEF Begin, TypeOK
  <2> QED BY <1>13, <2>2, <2>3, <2>4 DEF Begin, TypeOK
<1>14. ASSUME NEW c \in Callers, ReadCases(c)
       PROVE  TypeOK'
  <2>1. calls' \in [Callers -> Call]
    BY <1>11, <1>14 DEF ReadCases, GoTo, TypeOK, Steps
  <2> QED BY <1>14, <2>1 DEF ReadCases, rows, TypeOK
<1>15. ASSUME NEW c \in Callers, WriteResults(c)
       PROVE  TypeOK'
  <2> DEFINE i == calls[c].run
             n == calls[c].read
  <2>1. i \in Runs /\ n \in 0..MaxCases
    BY <1>15 DEF WriteResults, At, CallInv, TypeOK, Call
  <2>2. results[i] \in 0..MaxCases /\ repeated[i] \in 0..MaxCases
    BY <2>1 DEF TypeOK
  <2>3. Max({results[i], n}) \in 0..MaxCases
    BY <2>1, <2>2, MaxOfTwo
  <2>4. Max({repeated[i], Min({n, results[i]})}) \in 0..MaxCases
    <3>1. Min({n, results[i]}) \in 0..MaxCases
      BY <2>1, <2>2, MinOfTwo
    <3> QED BY <2>2, <3>1, MaxOfTwo
  <2>5. results' \in [Runs -> 0..MaxCases] /\ repeated' \in [Runs -> 0..MaxCases]
    BY <1>15, <2>3, <2>4 DEF WriteResults, TypeOK
  <2>6. calls' \in [Callers -> Call]
    <3>1. PICK step \in Steps : calls' = [calls EXCEPT ![c].pc = step]
      BY <1>15 DEF WriteResults, GoTo, Steps
    <3>2. [calls[c] EXCEPT !.pc = step] \in Call
      BY <1>11
    <3> QED BY <3>1, <3>2 DEF TypeOK
  <2> QED BY <1>15, <2>5, <2>6 DEF WriteResults, TypeOK
<1>16. ASSUME NEW c \in Callers, Complete(c)
       PROVE  TypeOK'
  <2>1. calls[c].run \in Runs /\ calls[c].read \in 0..MaxCases
    BY <1>16 DEF Complete, At, CallInv, TypeOK, Call
  <2>2. job' \in [Runs -> Job] /\ calls' \in [Callers -> Call]
    <3>1. CASE Settle(c, TRUE)
      BY <3>1, SettleTypes
    <3>2. CASE GoTo(c, "fail") /\ UNCHANGED job
      BY <3>2, <1>11 DEF GoTo, TypeOK, Steps
    <3> QED BY <1>16, <3>1, <3>2 DEF Complete
  <2>3. run' \in [Runs -> Row]
    <3> DEFINE row == [run[calls[c].run] EXCEPT !.status = "COMPLETED",
                                                !.completed = calls[c].read]
    <3>1. row \in Row
      <4>1. run[calls[c].run] \in Row
        BY <2>1 DEF TypeOK
      <4> QED BY <2>1, <4>1 DEF Row, Statuses
    <3>2. run' = run \/ run' = [run EXCEPT ![calls[c].run] = row]
      <4>1. [run EXCEPT ![calls[c].run].status = "COMPLETED",
                        ![calls[c].run].completed = calls[c].read]
              = [run EXCEPT ![calls[c].run] = row]
        BY <2>1 DEF TypeOK, Row
      <4> QED BY <1>16, <4>1 DEF Complete
    <3> HIDE DEF row
    <3> QED BY <3>1, <3>2 DEF TypeOK
  <2>4. abandoned' \subseteq Runs
    BY <1>16 DEF Complete, TypeOK
  <2> QED BY <1>16, <2>2, <2>3, <2>4 DEF Complete, TypeOK
<1>17. ASSUME NEW c \in Callers, Fail(c)
       PROVE  TypeOK'
  <2>1. calls[c].run \in Runs
    BY <1>17 DEF Fail, At, CallInv
  <2>2. job' \in [Runs -> Job] /\ calls' \in [Callers -> Call]
    BY <1>17, SettleTypes DEF Fail
  <2>3. run' \in [Runs -> Row]
    <3>1. [run[calls[c].run] EXCEPT !.status = "FAILED"] \in Row
      BY <2>1 DEF TypeOK, Row, Statuses
    <3> QED BY <1>17, <3>1 DEF Fail, TypeOK
  <2>4. abandoned' \subseteq Runs
    BY <1>17, <2>1 DEF Fail, Abandon, TypeOK
  <2> QED BY <1>17, <2>2, <2>3, <2>4 DEF Fail, TypeOK
<1>18. CASE UNCHANGED vars
  BY <1>18 DEF vars, rows, TypeOK
<1> QED BY <1>1, <1>2, <1>3, <1>4, <1>5, <1>6, <1>7, <1>8, <1>9, <1>10, <1>13, <1>14,
           <1>15, <1>16, <1>17, <1>18, NextCases
----------------------------------------------------------------------------
\* What a step leaves of a run

\* A run that was made and is not gone is the same run, with the results it had.
LEMMA RunKept ==
    ASSUME TypeOK, CallInv, RowInv, [Next]_vars, NEW i \in Runs, run[i].status # "none"
    PROVE  /\ run'[i].status # "none"
           /\ Exists(i)' =>
                 /\ Exists(i)
                 /\ run'[i].total = run[i].total
                 /\ results'[i] >= results[i]
                 /\ cases' >= cases /\ dataset' = dataset
<1> USE DEF Exists
<1>0. results[i] \in Nat /\ cases \in Nat /\ run[i] \in Row
  BY EvaluationAssumption DEF TypeOK
<1>1. CASE AddCases
  <2>1. run' = run /\ results' = results /\ dataset' = "present" /\ cases' >= cases
    BY <1>0, <1>1, EvaluationAssumption DEF AddCases
  <2> QED BY <1>0, <2>1 DEF RowInv
<1>2. CASE DeleteDataset
  BY <1>2 DEF DeleteDataset, NoRow
<1>3. ASSUME NEW h \in Handlers, NEW k \in Runs, CreateRow(h, k)
      PROVE  run'[i] = run[i] /\ UNCHANGED <<results, cases, dataset>>
  BY <1>3 DEF CreateRow, TypeOK
<1>4. ASSUME NEW c \in Callers, Begin(c) \/ Complete(c) \/ Fail(c)
      PROVE  /\ run'[i].status # "none" /\ run'[i].total = run[i].total
             /\ Exists(i)' => Exists(i)
             /\ UNCHANGED <<results, cases, dataset>>
  <2>1. calls[c].run \in Runs
    BY <1>4 DEF Begin, Complete, Fail, At, CallInv
  <2>2. CASE run' = run
    BY <1>4, <2>2 DEF Begin, Complete, Fail
  <2>3. ASSUME NEW k \in Runs, Exists(k),
               \/ run' = [run EXCEPT ![k].status = "RUNNING"]
               \/ run' = [run EXCEPT ![k].status = "FAILED"]
               \/ run' = [run EXCEPT ![k].status = "COMPLETED", ![k].completed = calls[c].read]
        PROVE  run'[i].status # "none" /\ run'[i].total = run[i].total /\ (Exists(i)' => Exists(i))
    <3>1. run[k] \in Row
      BY DEF TypeOK
    <3>2. CASE k = i
      BY <1>0, <2>3, <3>2 DEF TypeOK, Row
    <3>3. CASE k # i
      BY <2>3, <3>3 DEF TypeOK
    <3> QED BY <3>2, <3>3
  <2>4. CASE run' # run
    BY <1>4, <2>1, <2>3, <2>4 DEF Begin, Complete, Fail, Survives
  <2>5. UNCHANGED <<results, cases, dataset>>
    BY <1>4 DEF Begin, Complete, Fail
  <2> QED BY <2>2, <2>4, <2>5
<1>5. ASSUME NEW c \in Callers, WriteResults(c)
      PROVE  results'[i] >= results[i] /\ UNCHANGED <<run, cases, dataset>>
  <2>1. calls[c].run \in Runs /\ calls[c].read \in 0..MaxCases
    BY <1>5 DEF WriteResults, At, CallInv, TypeOK, Call
  <2>2. ASSUME NEW k \in Runs
        PROVE  Max({results[k], calls[c].read}) >= results[k]
    BY <2>1, MaxOfTwo, EvaluationAssumption DEF TypeOK
  <2> QED BY <1>0, <1>5, <2>1, <2>2 DEF WriteResults, TypeOK
<1>6. CASE \/ \E h \in Handlers : CreateRead(h) \/ Enqueue(h)
           \/ \E h \in Handlers, k \in Runs : ExecuteManually(h, k)
           \/ \E k \in Runs : RecoverStalled(k)
           \/ \E w \in Workers, k \in Runs : PickUp(w, k)
           \/ \E w \in Workers : LoseLock(w)
           \/ \E c \in Callers : ReadCases(c) \/ Crash(c)
           \/ UNCHANGED vars
  <2>1. UNCHANGED rows
    BY <1>6 DEF CreateRead, Enqueue, ExecuteManually, RecoverStalled, PickUp, LoseLock,
       ReadCases, Crash, vars
  <2> QED BY <1>0, <2>1 DEF rows
<1> QED BY <1>0, <1>1, <1>2, <1>3, <1>4, <1>5, <1>6, NextCases

\* A dataset that is there now was not gone, and has lost no case.
LEMMA DatasetKept ==
    ASSUME TypeOK, [Next]_vars, dataset' # "gone"
    PROVE  dataset # "gone" /\ cases' >= cases
<1>0. cases \in Nat
  BY EvaluationAssumption DEF TypeOK
<1>1. CASE AddCases
  BY <1>0, <1>1, EvaluationAssumption DEF AddCases
<1>2. CASE ~AddCases
  <2>1. UNCHANGED <<cases, dataset>>
    BY <1>2, NextCases DEF DeleteDataset, CreateRead, Enqueue, CreateRow, ExecuteManually,
       RecoverStalled, PickUp, LoseLock, Begin, ReadCases, WriteResults, Complete, Fail, Crash,
       rows, vars
  <2> QED BY <1>0, <2>1
<1> QED BY <1>1, <1>2

\* The steps that write evaluation_runs.
LEMMA RunChanges ==
    ASSUME [Next]_vars
    PROVE  \/ run' = run
           \/ DeleteDataset
           \/ \E h \in Handlers, k \in Runs : CreateRow(h, k)
           \/ \E c \in Callers : Begin(c) \/ Complete(c) \/ Fail(c)
<1>1. ASSUME \/ AddCases
             \/ \E h \in Handlers : CreateRead(h) \/ Enqueue(h)
             \/ \E h \in Handlers, k \in Runs : ExecuteManually(h, k)
             \/ \E k \in Runs : RecoverStalled(k)
             \/ \E w \in Workers, k \in Runs : PickUp(w, k)
             \/ \E w \in Workers : LoseLock(w)
             \/ \E c \in Callers : ReadCases(c) \/ WriteResults(c) \/ Crash(c)
             \/ UNCHANGED vars
      PROVE  run' = run
  BY <1>1 DEF AddCases, CreateRead, Enqueue, ExecuteManually, RecoverStalled, PickUp, LoseLock,
     ReadCases, WriteResults, Crash, rows, vars
<1> QED BY <1>1, NextCases

\* A run comes to be by createRun.
LEMMA RunMade ==
    ASSUME TypeOK, CallInv, [Next]_vars, NEW i \in Runs,
           run[i].status = "none", run'[i].status # "none"
    PROVE  \E h \in Handlers : CreateRow(h, i)
<1>1. ASSUME NEW h \in Handlers, NEW k \in Runs, CreateRow(h, k)
      PROVE  k = i
  BY <1>1 DEF CreateRow, TypeOK
<1>2. ASSUME DeleteDataset
      PROVE  FALSE
  BY <1>2 DEF DeleteDataset, Exists
<1>3. ASSUME NEW c \in Callers, Begin(c) \/ Complete(c) \/ Fail(c)
      PROVE  FALSE
  <2>1. calls[c].run \in Runs /\ calls[c].run # i
    BY <1>3 DEF Begin, Complete, Fail, At, CallInv
  <2> QED BY <1>3, <2>1 DEF Begin, Complete, Fail, TypeOK
<1> QED BY <1>1, <1>2, <1>3, RunChanges

\* How one call moves.
LEMMA CallMoves ==
    ASSUME TypeOK, [Next]_vars, NEW c \in Callers
    PROVE  \/ calls'[c] = calls[c]
           \/ calls'[c].pc = "idle"
           \/ calls'[c].pc = "create" /\ calls'[c].read = cases /\ UNCHANGED rows
           \/ \E i \in Runs : /\ CreateRow(c, i) \/ ExecuteManually(c, i) \/ PickUp(c, i)
                              /\ calls'[c].pc \in {"enqueue", "begin"} /\ calls'[c].run = i
                              /\ CreateRow(c, i) => run'[i].status = "PENDING"
           \/ /\ Begin(c) \/ Complete(c) \/ Fail(c)
              /\ calls[c].pc \in {"begin"} \cup Marked /\ calls'[c].run = calls[c].run
              /\ calls'[c].pc \in {"cases", "fail"}
           \/ /\ ReadCases(c) \/ WriteResults(c)
              /\ calls[c].pc \in {"cases", "results"} /\ calls'[c].run = calls[c].run
<1> USE DEF Callers
<1>1. CASE \/ AddCases \/ DeleteDataset
           \/ \E k \in Runs : RecoverStalled(k)
           \/ \E w \in Workers : LoseLock(w)
           \/ UNCHANGED vars
  BY <1>1 DEF AddCases, DeleteDataset, RecoverStalled, LoseLock, vars
<1>2. ASSUME NEW h \in Handlers, CreateRead(h) \/ Enqueue(h)
      PROVE  \/ calls'[c] = calls[c]
             \/ calls'[c].pc = "idle"
             \/ calls'[c].pc = "create" /\ calls'[c].read = cases /\ UNCHANGED rows
  <2>1. CASE Enqueue(h)
    BY <2>1 DEF Enqueue, Idle, TypeOK
  <2>2. CASE CreateRead(h)
    <3>1. PICK async \in BOOLEAN :
             calls' = [calls EXCEPT ![h] = [Idle EXCEPT !.pc = "create", !.read = cases,
                                                        !.async = async]]
      BY <2>2 DEF CreateRead
    <3> QED BY <2>2, <3>1 DEF CreateRead, Idle, TypeOK
  <2> QED BY <1>2, <2>1, <2>2
<1>3. ASSUME NEW h \in Handlers, NEW i \in Runs, CreateRow(h, i)
      PROVE  \/ calls'[c] = calls[c]
             \/ calls'[c].pc = "idle"
             \/ /\ c = h /\ calls'[c].pc \in {"enqueue", "begin"} /\ calls'[c].run = i
                /\ run'[i].status = "PENDING"
  <2>1. CASE calls' = [calls EXCEPT ![h] = Idle]
    BY <2>1 DEF Idle, TypeOK
  <2> DEFINE row == [status |-> "PENDING", completed |-> 0, total |-> calls[h].read]
             call == [Idle EXCEPT !.pc = IF calls[h].async THEN "enqueue" ELSE "begin", !.run = i]
  <2>2. CASE run' = [run EXCEPT ![i] = row] /\ calls' = [calls EXCEPT ![h] = call]
    <3>1. call.pc \in {"enqueue", "begin"} /\ call.run = i
      BY DEF Idle
    <3>2. run'[i] = row
      BY <2>2 DEF TypeOK
    <3> QED BY <2>2, <3>1, <3>2 DEF TypeOK
  <2> QED BY <1>3, <2>1, <2>2 DEF CreateRow
<1>4. ASSUME NEW h \in Handlers, NEW i \in Runs, ExecuteManually(h, i)
      PROVE  \/ calls'[c] = calls[c]
             \/ c = h /\ calls'[c].pc = "begin" /\ calls'[c].run = i
  BY <1>4 DEF ExecuteManually, Idle, TypeOK
<1>5. ASSUME NEW w \in Workers, NEW i \in Runs, PickUp(w, i)
      PROVE  \/ calls'[c] = calls[c]
             \/ c = w /\ calls'[c].pc = "begin" /\ calls'[c].run = i
  BY <1>5 DEF PickUp, Idle, TypeOK
<1>6. ASSUME NEW d \in Callers, Crash(d)
      PROVE  calls'[c] = calls[c] \/ calls'[c].pc = "idle"
  BY <1>6 DEF Crash, Idle, TypeOK
<1>7. ASSUME NEW d \in Callers, Begin(d) \/ Complete(d) \/ Fail(d)
      PROVE  \/ calls'[c] = calls[c]
             \/ calls'[c].pc = "idle"
             \/ /\ c = d /\ calls[c].pc \in {"begin"} \cup Marked
                /\ calls'[c].run = calls[c].run /\ calls'[c].pc \in {"cases", "fail"}
  <2>1. calls[d] \in Call
    BY DEF TypeOK
  <2>2. calls[d].pc \in {"begin"} \cup Marked
    BY <1>7 DEF Begin, Complete, Fail, At, Marked
  <2>3. \/ calls' = [calls EXCEPT ![d] = Idle]
        \/ \E step \in {"cases", "fail"} : calls' = [calls EXCEPT ![d].pc = step]
    BY <1>7 DEF Begin, Complete, Fail, Settle, GoTo
  <2>4. CASE calls' = [calls EXCEPT ![d] = Idle]
    BY <2>4 DEF Idle, TypeOK
  <2>5. ASSUME NEW step \in {"cases", "fail"}, calls' = [calls EXCEPT ![d].pc = step]
        PROVE  \/ calls'[c] = calls[c]
               \/ c = d /\ calls'[c].run = calls[c].run /\ calls'[c].pc = step
    BY <2>1, <2>5 DEF TypeOK, Call
  <2> QED BY <2>2, <2>3, <2>4, <2>5
<1>8. ASSUME NEW d \in Callers, ReadCases(d) \/ WriteResults(d)
      PROVE  \/ calls'[c] = calls[c]
             \/ /\ c = d /\ calls[c].pc \in {"cases", "results"}
                /\ calls'[c].run = calls[c].run
  <2>1. calls[d] \in Call
    BY DEF TypeOK
  <2> QED BY <1>8, <2>1 DEF ReadCases, WriteResults, GoTo, At, TypeOK, Call
<1>9. ASSUME NEW h \in Handlers, NEW i \in Runs,
             CreateRow(h, i) \/ ExecuteManually(h, i)
      PROVE  \/ calls'[c] = calls[c]
             \/ calls'[c].pc = "idle"
             \/ /\ c = h /\ calls'[c].pc \in {"enqueue", "begin"} /\ calls'[c].run = i
                /\ CreateRow(h, i) => run'[i].status = "PENDING"
  <2>1. CASE CreateRow(h, i)
    BY <1>3, <2>1
  <2>2. CASE ExecuteManually(h, i) /\ ~CreateRow(h, i)
    BY <1>1, <1>4, <2>2
  <2> QED BY <1>9, <2>1, <2>2
<1>10. ASSUME NEW w \in Workers, NEW i \in Runs, PickUp(w, i), calls'[c] # calls[c]
       PROVE  /\ c = w /\ calls'[c].pc = "begin" /\ calls'[c].run = i
              /\ ~CreateRow(c, i)
  BY <1>5, <1>10 DEF PickUp, CreateRow, At
<1> QED BY <1>1, <1>2, <1>9, <1>10, <1>6, <1>7, <1>8, NextCases
----------------------------------------------------------------------------
\* The parts of the invariant

LEMMA CallStep ==
    ASSUME TypeOK, CallInv, JobInv, RowInv, [Next]_vars
    PROVE  CallInv'
<1> SUFFICES ASSUME NEW c \in Callers, calls'[c].pc \notin {"idle", "create"}
             PROVE  calls'[c].run \in Runs /\ run'[calls'[c].run].status # "none"
  BY DEF CallInv
<1>1. CASE \/ calls'[c] = calls[c]
           \/ /\ calls[c].pc \in {"begin"} \cup Marked
              /\ calls'[c].run = calls[c].run
  <2>1. calls'[c].run = calls[c].run /\ calls[c].pc \notin {"idle", "create"}
    BY <1>1 DEF Marked
  <2> QED BY <2>1, RunKept DEF CallInv
<1>2. ASSUME NEW i \in Runs, calls'[c].run = i, ExecuteManually(c, i) \/ PickUp(c, i)
      PROVE  run'[calls'[c].run].status # "none"
  <2>1. run[i].status # "none"
    BY <1>2 DEF ExecuteManually, PickUp, Exists, JobInv
  <2> QED BY <1>2, <2>1, RunKept
<1> QED BY <1>1, <1>2, CallMoves DEF Marked

LEMMA RowStep ==
    ASSUME TypeOK, CallInv, JobInv, RowInv, ReadInv, [Next]_vars
    PROVE  RowInv'
<1> SUFFICES ASSUME NEW i \in Runs, Exists(i)'
             PROVE  dataset' = "present" /\ run'[i].total <= cases'
  BY DEF RowInv
<1>0. cases \in Nat /\ cases' \in Nat /\ run[i] \in Row /\ run'[i] \in Row
  BY TypeStep, EvaluationAssumption DEF TypeOK
<1>1. CASE run[i].status # "none"
  <2>1. /\ Exists(i) /\ run'[i].total = run[i].total
        /\ cases' >= cases /\ dataset' = dataset
    BY <1>1, RunKept
  <2>2. dataset = "present" /\ run[i].total <= cases
    BY <2>1 DEF RowInv
  <2>3. run[i].total \in Nat
    BY <1>0, EvaluationAssumption DEF Row
  <2> QED BY <1>0, <2>1, <2>2, <2>3
<1>2. CASE run[i].status = "none"
  <2>1. PICK h \in Handlers : CreateRow(h, i)
    BY <1>2, RunMade DEF Exists
  <2>2. /\ dataset = "present" /\ UNCHANGED <<dataset, cases>>
        /\ run'[i].total = calls[h].read
    BY <1>2, <2>1 DEF CreateRow, Exists, TypeOK
  <2>3. calls[h].read <= cases
    BY <2>1, <2>2 DEF CreateRow, ReadInv, Callers
  <2> QED BY <2>2, <2>3
<1> QED BY <1>1, <1>2

LEMMA JobStep ==
    ASSUME TypeOK, CallInv, JobInv, RowInv, [Next]_vars
    PROVE  JobInv'
<1> USE EvaluationAssumption
<1> SUFFICES ASSUME NEW i \in Runs
             PROVE  /\ job'[i].state \in {"waiting", "active"} => job'[i].made < Attempts
                    /\ job'[i].lock # NoWorker => job'[i].state = "active"
                    /\ job'[i].state # "none" => run'[i].status # "none"
  BY DEF JobInv
<1>0. /\ job[i] \in Job
      /\ job[i].state \in {"waiting", "active"} => job[i].made < Attempts
      /\ job[i].lock # NoWorker => job[i].state = "active"
      /\ job[i].state # "none" => run[i].status # "none"
  BY DEF JobInv, TypeOK
<1>1. CASE job'[i] = job[i]
  BY <1>0, <1>1, RunKept
<1> DEFINE Kept == /\ job'[i].made < Attempts \/ job'[i].state \notin {"waiting", "active"}
                   /\ job'[i].lock # NoWorker => job'[i].state = "active"
<1>2. ASSUME NEW h \in Handlers, Enqueue(h), job'[i] # job[i]
      PROVE  Kept /\ run[i].status # "none"
  <2>1. calls[h].run \in Runs /\ run[calls[h].run].status # "none"
    BY <1>2 DEF Enqueue, At, CallInv, Callers
  <2>2. calls[h].run = i /\ job'[i] = [NoJob EXCEPT !.state = "waiting"]
    BY <1>2, <2>1 DEF Enqueue, TypeOK
  <2> QED BY <2>1, <2>2 DEF NoJob
<1>3. ASSUME NEW w \in Workers, NEW k \in Runs, PickUp(w, k), job'[i] # job[i]
      PROVE  Kept /\ run[i].status # "none"
  <2>1. k = i /\ job'[i] = [job[i] EXCEPT !.state = "active", !.lock = w]
    BY <1>3 DEF PickUp, TypeOK
  <2>2. job[i].state = "waiting"
    BY <1>3, <2>1 DEF PickUp
  <2> QED BY <1>0, <2>1, <2>2 DEF Job
<1>4. ASSUME NEW k \in Runs, RecoverStalled(k), job'[i] # job[i]
      PROVE  Kept /\ run[i].status # "none"
  <2>1. /\ k = i /\ job[i].state = "active" /\ job[i].lock = NoWorker
        /\ \/ job'[i] = [job[i] EXCEPT !.state = "waiting", !.stalls = @ + 1]
           \/ job'[i] = [job[i] EXCEPT !.state = "failed"]
    BY <1>4 DEF RecoverStalled, TypeOK
  <2> QED BY <1>0, <2>1 DEF Job
<1>5. ASSUME NEW c \in Callers, LoseLock(c) \/ Crash(c), job'[i] # job[i]
      PROVE  Kept /\ run[i].status # "none"
  <2>1. HoldsLock(c) /\ calls[c].run = i /\ job'[i] = [job[i] EXCEPT !.lock = NoWorker]
    BY <1>5 DEF LoseLock, Crash, HoldsLock, TypeOK
  <2>2. job[i].state = "active"
    BY <2>1, LockIsActive
  <2> QED BY <1>0, <2>1, <2>2 DEF Job
<1>6. ASSUME NEW c \in Callers, Begin(c) \/ Complete(c) \/ Fail(c), job'[i] # job[i]
      PROVE  Kept /\ run[i].status # "none"
  <2>1. PICK ok \in BOOLEAN : Settle(c, ok)
    BY <1>6 DEF Begin, Complete, Fail
  <2> DEFINE made == job[i].made + 1
  <2>2. HoldsLock(c) /\ calls[c].run = i
    BY <1>6, <2>1 DEF Settle, HoldsLock, TypeOK
  <2>3. \/ job'[i] = [job[i] EXCEPT !.state = "completed", !.lock = NoWorker]
        \/ job'[i] = [job[i] EXCEPT !.state = IF made < Attempts THEN "waiting" ELSE "failed",
                                    !.made = made, !.lock = NoWorker]
    BY <2>1, <2>2 DEF Settle, TypeOK
  <2>4. run[i].status # "none"
    BY <1>0, <2>2, LockIsActive
  <2> QED BY <1>0, <2>3, <2>4 DEF Job
<1>7. ASSUME \/ AddCases \/ DeleteDataset
             \/ \E h \in Handlers : CreateRead(h)
             \/ \E h \in Handlers, k \in Runs : CreateRow(h, k) \/ ExecuteManually(h, k)
             \/ \E c \in Callers : ReadCases(c) \/ WriteResults(c)
             \/ UNCHANGED vars
      PROVE  job' = job
  BY <1>7 DEF AddCases, DeleteDataset, CreateRead, CreateRow, ExecuteManually, ReadCases,
     WriteResults, vars
<1>8. CASE job'[i] # job[i]
  <2>1. Kept /\ run[i].status # "none"
    BY <1>2, <1>3, <1>4, <1>5, <1>6, <1>7, <1>8, NextCases DEF Callers
  <2> QED BY <2>1, RunKept
<1> QED BY <1>1, <1>8

LEMMA ReadStep ==
    ASSUME TypeOK, CallInv, JobInv, RowInv, ReadInv, [Next]_vars
    PROVE  ReadInv'
<1> USE EvaluationAssumption
<1> SUFFICES ASSUME NEW c \in Callers
             PROVE  /\ At(c, "create")' /\ dataset' # "gone" => calls'[c].read <= cases'
                    /\ calls'[c].pc \in {"results", "complete"} /\ Survives(c)' =>
                          run'[calls'[c].run].total <= calls'[c].read
                    /\ At(c, "complete")' /\ Survives(c)' => calls'[c].read <= results'[calls'[c].run]
  BY DEF ReadInv
<1> USE DEF At
<1>0. calls[c] \in Call /\ calls'[c] \in Call /\ cases \in Nat /\ cases' \in Nat
  BY TypeStep DEF TypeOK
<1>1. CASE calls'[c] = calls[c]
  <2>1. dataset' # "gone" => dataset # "gone" /\ cases' >= cases
    BY <1>0, DatasetKept
  <2>2. CASE calls[c].pc = "create"
    <3>1. calls[c].read \in Nat
      BY <1>0 DEF Call
    <3> QED BY <1>0, <1>1, <2>1, <2>2, <3>1 DEF ReadInv
  <2>3. CASE calls[c].pc \in {"results", "complete"} /\ Survives(c)'
    <3> DEFINE i == calls[c].run
    <3>1. i \in Runs /\ run[i].status # "none"
      BY <2>3 DEF CallInv
    <3>2. Exists(i) /\ run'[i].total = run[i].total /\ results'[i] >= results[i]
      BY <1>1, <2>3, <3>1, RunKept DEF Survives, Exists
    <3>3. results[i] \in Nat /\ results'[i] \in Nat /\ calls[c].read \in Nat
      BY <1>0, <3>1, TypeStep DEF TypeOK, Call
    <3> QED BY <1>1, <2>3, <3>2, <3>3 DEF ReadInv, Survives
  <2> QED BY <1>1, <2>2, <2>3
<1>2. CASE calls'[c].pc = "create" /\ calls'[c].read = cases /\ UNCHANGED rows
  BY <1>0, <1>2 DEF rows
<1>3. CASE ReadCases(c)
  <2>1. CASE calls' = [calls EXCEPT ![c].pc = "results", ![c].read = cases]
    <3>1. calls'[c].pc = "results" /\ calls'[c].read = cases /\ calls'[c].run = calls[c].run
      BY <1>0, <2>1 DEF TypeOK, Call
    <3>2. calls[c].run \in Runs /\ run' = run
      BY <1>3 DEF ReadCases, CallInv, rows
    <3> QED BY <3>1, <3>2 DEF RowInv, Survives, Exists
  <2>2. CASE GoTo(c, "fail")
    BY <1>0, <2>2 DEF GoTo, TypeOK, Call
  <2> QED BY <1>3, <2>1, <2>2 DEF ReadCases
<1>4. CASE WriteResults(c)
  <2> DEFINE i == calls[c].run
             n == calls[c].read
  <2>1. CASE GoTo(c, "complete") /\ results' = [results EXCEPT ![i] = Max({@, n})]
    <3>1. i \in Runs /\ run' = run /\ calls[c].pc = "results"
      BY <1>4 DEF WriteResults, CallInv
    <3>2. calls'[c].pc = "complete" /\ calls'[c].read = n /\ calls'[c].run = i
      BY <1>0, <2>1 DEF GoTo, TypeOK, Call
    <3>3. Max({results[i], n}) >= n
      BY <1>0, <3>1, MaxOfTwo DEF TypeOK, Call
    <3>4. results'[i] >= n
      BY <2>1, <3>1, <3>3 DEF TypeOK
    <3>5. n \in Nat /\ results'[i] \in Nat
      BY <1>0, <3>1, TypeStep DEF TypeOK, Call
    <3> QED BY <3>1, <3>2, <3>4, <3>5 DEF ReadInv, Survives, Exists
  <2>2. CASE GoTo(c, "fail")
    BY <1>0, <2>2 DEF GoTo, TypeOK, Call
  <2> QED BY <1>4, <2>1, <2>2 DEF WriteResults
<1>5. CASE calls'[c].pc \in {"idle", "enqueue", "begin", "cases", "fail"}
  BY <1>5
<1> QED BY <1>1, <1>2, <1>3, <1>4, <1>5, CallMoves

LEMMA CompleteStep ==
    ASSUME TypeOK, CallInv, JobInv, RowInv, ReadInv, CompletedIsComplete, [Next]_vars
    PROVE  CompletedIsComplete'
<1> USE EvaluationAssumption
<1> SUFFICES ASSUME NEW i \in Runs, run'[i].status = "COMPLETED"
             PROVE  /\ run'[i].total <= run'[i].completed
                    /\ run'[i].completed <= results'[i]
  BY DEF CompletedIsComplete
<1>1. run[i].status # "none"
  <2>1. ASSUME NEW h \in Handlers, CreateRow(h, i), run[i].status = "none"
        PROVE  run'[i].status \in {"none", "PENDING"}
    BY <2>1 DEF CreateRow, TypeOK
  <2> QED BY <2>1, RunMade
<1>2. Exists(i) /\ results'[i] >= results[i]
  BY <1>1, RunKept DEF Exists
<1>3. CASE run'[i] = run[i]
  <2>1. run[i].total <= run[i].completed /\ run[i].completed <= results[i]
    BY <1>3 DEF CompletedIsComplete
  <2>2. run[i].completed \in Nat /\ results[i] \in Nat /\ results'[i] \in Nat
    BY TypeStep DEF TypeOK, Row
  <2> QED BY <1>2, <1>3, <2>1, <2>2
<1>4. CASE \E c \in Callers : Complete(c) /\ calls[c].run = i
  <2>1. PICK c \in Callers : Complete(c) /\ calls[c].run = i
    BY <1>4
  <2>2. CASE run' = [run EXCEPT ![i].status = "COMPLETED", ![i].completed = calls[c].read]
    <3>1. run[i].total <= calls[c].read /\ calls[c].read <= results[i] /\ results' = results
      BY <1>2, <2>1 DEF Complete, ReadInv, At, Survives
    <3>2. run'[i].total = run[i].total /\ run'[i].completed = calls[c].read
      BY <2>2 DEF TypeOK, Row
    <3> QED BY <3>1, <3>2
  <2>3. CASE run' = run
    BY <1>3, <2>3
  <2> QED BY <2>1, <2>2, <2>3 DEF Complete
<1>5. run'[i] = run[i] \/ \E c \in Callers : Complete(c) /\ calls[c].run = i
  <2>1. ASSUME NEW c \in Callers, Begin(c) \/ Fail(c)
        PROVE  run'[i] = run[i]
    <3>1. calls[c].run \in Runs
      BY <2>1 DEF Begin, Fail, At, CallInv
    <3>2. ASSUME NEW s \in {"RUNNING", "FAILED"}, run' = [run EXCEPT ![calls[c].run].status = s]
          PROVE  calls[c].run # i
      BY <3>1, <3>2 DEF TypeOK, Row
    <3> QED BY <2>1, <3>1, <3>2 DEF Begin, Fail, TypeOK
  <2>2. ASSUME NEW c \in Callers, Complete(c), calls[c].run # i
        PROVE  run'[i] = run[i]
    <3>1. calls[c].run \in Runs
      BY <2>2 DEF Complete, At, CallInv
    <3> QED BY <2>2, <3>1 DEF Complete, TypeOK
  <2>3. ASSUME NEW h \in Handlers, NEW k \in Runs, CreateRow(h, k)
        PROVE  run'[i] = run[i]
    BY <1>1, <2>3 DEF CreateRow, TypeOK
  <2>4. ~DeleteDataset
    BY <1>2 DEF DeleteDataset, NoRow
  <2> QED BY <2>1, <2>2, <2>3, <2>4, RunChanges
<1> QED BY <1>3, <1>4, <1>5

LEMMA VerdictStep ==
    ASSUME TypeOK, CallInv, JobInv, RowInv, VerdictInv, [Next]_vars
    PROVE  VerdictInv'
<1> USE EvaluationAssumption
<1> SUFFICES ASSUME NEW i \in Runs, job'[i].state = "completed", i \notin abandoned', ~Final(i)'
             PROVE  \E c \in Callers : calls'[c].pc \in Marked /\ calls'[c].run = i
  BY DEF VerdictInv
<1>0. job[i] \in Job /\ run[i] \in Row
  BY DEF TypeOK
\* An execution of the run that ends records a verdict or abandons it.
<1>1. ASSUME NEW c \in Callers, calls[c].run = i, Complete(c) \/ Fail(c)
      PROVE  \/ GoTo(c, "fail") /\ UNCHANGED <<job, run, abandoned>>
             \/ Fail(c) /\ Settle(c, FALSE) /\ Abandon(c) /\ UNCHANGED run
  <2>1. ASSUME NEW n, \/ run' = [run EXCEPT ![i].status = "COMPLETED", ![i].completed = n]
                      \/ run' = [run EXCEPT ![i].status = "FAILED"]
        PROVE  FALSE
    BY <1>0, <2>1 DEF TypeOK, Row, Final
  <2> QED BY <1>1, <2>1 DEF Complete, Fail
<1>2. job[i].state = "completed"
  <2>1. ASSUME NEW c \in Callers, Begin(c) \/ Complete(c) \/ Fail(c), job'[i] # job[i]
        PROVE  job'[i].state # "completed"
    <3>1. PICK ok \in BOOLEAN : Settle(c, ok)
      BY <2>1 DEF Begin, Complete, Fail
    <3>2. HoldsLock(c) /\ calls[c].run = i
      BY <2>1, <3>1 DEF Settle, HoldsLock, TypeOK
    <3>3. Settle(c, FALSE)
      BY <1>1, <2>1, <3>2 DEF Begin
    <3> QED BY <1>0, <3>2, <3>3 DEF Settle, TypeOK, Job
  <2>2. ASSUME NEW h \in Handlers, Enqueue(h), job'[i] # job[i]
        PROVE  job'[i].state # "completed"
    BY <2>2 DEF Enqueue, NoJob, TypeOK
  <2>3. ASSUME NEW w \in Workers, NEW k \in Runs, PickUp(w, k), job'[i] # job[i]
        PROVE  job'[i].state # "completed"
    BY <1>0, <2>3 DEF PickUp, TypeOK, Job
  <2>4. ASSUME NEW k \in Runs, RecoverStalled(k), job'[i] # job[i]
        PROVE  job'[i].state # "completed"
    BY <1>0, <2>4 DEF RecoverStalled, TypeOK, Job
  <2>5. ASSUME NEW c \in Callers, LoseLock(c) \/ Crash(c)
        PROVE  job'[i].state = job[i].state
    <3>1. ASSUME NEW k \in Runs, job' = [job EXCEPT ![k].lock = NoWorker]
          PROVE  job'[i].state = job[i].state
      BY <1>0, <3>1 DEF TypeOK, Job
    <3>2. CASE job' = job
      BY <3>2
    <3> QED BY <2>5, <3>1, <3>2 DEF LoseLock, Crash, HoldsLock
  <2>6. ASSUME \/ AddCases \/ DeleteDataset
               \/ \E h \in Handlers : CreateRead(h)
               \/ \E h \in Handlers, k \in Runs : CreateRow(h, k) \/ ExecuteManually(h, k)
               \/ \E c \in Callers : ReadCases(c) \/ WriteResults(c)
               \/ UNCHANGED vars
        PROVE  job' = job
    BY <2>6 DEF AddCases, DeleteDataset, CreateRead, CreateRow, ExecuteManually, ReadCases,
       WriteResults, vars
  <2> QED BY <2>1, <2>2, <2>3, <2>4, <2>5, <2>6, NextCases DEF Callers
<1>3. ASSUME NEW c \in Callers, Begin(c), calls[c].run = i, abandoned' # abandoned \/ run' # run
      PROVE  calls'[c].pc \in Marked /\ calls'[c].run = i
  <2>1. calls' = [calls EXCEPT ![c].pc = "cases"]
    BY <1>3 DEF Begin, GoTo
  <2>2. calls[c] \in Call
    BY DEF TypeOK
  <2> QED BY <1>3, <2>1, <2>2 DEF Marked, TypeOK, Call
<1>4. CASE i \in abandoned
  <2>1. PICK c \in Callers : Begin(c) /\ abandoned' = abandoned \ {calls[c].run}
    <3>1. ASSUME NEW c \in Callers, Complete(c) \/ Fail(c)
          PROVE  i \in abandoned'
      BY <1>1, <1>4, <3>1 DEF Complete, Fail, Abandon
    <3>2. ASSUME NEW c \in Callers, Crash(c)
          PROVE  i \in abandoned'
      BY <1>4, <3>2 DEF Crash, Abandon
    <3> QED BY <1>4, <3>1, <3>2, NextCases DEF AddCases, DeleteDataset, CreateRead, Enqueue,
            CreateRow, ExecuteManually, RecoverStalled, PickUp, LoseLock, Begin, ReadCases,
            WriteResults, vars
  <2> QED BY <1>3, <1>4, <2>1
<1>5. CASE Final(i)
  <2>1. run[i].status # "none" /\ run'[i] # run[i]
    BY <1>5 DEF Final
  <2>2. ASSUME NEW c \in Callers, Begin(c) \/ Complete(c) \/ Fail(c)
        PROVE  Begin(c) /\ calls[c].run = i
    <3>1. calls[c].run \in Runs
      BY <2>2 DEF Begin, Complete, Fail, At, CallInv
    <3>2. calls[c].run = i
      BY <2>1, <2>2, <3>1 DEF Begin, Complete, Fail, TypeOK
    <3> QED BY <1>1, <2>1, <2>2, <3>2
  <2>3. ~DeleteDataset
    BY <1>5 DEF DeleteDataset, NoRow, Final, Exists
  <2>4. ~\E h \in Handlers, k \in Runs : CreateRow(h, k)
    BY <2>1 DEF CreateRow, TypeOK
  <2>5. PICK c \in Callers : Begin(c) /\ calls[c].run = i
    BY <2>1, <2>2, <2>3, <2>4, RunChanges
  <2> QED BY <1>3, <2>1, <2>5
<1>6. CASE i \notin abandoned /\ ~Final(i)
  <2>1. PICK c \in Callers : calls[c].pc \in Marked /\ calls[c].run = i
    BY <1>2, <1>6 DEF VerdictInv
  <2>2. ~HoldsLock(c)
    BY <1>2, <2>1, LockIsActive
  <2>3. ~Crash(c)
    BY <2>1, <2>2 DEF Crash, Abandon, Abandons, Marked
  <2>4. ~(Fail(c) /\ Abandon(c))
    BY <2>1, <2>2 DEF Fail, Abandon, Abandons, At
  <2>5. CASE GoTo(c, "fail") \/ ReadCases(c) \/ WriteResults(c)
    BY <2>1, <2>5 DEF ReadCases, WriteResults, GoTo, Marked, TypeOK, Call
  <2>6. CASE Complete(c) \/ Fail(c)
    BY <1>1, <2>1, <2>4, <2>5, <2>6
  <2>7. CASE calls'[c] = calls[c]
    BY <2>1, <2>7
  <2>8. calls'[c] = calls[c] \/ ReadCases(c) \/ WriteResults(c) \/ Complete(c) \/ Fail(c)
    <3>1. ASSUME NEW d \in Callers, d # c,
                 \/ Crash(d) \/ Begin(d) \/ ReadCases(d) \/ WriteResults(d)
                 \/ Complete(d) \/ Fail(d)
          PROVE  calls'[c] = calls[c]
      BY <3>1 DEF Crash, Begin, ReadCases, WriteResults, Complete, Fail, Settle, GoTo, TypeOK
    <3>2. ASSUME NEW h \in Handlers, CreateRead(h) \/ Enqueue(h)
          PROVE  calls'[c] = calls[c]
      BY <2>1, <3>2 DEF CreateRead, Enqueue, At, Marked, TypeOK
    <3>3. ASSUME NEW h \in Handlers, NEW k \in Runs, CreateRow(h, k) \/ ExecuteManually(h, k)
          PROVE  calls'[c] = calls[c]
      BY <2>1, <3>3 DEF CreateRow, ExecuteManually, At, Marked, TypeOK
    <3>4. ASSUME NEW w \in Workers, NEW k \in Runs, PickUp(w, k)
          PROVE  calls'[c] = calls[c]
      BY <2>1, <3>4 DEF PickUp, At, Marked, TypeOK
    <3>5. ~Begin(c)
      BY <2>1 DEF Begin, At, Marked
    <3>6. ASSUME \/ AddCases \/ DeleteDataset \/ UNCHANGED vars
                 \/ \E k \in Runs : RecoverStalled(k)
                 \/ \E w \in Workers : LoseLock(w)
          PROVE  calls' = calls
      BY <3>6 DEF AddCases, DeleteDataset, RecoverStalled, LoseLock, vars
    <3> QED BY <2>3, <3>1, <3>2, <3>3, <3>4, <3>5, <3>6, NextCases
  <2> QED BY <2>5, <2>6, <2>7, <2>8
<1> QED BY <1>4, <1>5, <1>6
----------------------------------------------------------------------------
\* Theorems

LEMMA Inductive == Spec => []IInv
<1>1. Init => IInv
  <2>1. Init => TypeOK
    BY TypeInit
  <2>2. ASSUME Init
        PROVE  CallInv /\ JobInv /\ RowInv /\ ReadInv /\ CompletedIsComplete /\ VerdictInv
    BY <2>2 DEF Init, Idle, NoRow, NoJob, CallInv, JobInv, RowInv, ReadInv, CompletedIsComplete,
       VerdictInv, Exists, At
  <2> QED BY <2>1, <2>2 DEF IInv
<1>2. IInv /\ [Next]_vars => IInv'
  BY TypeStep, CallStep, JobStep, RowStep, ReadStep, CompleteStep, VerdictStep DEF IInv
<1> QED BY <1>1, <1>2, PTL DEF Spec

\* Every variable keeps its type, for any number of runs, requests and workers.
THEOREM TypeCorrect == Spec => []TypeOK
<1>1. IInv => TypeOK
  BY DEF IInv
<1> QED BY <1>1, Inductive, PTL

\* What executeRun calls COMPLETED has a result for each case it counts and
\* counts no fewer than createRun did, for executions that overlap as they may.
THEOREM CompletedIsCompleteHolds == Spec => []CompletedIsComplete
<1>1. IInv => CompletedIsComplete
  BY DEF IInv
<1> QED BY <1>1, Inductive, PTL

\* A job the queue calls completed leaves its run with a verdict, unless one
\* execution of it is under way or was lost.
THEOREM VerdictRecordedHolds == Spec => []VerdictRecorded
<1>1. IInv => VerdictRecorded
  BY DEF IInv, VerdictInv, VerdictRecorded, Executing, Marked, At
<1> QED BY <1>1, Inductive, PTL
----------------------------------------------------------------------------
\* One delivery, one execution

\* A call that is about to enqueue run i or to execute it.
On(c, i) == calls[c].pc \notin {"idle", "create"} /\ calls[c].run = i

Undisturbed(i) == manual = 0 /\ job[i].stalls = 0 /\ job[i].made = 0

\* What is about to be enqueued has no job yet, a job that is not there has no
\* past, and a run that was not made has no results.
FreshInv ==
    /\ \A c \in Callers : At(c, "enqueue") => job[calls[c].run].state = "none"
    /\ \A c, d \in Callers : At(c, "enqueue") /\ At(d, "enqueue") /\ calls[c].run = calls[d].run
                              => c = d
    /\ \A i \in Runs : job[i].state = "none" => job[i].made = 0 /\ job[i].stalls = 0
    /\ \A i \in Runs : run[i].status = "none" => results[i] = 0 /\ repeated[i] = 0

\* As long as nothing repeats a run, one call at a time has it in hand, or the
\* queue has; and once it has results nobody is going to answer its cases.
Delivered(i) ==
    /\ repeated[i] = 0
    /\ \A c, d \in Callers : On(c, i) /\ On(d, i) => c = d
    /\ job[i].state = "waiting" => \A c \in Callers : ~On(c, i)
    /\ results[i] # 0 =>
          /\ job[i].state # "waiting"
          /\ \A c \in Callers : On(c, i) => calls[c].pc \in {"complete", "fail"}

DeliveryInv == \A i \in Runs : Undisturbed(i) => Delivered(i)

\* A job changes by the end of an execution that holds its lock.
LEMMA SettleChanges ==
    ASSUME TypeOK, JobInv, NEW c \in Callers, NEW ok \in BOOLEAN, Settle(c, ok), NEW i \in Runs
    PROVE  /\ calls' = [calls EXCEPT ![c] = Idle]
           /\ \/ job'[i] = job[i]
              \/ ok /\ job[i].state = "active" /\ job'[i].state = "completed"
                 /\ job'[i].made = job[i].made /\ job'[i].stalls = job[i].stalls
              \/ ~ok /\ job[i].state = "active" /\ job'[i].state # "none" /\ job'[i].made # 0
<1>1. calls' = [calls EXCEPT ![c] = Idle]
  BY DEF Settle
<1>2. CASE HoldsLock(c) /\ calls[c].run = i
  <2>1. job[i].state = "active" /\ job[i] \in Job /\ job[i].made \in Nat
    BY <1>2, LockIsActive, EvaluationAssumption DEF TypeOK, Job
  <2>2. CASE ok
    <3>1. job'[i] = [job[i] EXCEPT !.state = "completed", !.lock = NoWorker]
      BY <1>2, <2>2 DEF Settle, TypeOK
    <3> QED BY <1>1, <2>1, <2>2, <3>1 DEF Job
  <2>3. CASE ~ok
    <3>1. job'[i] = [job[i] EXCEPT
             !.state = IF job[i].made + 1 < Attempts THEN "waiting" ELSE "failed",
             !.made = job[i].made + 1, !.lock = NoWorker]
      BY <1>2, <2>3 DEF Settle, TypeOK
    <3>2. job'[i].made = job[i].made + 1 /\ job'[i].state \in {"waiting", "failed"}
      BY <2>1, <3>1 DEF Job
    <3> QED BY <1>1, <2>1, <2>3, <3>2
  <2> QED BY <2>2, <2>3
<1>3. CASE ~(HoldsLock(c) /\ calls[c].run = i)
  <2>1. job'[i] = job[i]
    BY <1>3 DEF Settle, TypeOK
  <2> QED BY <1>1, <2>1
<1> QED BY <1>2, <1>3

\* An execution goes on in place or ends; a job it ends was active.
LEMMA ExecutionChanges ==
    ASSUME TypeOK, JobInv, NEW c \in Callers,
           Begin(c) \/ ReadCases(c) \/ WriteResults(c) \/ Complete(c) \/ Fail(c) \/ Crash(c)
    PROVE  /\ manual' = manual
           /\ \A d \in Callers : d # c => calls'[d] = calls[d]
           /\ calls'[c].pc \notin {"idle", "create", "enqueue"} =>
                 calls'[c].run = calls[c].run /\ ~At(c, "idle") /\ ~At(c, "create")
           /\ calls'[c].pc \notin {"create", "enqueue"}
           /\ calls[c].pc \in {"complete", "fail"} => calls'[c].pc \in {"complete", "fail", "idle"}
           /\ \A i \in Runs :
                 \/ job'[i].state = job[i].state /\ job'[i].made = job[i].made
                    /\ job'[i].stalls = job[i].stalls
                 \/ job[i].state = "active" /\ job'[i].state = "completed"
                    /\ job'[i].made = job[i].made /\ job'[i].stalls = job[i].stalls
                 \/ job[i].state = "active" /\ job'[i].state # "none" /\ job'[i].made # 0
<1> DEFINE Goes(step) == calls' = [calls EXCEPT ![c].pc = step]
                         \/ \E n : calls' = [calls EXCEPT ![c].pc = step, ![c].read = n]
           JobGoes == \A i \in Runs :
                 \/ job'[i].state = job[i].state /\ job'[i].made = job[i].made
                    /\ job'[i].stalls = job[i].stalls
                 \/ job[i].state = "active" /\ job'[i].state = "completed"
                    /\ job'[i].made = job[i].made /\ job'[i].stalls = job[i].stalls
                 \/ job[i].state = "active" /\ job'[i].state # "none" /\ job'[i].made # 0
           CallGoes == /\ \A d \in Callers : d # c => calls'[d] = calls[d]
                       /\ calls'[c].pc \notin {"idle", "create", "enqueue"} =>
                             calls'[c].run = calls[c].run /\ ~At(c, "idle") /\ ~At(c, "create")
                       /\ calls'[c].pc \notin {"create", "enqueue"}
                       /\ calls[c].pc \in {"complete", "fail"} =>
                             calls'[c].pc \in {"complete", "fail", "idle"}
<1>1. manual' = manual
  BY DEF Begin, ReadCases, WriteResults, Complete, Fail, Crash
<1>2. ASSUME NEW step \in Marked, Goes(step), ~At(c, "idle"), ~At(c, "create"),
             step # "fail" => calls[c].pc \notin {"complete", "fail"}
      PROVE  CallGoes
  <2>1. calls'[c].pc = step /\ calls'[c].run = calls[c].run
    BY <1>2 DEF TypeOK, Call
  <2>2. \A d \in Callers : d # c => calls'[d] = calls[d]
    BY <1>2 DEF TypeOK
  <2> QED BY <1>2, <2>1, <2>2 DEF Marked
<1>3. ASSUME calls' = [calls EXCEPT ![c] = Idle]
      PROVE  CallGoes
  <2>1. calls'[c].pc = "idle" /\ \A d \in Callers : d # c => calls'[d] = calls[d]
    BY <1>3 DEF TypeOK, Idle
  <2> QED BY <2>1
<1>4. ASSUME NEW ok \in BOOLEAN, Settle(c, ok)
      PROVE  CallGoes /\ JobGoes
  <2>1. JobGoes
    <3> SUFFICES ASSUME NEW i \in Runs
                 PROVE  \/ job'[i].state = job[i].state /\ job'[i].made = job[i].made
                           /\ job'[i].stalls = job[i].stalls
                        \/ job[i].state = "active" /\ job'[i].state = "completed"
                           /\ job'[i].made = job[i].made /\ job'[i].stalls = job[i].stalls
                        \/ job[i].state = "active" /\ job'[i].state # "none" /\ job'[i].made # 0
      OBVIOUS
    <3> QED BY <1>4, SettleChanges
  <2> QED BY <1>3, <1>4, <2>1 DEF Settle
<1>5. CASE Begin(c)
  <2>1. CASE GoTo(c, "cases") /\ UNCHANGED job
    BY <1>2, <1>5, <2>1 DEF Begin, GoTo, At, Marked
  <2>2. CASE Settle(c, FALSE)
    BY <1>1, <1>4, <2>2
  <2>3. (GoTo(c, "cases") /\ UNCHANGED job) \/ Settle(c, FALSE)
    BY <1>5 DEF Begin
  <2> QED BY <1>1, <2>1, <2>2, <2>3
<1>6. CASE ReadCases(c)
  <2>1. Goes("results") \/ Goes("fail")
    BY <1>6 DEF ReadCases, GoTo
  <2>2. At(c, "cases") /\ UNCHANGED job
    BY <1>6 DEF ReadCases
  <2>3. CallGoes
    BY <1>2, <2>1, <2>2 DEF At, Marked
  <2> QED BY <1>1, <2>2, <2>3
<1>7. CASE WriteResults(c)
  <2>1. Goes("complete") \/ Goes("fail")
    BY <1>7 DEF WriteResults, GoTo
  <2>2. At(c, "results") /\ UNCHANGED job
    BY <1>7 DEF WriteResults
  <2>3. CallGoes
    BY <1>2, <2>1, <2>2 DEF At, Marked
  <2> QED BY <1>1, <2>2, <2>3
<1>8. CASE Complete(c)
  <2>1. CASE GoTo(c, "fail") /\ UNCHANGED job
    BY <1>2, <1>8, <2>1 DEF Complete, GoTo, At, Marked
  <2>2. CASE Settle(c, TRUE)
    BY <1>1, <1>4, <2>2
  <2>3. (GoTo(c, "fail") /\ UNCHANGED job) \/ Settle(c, TRUE)
    BY <1>8 DEF Complete
  <2> QED BY <1>1, <2>1, <2>2, <2>3
<1>9. CASE Fail(c)
  <2>1. Settle(c, TRUE) \/ Settle(c, FALSE)
    BY <1>9 DEF Fail
  <2> QED BY <1>1, <1>4, <2>1
<1>10. CASE Crash(c)
  <2>1. CallGoes
    BY <1>3, <1>10 DEF Crash
  <2>2. \A i \in Runs : job'[i] = job[i] \/ job'[i] = [job[i] EXCEPT !.lock = NoWorker]
    BY <1>10 DEF Crash, TypeOK
  <2>3. \A i \in Runs : /\ job'[i].state = job[i].state /\ job'[i].made = job[i].made
                         /\ job'[i].stalls = job[i].stalls
    <3> SUFFICES ASSUME NEW i \in Runs
                 PROVE  /\ job'[i].state = job[i].state /\ job'[i].made = job[i].made
                        /\ job'[i].stalls = job[i].stalls
      OBVIOUS
    <3>1. job[i] \in Job
      BY DEF TypeOK
    <3> QED BY <2>2, <3>1 DEF Job
  <2> QED BY <1>1, <2>1, <2>3
<1> QED BY <1>5, <1>6, <1>7, <1>8, <1>9, <1>10

\* Who is about to enqueue after a step was so before, or has just made its run.
LEMMA EnqueuersStay ==
    ASSUME TypeOK, CallInv, JobInv, [Next]_vars, NEW c \in Callers, At(c, "enqueue")'
    PROVE  \/ /\ calls'[c] = calls[c]
              /\ ~Enqueue(c)
           \/ \E i \in Runs : /\ run[i].status = "none" /\ calls'[c].run = i /\ job' = job
                              /\ \A d \in Callers : d # c => calls'[d] = calls[d]
<1>1. CASE \E h \in Handlers, i \in Runs : CreateRow(h, i)
  <2>1. PICK h \in Handlers, i \in Runs : CreateRow(h, i)
    BY <1>1
  <2>2. CASE c = h
    <3>1. calls' = [calls EXCEPT ![h] = Idle]
          \/ calls' = [calls EXCEPT ![h] =
                [Idle EXCEPT !.pc = IF calls[h].async THEN "enqueue" ELSE "begin", !.run = i]]
      BY <2>1 DEF CreateRow
    <3>2. calls'[c].run = i
      <4>1. CASE calls' = [calls EXCEPT ![h] = Idle]
        <5>1. calls'[c].pc = "idle"
          BY <2>2, <4>1 DEF TypeOK, Idle
        <5> QED BY <5>1 DEF At
      <4>2. CASE calls' = [calls EXCEPT ![h] =
                [Idle EXCEPT !.pc = IF calls[h].async THEN "enqueue" ELSE "begin", !.run = i]]
        <5>1. calls'[c] = [Idle EXCEPT !.pc = IF calls[h].async THEN "enqueue" ELSE "begin",
                                       !.run = i]
          BY <2>2, <4>2 DEF TypeOK
        <5> QED BY <5>1 DEF Idle
      <4> QED BY <3>1, <4>1, <4>2
    <3> QED BY <2>1, <2>2, <3>1, <3>2 DEF CreateRow, TypeOK
  <2>3. CASE c # h
    <3>1. calls'[c] = calls[c]
      BY <2>1, <2>3 DEF CreateRow, TypeOK
    <3>2. ~Enqueue(c)
      BY <2>1, <2>3 DEF CreateRow, Enqueue, TypeOK, At, Idle
    <3> QED BY <3>1, <3>2
  <2> QED BY <2>2, <2>3
<1>2. CASE \E h \in Handlers : Enqueue(h)
  <2>1. PICK h \in Handlers : Enqueue(h)
    BY <1>2
  <2>2. calls' = [calls EXCEPT ![h] = Idle] /\ h \in Callers
    BY <2>1 DEF Enqueue, Callers
  <2>3. c # h /\ calls'[c] = calls[c]
    BY <2>2 DEF TypeOK, At, Idle
  <2>4. ~Enqueue(c)
    BY <2>3 DEF Enqueue, TypeOK, At, Idle
  <2> QED BY <2>3, <2>4
<1>3. CASE ~(\E h \in Handlers : Enqueue(h)) /\ ~(\E h \in Handlers, i \in Runs : CreateRow(h, i))
  <2>0. Enqueue(c) => calls'[c].pc = "idle"
    BY DEF Enqueue, TypeOK, Idle
  <2>1. ASSUME NEW h \in Handlers, CreateRead(h)
        PROVE  calls'[c] = calls[c]
    BY <2>1 DEF CreateRead, TypeOK, At, Idle
  <2>2. ASSUME NEW h \in Callers, NEW i \in Runs, ExecuteManually(h, i) \/ PickUp(h, i)
        PROVE  calls'[c] = calls[c]
    <3>1. calls' = [calls EXCEPT ![h] = [Idle EXCEPT !.pc = "begin", !.run = i]]
      BY <2>2 DEF ExecuteManually, PickUp
    <3>2. [Idle EXCEPT !.pc = "begin", !.run = i].pc = "begin"
      BY DEF Idle
    <3> QED BY <3>1, <3>2 DEF TypeOK, At
  <2>3. ASSUME NEW d \in Callers,
               Begin(d) \/ ReadCases(d) \/ WriteResults(d) \/ Complete(d) \/ Fail(d) \/ Crash(d)
        PROVE  calls'[c] = calls[c]
    <3>1. d \in Callers => calls'[d].pc # "enqueue" /\ (c # d => calls'[c] = calls[c])
      BY <2>3, ExecutionChanges
    <3> QED BY <3>1 DEF At
  <2>4. ASSUME \/ AddCases \/ DeleteDataset \/ UNCHANGED vars
               \/ \E i \in Runs : RecoverStalled(i)
               \/ \E w \in Workers : LoseLock(w)
        PROVE  calls'[c] = calls[c]
    BY <2>4 DEF AddCases, DeleteDataset, RecoverStalled, LoseLock, vars
  <2>5. calls'[c] = calls[c]
    BY <1>3, <2>1, <2>2, <2>3, <2>4, NextCases DEF Callers
  <2> QED BY <2>0, <2>5 DEF At
<1> QED BY <1>1, <1>2, <1>3

\* What becomes of a job, as far as its state and its past go.
LEMMA JobChanges ==
    ASSUME TypeOK, JobInv, [Next]_vars, NEW i \in Runs
    PROVE  \/ /\ job'[i].state = job[i].state /\ job'[i].made = job[i].made
              /\ job'[i].stalls = job[i].stalls
           \/ \E h \in Handlers : Enqueue(h) /\ calls[h].run = i /\ job'[i].state = "waiting"
           \/ /\ job[i].state = "waiting" /\ job'[i].state = "active"
              /\ job'[i].made = job[i].made /\ job'[i].stalls = job[i].stalls
           \/ /\ job[i].state = "active" /\ job'[i].state \in {"completed", "failed"}
              /\ job'[i].made = job[i].made /\ job'[i].stalls = job[i].stalls
           \/ /\ job[i].state = "active" /\ job'[i].state # "none"
              /\ job'[i].made # 0 \/ job'[i].stalls # 0
<1> DEFINE Same == /\ job'[i].state = job[i].state /\ job'[i].made = job[i].made
                   /\ job'[i].stalls = job[i].stalls
<1>1. ASSUME NEW h \in Handlers, Enqueue(h)
      PROVE  Same \/ (calls[h].run = i /\ job'[i].state = "waiting")
  <2>1. CASE calls[h].run = i
    <3>1. job' = job \/ job'[i] = [NoJob EXCEPT !.state = "waiting"]
      BY <1>1, <2>1 DEF Enqueue, TypeOK
    <3> QED BY <2>1, <3>1 DEF NoJob
  <2>2. CASE calls[h].run # i
    BY <1>1, <2>2 DEF Enqueue, TypeOK
  <2> QED BY <2>1, <2>2
<1>2. ASSUME NEW w \in Workers, NEW k \in Runs, PickUp(w, k)
      PROVE  Same \/ (/\ job[i].state = "waiting" /\ job'[i].state = "active"
                      /\ job'[i].made = job[i].made /\ job'[i].stalls = job[i].stalls)
  <2>1. CASE k = i
    <3>1. job[i].state = "waiting" /\ job'[i] = [job[i] EXCEPT !.state = "active", !.lock = w]
      BY <1>2, <2>1 DEF PickUp, TypeOK
    <3> QED BY <3>1 DEF TypeOK, Job
  <2>2. CASE k # i
    BY <1>2, <2>2 DEF PickUp, TypeOK
  <2> QED BY <2>1, <2>2
<1>3. ASSUME NEW k \in Runs, RecoverStalled(k)
      PROVE  \/ Same
             \/ /\ job[i].state = "active" /\ job'[i].state = "failed"
                /\ job'[i].made = job[i].made /\ job'[i].stalls = job[i].stalls
             \/ job[i].state = "active" /\ job'[i].state = "waiting" /\ job'[i].stalls # 0
  <2>1. CASE k = i
    <3>1. job[i].state = "active" /\ job[i].stalls \in Nat /\ job[i] \in Job
      BY <1>3, <2>1, EvaluationAssumption DEF RecoverStalled, TypeOK, Job
    <3>2. \/ job'[i] = [job[i] EXCEPT !.state = "waiting", !.stalls = job[i].stalls + 1]
          \/ job'[i] = [job[i] EXCEPT !.state = "failed"]
      BY <1>3, <2>1 DEF RecoverStalled, TypeOK
    <3>3. CASE job'[i] = [job[i] EXCEPT !.state = "waiting", !.stalls = job[i].stalls + 1]
      <4>1. job'[i].state = "waiting" /\ job'[i].stalls = job[i].stalls + 1
        BY <3>1, <3>3 DEF Job
      <4> QED BY <3>1, <4>1
    <3>4. CASE job'[i] = [job[i] EXCEPT !.state = "failed"]
      BY <3>1, <3>4 DEF Job
    <3> QED BY <3>2, <3>3, <3>4
  <2>2. CASE k # i
    BY <1>3, <2>2 DEF RecoverStalled, TypeOK
  <2> QED BY <2>1, <2>2
<1>4. ASSUME NEW w \in Workers, LoseLock(w)
      PROVE  Same
  <2>1. job'[i] = job[i] \/ job'[i] = [job[i] EXCEPT !.lock = NoWorker]
    BY <1>4 DEF LoseLock, TypeOK
  <2> QED BY <2>1 DEF TypeOK, Job
<1>5. ASSUME NEW c \in Callers,
             Begin(c) \/ ReadCases(c) \/ WriteResults(c) \/ Complete(c) \/ Fail(c) \/ Crash(c)
      PROVE  \/ Same
             \/ /\ job[i].state = "active" /\ job'[i].state = "completed"
                /\ job'[i].made = job[i].made /\ job'[i].stalls = job[i].stalls
             \/ job[i].state = "active" /\ job'[i].state # "none" /\ job'[i].made # 0
  BY <1>5, ExecutionChanges
<1>6. ASSUME \/ AddCases \/ DeleteDataset \/ UNCHANGED vars
             \/ \E h \in Handlers : CreateRead(h)
             \/ \E h \in Handlers, k \in Runs : CreateRow(h, k) \/ ExecuteManually(h, k)
      PROVE  Same
  BY <1>6 DEF AddCases, DeleteDataset, CreateRead, CreateRow, ExecuteManually, vars
<1>7. CASE \E h \in Handlers : Enqueue(h)
  BY <1>1, <1>7
<1>8. CASE \E w \in Workers, k \in Runs : PickUp(w, k)
  BY <1>2, <1>8
<1>9. CASE \E k \in Runs : RecoverStalled(k)
  BY <1>3, <1>9
<1>10. CASE \E w \in Workers : LoseLock(w)
  BY <1>4, <1>10
<1>11. CASE \E c \in Callers : \/ Begin(c) \/ ReadCases(c) \/ WriteResults(c)
                              \/ Complete(c) \/ Fail(c) \/ Crash(c)
  BY <1>5, <1>11
<1> QED BY <1>6, <1>7, <1>8, <1>9, <1>10, <1>11, NextCases

\* Who has a run in hand had it before, keeping to the end of its execution, or
\* takes it by making it, by hand or from the queue, and then nobody else moves.
LEMMA HandsChange ==
    ASSUME TypeOK, JobInv, [Next]_vars, NEW c \in Callers, NEW i \in Runs, On(c, i)'
    PROVE  \/ On(c, i) /\ (calls[c].pc \in {"complete", "fail"} =>
                              calls'[c].pc \in {"complete", "fail"})
           \/ /\ CreateRow(c, i) \/ ExecuteManually(c, i) \/ PickUp(c, i)
              /\ \A d \in Callers : d # c => calls'[d] = calls[d]
<1>1. CASE calls'[c] = calls[c]
  BY <1>1 DEF On
<1>2. ASSUME NEW k \in Runs, CreateRow(c, k) \/ ExecuteManually(c, k) \/ PickUp(c, k),
             calls'[c].run = k
      PROVE  /\ CreateRow(c, i) \/ ExecuteManually(c, i) \/ PickUp(c, i)
             /\ \A d \in Callers : d # c => calls'[d] = calls[d]
  <2>1. k = i
    BY <1>2 DEF On
  <2>2. \A d \in Callers : d # c => calls'[d] = calls[d]
    BY <1>2 DEF CreateRow, ExecuteManually, PickUp, TypeOK
  <2> QED BY <1>2, <2>1, <2>2
<1>3. CASE \/ Begin(c) \/ Complete(c) \/ Fail(c) \/ ReadCases(c) \/ WriteResults(c)
  <2>1. calls'[c].pc \notin {"idle", "create", "enqueue"} /\ calls'[c].run = i
    BY <1>3, ExecutionChanges DEF On
  <2> QED BY <1>3, <2>1, ExecutionChanges DEF On, At
<1> QED BY <1>1, <1>2, <1>3, CallMoves DEF On

\* Results and repetitions of a run come from one write, and go with the run.
LEMMA ResultsChange ==
    ASSUME TypeOK, CallInv, [Next]_vars, NEW i \in Runs
    PROVE  \/ results'[i] = results[i] /\ repeated'[i] = repeated[i]
           \/ results'[i] = 0 /\ repeated'[i] = 0
           \/ \E c \in Callers :
                 /\ WriteResults(c) /\ At(c, "results") /\ calls[c].run = i
                 /\ repeated'[i] = Max({repeated[i], Min({calls[c].read, results[i]})})
<1>1. CASE DeleteDataset
  BY <1>1 DEF DeleteDataset
<1>2. ASSUME NEW c \in Callers, WriteResults(c)
      PROVE  \/ results'[i] = results[i] /\ repeated'[i] = repeated[i]
             \/ /\ At(c, "results") /\ calls[c].run = i
                /\ repeated'[i] = Max({repeated[i], Min({calls[c].read, results[i]})})
  BY <1>2 DEF WriteResults, TypeOK
<1>3. CASE ~DeleteDataset /\ ~\E c \in Callers : WriteResults(c)
  <2>1. results' = results /\ repeated' = repeated
    BY <1>3, NextCases DEF AddCases, CreateRead, Enqueue, CreateRow, ExecuteManually,
       RecoverStalled, PickUp, LoseLock, Begin, ReadCases, Complete, Fail, Crash, rows, vars
  <2> QED BY <2>1
<1> QED BY <1>1, <1>2, <1>3

LEMMA FreshStep ==
    ASSUME TypeOK, CallInv, JobInv, RowInv, FreshInv, [Next]_vars
    PROVE  FreshInv'
<1>1. ASSUME NEW c \in Callers, At(c, "enqueue")'
      PROVE  job'[calls'[c].run].state = "none"
  <2>1. CASE calls'[c] = calls[c] /\ ~Enqueue(c)
    <3>1. At(c, "enqueue")
      BY <1>1, <2>1 DEF At
    <3>2. calls[c].run \in Runs /\ job[calls[c].run].state = "none"
      BY <3>1 DEF CallInv, FreshInv, At
    <3>3. ASSUME NEW h \in Handlers, Enqueue(h), calls[h].run = calls[c].run
          PROVE  FALSE
      <4>1. h = c
        BY <3>1, <3>3 DEF FreshInv, Enqueue, Callers
      <4> QED BY <2>1, <3>3, <4>1
    <3> QED BY <2>1, <3>2, <3>3, JobChanges
  <2>2. CASE \E i \in Runs : run[i].status = "none" /\ calls'[c].run = i /\ job' = job
    BY <2>2 DEF JobInv
  <2> QED BY <1>1, <2>1, <2>2, EnqueuersStay
<1>2. ASSUME NEW c \in Callers, NEW d \in Callers, At(c, "enqueue")', At(d, "enqueue")',
             calls'[c].run = calls'[d].run
      PROVE  c = d
  <2>1. CASE calls'[c] = calls[c] /\ calls'[d] = calls[d]
    BY <1>2, <2>1 DEF FreshInv, At
  <2>2. ASSUME NEW b \in Callers, NEW e \in Callers, b # e, At(e, "enqueue")',
               NEW i \in Runs, run[i].status = "none", calls'[b].run = i,
               \A a \in Callers : a # b => calls'[a] = calls[a], calls'[e].run = i
        PROVE  FALSE
    <3>1. At(e, "enqueue") /\ calls[e].run = i
      BY <2>2 DEF At
    <3> QED BY <2>2, <3>1 DEF CallInv, At
  <2>3. CASE calls'[c] # calls[c]
    BY <1>2, <2>2, <2>3, EnqueuersStay
  <2>4. CASE calls'[d] # calls[d]
    BY <1>2, <2>2, <2>4, EnqueuersStay
  <2> QED BY <2>1, <2>3, <2>4
<1>3. ASSUME NEW i \in Runs, job'[i].state = "none"
      PROVE  job'[i].made = 0 /\ job'[i].stalls = 0
  <2>1. /\ job'[i].state = job[i].state /\ job'[i].made = job[i].made
        /\ job'[i].stalls = job[i].stalls
    BY <1>3, JobChanges
  <2> QED BY <1>3, <2>1 DEF FreshInv
<1>4. ASSUME NEW i \in Runs, run'[i].status = "none"
      PROVE  results'[i] = 0 /\ repeated'[i] = 0
  <2>1. run[i].status = "none"
    BY <1>4, RunKept
  <2>2. ~\E c \in Callers : At(c, "results") /\ calls[c].run = i
    BY <2>1 DEF CallInv, At
  <2> QED BY <2>1, <2>2, ResultsChange DEF FreshInv
<1> QED BY <1>1, <1>2, <1>3, <1>4 DEF FreshInv

\* What is undisturbed was so before: requests are counted and only a new job
\* has its past cleared.
LEMMA UndisturbedBefore ==
    ASSUME TypeOK, JobInv, FreshInv, [Next]_vars, NEW i \in Runs, Undisturbed(i)'
    PROVE  /\ Undisturbed(i)
           /\ ~\E h \in Handlers, k \in Runs : ExecuteManually(h, k)
<1>0. manual \in Nat
  BY EvaluationAssumption DEF TypeOK
<1>1. ASSUME NEW h \in Handlers, NEW k \in Runs, ExecuteManually(h, k)
      PROVE  FALSE
  <2>1. manual' = manual + 1 /\ manual' = 0
    BY <1>1 DEF ExecuteManually, Undisturbed
  <2> QED BY <1>0, <2>1
<1>2. manual = 0
  <2>1. manual' = manual
    BY <1>1, NextCases DEF AddCases, DeleteDataset, CreateRead, Enqueue, CreateRow,
       RecoverStalled, PickUp, LoseLock, Begin, ReadCases, WriteResults, Complete, Fail, Crash,
       vars
  <2> QED BY <2>1 DEF Undisturbed
<1>3. job[i].made = 0 /\ job[i].stalls = 0
  <2>1. CASE \E h \in Handlers : Enqueue(h) /\ calls[h].run = i
    BY <2>1 DEF Enqueue, FreshInv, Callers
  <2> QED BY <2>1, JobChanges DEF Undisturbed
<1> QED BY <1>1, <1>2, <1>3 DEF Undisturbed

LEMMA DeliveryStep ==
    ASSUME TypeOK, CallInv, JobInv, FreshInv, DeliveryInv, [Next]_vars
    PROVE  DeliveryInv'
<1> SUFFICES ASSUME NEW i \in Runs, Undisturbed(i)'
             PROVE  Delivered(i)'
  BY DEF DeliveryInv
<1>1. Undisturbed(i) /\ Delivered(i)
  BY UndisturbedBefore DEF DeliveryInv
<1>2. ASSUME NEW c \in Callers, On(c, i)'
      PROVE  \/ On(c, i) /\ (calls[c].pc \in {"complete", "fail"} =>
                                 calls'[c].pc \in {"complete", "fail"})
             \/ /\ \/ CreateRow(c, i) /\ run[i].status = "none"
                   \/ PickUp(c, i) /\ job[i].state = "waiting" /\ job'[i].state = "active"
                /\ \A d \in Callers : ~On(d, i)
                /\ \A d \in Callers : d # c => calls'[d] = calls[d]
  <2>1. ASSUME CreateRow(c, i)
        PROVE  run[i].status = "none" /\ \A d \in Callers : ~On(d, i)
    BY <2>1 DEF CreateRow, CallInv, On
  <2>2. ASSUME PickUp(c, i)
        PROVE  /\ job[i].state = "waiting" /\ job'[i].state = "active"
               /\ \A d \in Callers : ~On(d, i)
    <3>1. job[i].state = "waiting" /\ job' = [job EXCEPT ![i].state = "active", ![i].lock = c]
      BY <2>2 DEF PickUp
    <3>2. job'[i].state = "active"
      BY <3>1 DEF TypeOK, Job
    <3> QED BY <1>1, <3>1, <3>2 DEF Delivered
  <2>3. ~ExecuteManually(c, i)
    <3>1. manual \in Nat
      BY EvaluationAssumption DEF TypeOK
    <3> QED BY <3>1 DEF ExecuteManually, Undisturbed
  <2> QED BY <1>2, <2>1, <2>2, <2>3, HandsChange
<1>3. ASSUME NEW h \in Handlers, Enqueue(h), calls[h].run = i
      PROVE  /\ h \in Callers /\ On(h, i) /\ calls[h].pc = "enqueue" /\ ~On(h, i)'
             /\ job[i].state = "none" /\ run[i].status # "none"
  <2>1. h \in Callers /\ calls[h].pc = "enqueue" /\ calls' = [calls EXCEPT ![h] = Idle]
    BY <1>3 DEF Enqueue, At, Callers
  <2>2. calls'[h].pc = "idle"
    BY <2>1 DEF TypeOK, Idle
  <2> QED BY <1>3, <2>1, <2>2 DEF On, FreshInv, CallInv, At
<1>4. ASSUME NEW c \in Callers, WriteResults(c), calls[c].run = i
      PROVE  /\ On(c, i) /\ calls[c].pc = "results" /\ results[i] = 0
             /\ calls'[c].pc \in {"complete", "fail"}
  <2>1. calls[c].pc = "results" /\ On(c, i)
    BY <1>4 DEF WriteResults, At, On
  <2>2. calls'[c].pc \in {"complete", "fail"}
    BY <1>4 DEF WriteResults, GoTo, TypeOK, Call
  <2> QED BY <1>1, <2>1, <2>2 DEF Delivered
<1>5. repeated'[i] = 0
  <2>1. ASSUME NEW c \in Callers, WriteResults(c), calls[c].run = i,
               repeated'[i] = Max({repeated[i], Min({calls[c].read, results[i]})})
        PROVE  repeated'[i] = 0
    <3>1. calls[c].read \in 0..MaxCases
      BY DEF TypeOK, Call
    <3> DEFINE least == Min({calls[c].read, results[i]})
    <3>2. results[i] = 0 /\ repeated[i] = 0
      BY <1>1, <1>4, <2>1 DEF Delivered
    <3>3. least = 0
      BY <3>1, <3>2, MinOfTwo, EvaluationAssumption
    <3>4. repeated[i] \in 0..MaxCases /\ least \in 0..MaxCases
      BY <3>2, <3>3, EvaluationAssumption
    <3> HIDE DEF least
    <3>5. Max({repeated[i], least}) = 0
      BY <3>2, <3>3, <3>4, MaxOfTwo, EvaluationAssumption
    <3> QED BY <2>1, <3>5 DEF least
  <2> QED BY <1>1, <2>1, ResultsChange DEF Delivered
<1>6. ASSUME NEW c \in Callers, NEW d \in Callers, On(c, i)', On(d, i)'
      PROVE  c = d
  <2>1. ASSUME NEW a \in Callers, NEW b \in Callers, a # b, On(b, i)',
               \A e \in Callers : ~On(e, i),
               \A e \in Callers : e # a => calls'[e] = calls[e]
        PROVE  FALSE
    BY <2>1 DEF On
  <2>2. CASE On(c, i) /\ On(d, i)
    BY <1>1, <2>2 DEF Delivered
  <2>3. CASE ~On(c, i)
    BY <1>2, <1>6, <2>1, <2>3
  <2>4. CASE ~On(d, i)
    BY <1>2, <1>6, <2>1, <2>4
  <2> QED BY <2>2, <2>3, <2>4
<1>7. ASSUME job'[i].state = "waiting", NEW c \in Callers, On(c, i)'
      PROVE  FALSE
  <2>1. CASE job[i].state = "waiting"
    BY <1>1, <1>2, <1>7, <2>1 DEF Delivered, JobInv
  <2>2. ASSUME NEW h \in Handlers, Enqueue(h), calls[h].run = i
        PROVE  FALSE
    <3>1. On(c, i)
      BY <1>2, <1>3, <1>7, <2>2
    <3> QED BY <1>1, <1>3, <1>7, <2>2, <3>1 DEF Delivered
  <2> QED BY <1>7, <2>1, <2>2, JobChanges DEF Undisturbed
<1>8. ASSUME results'[i] # 0
      PROVE  /\ job[i].state # "waiting" /\ run[i].status # "none"
             /\ \A h \in Callers : On(h, i) => calls[h].pc # "enqueue"
             /\ \A c \in Callers : On(c, i)' => calls'[c].pc \in {"complete", "fail"}
  <2>1. CASE results'[i] = results[i]
    <3>1. /\ job[i].state # "waiting" /\ run[i].status # "none"
          /\ \A h \in Callers : On(h, i) => calls[h].pc \in {"complete", "fail"}
      BY <1>1, <1>8, <2>1 DEF Delivered, FreshInv
    <3> QED BY <1>2, <3>1
  <2>2. ASSUME NEW c \in Callers, WriteResults(c), calls[c].run = i
        PROVE  /\ job[i].state # "waiting" /\ run[i].status # "none"
               /\ \A h \in Callers : On(h, i) => h = c /\ calls[h].pc # "enqueue"
    BY <1>1, <1>4, <2>2 DEF Delivered, CallInv, On
  <2>3. CASE \E c \in Callers : WriteResults(c) /\ calls[c].run = i
    BY <1>2, <1>4, <2>2, <2>3
  <2> QED BY <1>8, <2>1, <2>3, ResultsChange
<1>9. ASSUME results'[i] # 0
      PROVE  job'[i].state # "waiting"
  BY <1>3, <1>8, <1>9, JobChanges DEF Undisturbed
<1> QED BY <1>5, <1>6, <1>7, <1>8, <1>9 DEF Delivered

\* A run the queue delivered once and nobody executed by hand has at most one
\* result row per case, however many requests and workers there are.
THEOREM OncePerDeliveryHolds == Spec => []OncePerDelivery
<1>1. Init => FreshInv /\ DeliveryInv
  BY DEF Init, FreshInv, DeliveryInv, Delivered, On, At, Idle, NoJob
<1>2. IInv /\ FreshInv /\ DeliveryInv /\ [Next]_vars => FreshInv' /\ DeliveryInv'
  BY FreshStep, DeliveryStep DEF IInv
<1>3. IInv /\ DeliveryInv => OncePerDelivery
  BY DEF DeliveryInv, Undisturbed, Delivered, OncePerDelivery
<1> QED BY <1>1, <1>2, <1>3, Inductive, PTL DEF Spec
=============================================================================
