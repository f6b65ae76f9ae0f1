-------------------------- MODULE IngestJobsProofs --------------------------
(***************************************************************************)
(* Machine-checked proofs about IngestJobs, for any jobs, workers, names,  *)
(* contents and numbers of faults; two workers may have the same name.     *)
(*                                                                         *)
(* IndInv adds to TypeOK how a worker's local variables relate to the      *)
(* table and to Qdrant (WorkerOK), that no attempt is held twice           *)
(* (AttemptIsExclusive), that a pending cancellation stays on the row      *)
(* (CancelKept), and what a late writer is (LateOK).                       *)
(***************************************************************************)
EXTENDS IngestJobs, FiniteSetTheorems, TLAPS

(* A process that holds a job holds an attempt the table has counted, and    *)
(* has written the batches it counts.                                        *)
WorkerOK(w) ==
    /\ job[w] \in Jobs <=> pc[w] # "idle"
    /\ pc[w] = "idle" => late[w] = 0 /\ done[w] = 0
    /\ job[w] \in Jobs => held[w] <= attempt[job[w]]
    /\ pc[w] \in {"start", "announce"} => done[w] = 0
    /\ pc[w] \in Working \ {"start"} =>
           /\ text[w] \in Contents
           /\ done[w] <= Batches[text[w]]
           /\ {text[w]} \X (1 .. done[w]) \subseteq points[DocOf[job[w]]]
    /\ pc[w] \in {"check", "batch"} => done[w] < Batches[text[w]]
    /\ pc[w] \in {"catalog", "finish"} => done[w] = Batches[text[w]]
    /\ pc[w] = "finish" => catalog[DocOf[job[w]]] # NoContent

CancelKept ==
    \A j \in Jobs : wanted[j] /\ status[j] \notin Terminal => cancel[j]

(* The process has no business with its job any more.                        *)
Lost(w) == ~Owns(w) \/ wanted[job[w]]

LateOK(w) == late[w] = 0 \/ (late[w] = 1 /\ Lost(w) /\ pc[w] # "batch")

IndInv ==
    /\ TypeOK
    /\ \A w \in Workers : WorkerOK(w)
    /\ AttemptIsExclusive
    /\ CancelKept
    /\ \A w \in Workers : LateOK(w)
    /\ SucceededIsComplete
-----------------------------------------------------------------------------
LEMMA InitIndInv == Init => IndInv
<1> SUFFICES ASSUME Init PROVE IndInv
  OBVIOUS
<1>1. TypeOK
  BY JobsAssumption DEF Init, TypeOK, Statuses, WorkerSteps
<1>2. ASSUME NEW w \in Workers PROVE WorkerOK(w) /\ LateOK(w)
  BY <1>2, JobsAssumption DEF Init, WorkerOK, LateOK, Working
<1>3. AttemptIsExclusive /\ CancelKept /\ SucceededIsComplete
  BY JobsAssumption DEF Init, AttemptIsExclusive, CancelKept, SucceededIsComplete
<1>4. QED
  BY <1>1, <1>2, <1>3 DEF IndInv

(* A worker that is not idle has a job.                                      *)
LEMMA HasJob ==
    ASSUME IndInv, NEW w \in Workers, pc[w] # "idle"
    PROVE  job[w] \in Jobs
BY DEF IndInv, WorkerOK

(* Claim, with the job it takes.                                             *)
ClaimOf(w, j) ==
    /\ pc[w] = "idle" /\ status[j] = "queued"
    /\ status' = [status EXCEPT ![j] = "running"]
    /\ owner' = [owner EXCEPT ![j] = IdOf[w]]
    /\ attempt' = [attempt EXCEPT ![j] = @ + 1]
    /\ heartbeat' = [heartbeat EXCEPT ![j] = "fresh"]
    /\ job' = [job EXCEPT ![w] = j]
    /\ held' = [held EXCEPT ![w] = attempt[j] + 1]
    /\ Goto(w, "start")
    /\ UNCHANGED <<cancel, processed, created, provenance, storeVars,
                   text, done, stop, late, wanted, retries, faults>>

LEMMA ClaimsOne ==
    ASSUME NEW w \in Workers, Claim(w)
    PROVE  \E j \in Jobs : ClaimOf(w, j)
BY DEF Claim, ClaimOf, NextQueued

LEMMA IdleType ==
    ASSUME TypeOK, NEW w \in Workers, Idle(w)
    PROVE  /\ pc' \in [Workers -> WorkerSteps]
           /\ job' \in [Workers -> Jobs \cup {NoJob}]
           /\ held' \in [Workers -> Nat]
           /\ text' \in [Workers -> Contents \cup {NoContent}]
           /\ done' \in [Workers -> Nat]
           /\ late' \in [Workers -> Nat]
BY DEF Idle, Goto, TypeOK, WorkerSteps

LEMMA ToolType ==
    ASSUME TypeOK, NEW j \in Jobs,
           Tool(j) \/ LeaseOfDeadExpires(j) \/ LeaseOfSlowExpires(j)
    PROVE  TypeOK'
<1>1. CASE Enqueue(j)
  <2>1. created' \in [Jobs -> Nat]
    <3> DEFINE Known == {k \in Jobs : status[k] # "absent"}
    <3>1. Cardinality(Known) \in Nat
      BY JobsAssumption, FS_Subset, FS_CardinalityType
    <3>2. created' = [created EXCEPT ![j] = Cardinality(Known) + 1]
      BY <1>1 DEF Enqueue
    <3> HIDE DEF Known
    <3>3. QED
      BY <3>1, <3>2 DEF TypeOK
  <2>2. QED
    BY <1>1, <2>1 DEF Enqueue, TypeOK, Statuses, storeVars, workerVars
<1>2. CASE RequestCancel(j)
  BY <1>2 DEF RequestCancel, TypeOK, Statuses, Terminal, storeVars, workerVars
<1>3. CASE RetryJob(j)
  BY <1>3 DEF RetryJob, TypeOK, Statuses, storeVars, workerVars
<1>4. CASE LeaseOfDeadExpires(j)
  BY <1>4 DEF LeaseOfDeadExpires, LeaseExpires, TypeOK, storeVars, workerVars
<1>5. CASE LeaseOfSlowExpires(j)
  BY <1>5 DEF LeaseOfSlowExpires, LeaseExpires, TypeOK, storeVars, workerVars
<1>6. QED
  BY <1>1, <1>2, <1>3, <1>4, <1>5 DEF Tool

LEMMA WorkerType ==
    ASSUME IndInv, NEW w \in Workers, WorkerStep(w) \/ Fault(w)
    PROVE  TypeOK'
<1> USE DEF IndInv
<1>1. CASE RequeueStale(w)
  <2>1. status' \in [Jobs -> Statuses]
    BY <1>1 DEF RequeueStale, TypeOK, Statuses, Terminal
  <2>2. owner' \in [Jobs -> Ids \cup {NoId}]
    BY <1>1 DEF RequeueStale, TypeOK
  <2>3. heartbeat' \in [Jobs -> {"none", "fresh", "old"}]
    BY <1>1 DEF RequeueStale, TypeOK
  <2>4. QED
    BY <1>1, <2>1, <2>2, <2>3 DEF RequeueStale, TypeOK, storeVars, workerVars
<1>2. CASE Claim(w)
  <2>1. PICK j \in Jobs : ClaimOf(w, j)
    BY <1>2, ClaimsOne
  <2>2. status' \in [Jobs -> Statuses] /\ owner' \in [Jobs -> Ids \cup {NoId}]
    BY <2>1, JobsAssumption DEF ClaimOf, TypeOK, Statuses
  <2>3. attempt' \in [Jobs -> Nat] /\ heartbeat' \in [Jobs -> {"none", "fresh", "old"}]
    BY <2>1 DEF ClaimOf, TypeOK
  <2>4. pc' \in [Workers -> WorkerSteps] /\ job' \in [Workers -> Jobs \cup {NoJob}]
    BY <2>1 DEF ClaimOf, Goto, TypeOK, Working, WorkerSteps
  <2>5. held' \in [Workers -> Nat]
    BY <2>1 DEF ClaimOf, TypeOK
  <2>6. QED
    BY <2>1, <2>2, <2>3, <2>4, <2>5 DEF ClaimOf, TypeOK, storeVars
<1>3. CASE Fetch(w)
  BY <1>3 DEF Fetch, Goto, TypeOK, Working, Leaving, WorkerSteps, tableVars, storeVars
<1>4. CASE Progress(w)
  <2>1. job[w] \in Jobs
    BY <1>4, HasJob DEF Progress
  <2>2. QED
    BY <1>4, <2>1 DEF Progress, Goto, TypeOK, Working, Leaving, WorkerSteps, storeVars
<1>5. CASE CheckCancel(w)
  BY <1>5 DEF CheckCancel, Goto, TypeOK, Working, Leaving, WorkerSteps, tableVars, storeVars
<1>6. CASE UpsertBatch(w)
  <2>1. job[w] \in Jobs /\ text[w] \in Contents /\ DocOf[job[w]] \in Documents
    BY <1>6, HasJob, JobsAssumption DEF UpsertBatch, WorkerOK, Working
  <2>2. <<text[w], done[w] + 1>> \in Contents \X Nat
    BY <2>1 DEF TypeOK
  <2> DEFINE d == DocOf[job[w]]
  <2>3. points[d] \cup {<<text[w], done[w] + 1>>} \in SUBSET (Contents \X Nat)
    BY <2>1, <2>2 DEF TypeOK
  <2>4. points' = [points EXCEPT ![d] = points[d] \cup {<<text[w], done[w] + 1>>}]
    BY <1>6 DEF UpsertBatch
  <2>5. points' \in [Documents -> SUBSET (Contents \X Nat)]
    BY <2>1, <2>3, <2>4 DEF TypeOK
  <2>6. late' \in [Workers -> Nat] /\ done' \in [Workers -> Nat]
    BY <1>6 DEF UpsertBatch, TypeOK
  <2>7. pc' \in [Workers -> WorkerSteps]
    BY <1>6 DEF UpsertBatch, Goto, TypeOK, Working, WorkerSteps
  <2>8. QED
    BY <1>6, <2>5, <2>6, <2>7 DEF UpsertBatch, TypeOK, tableVars
<1>7. CASE UpsertCatalog(w)
  <2>1. DocOf[job[w]] \in Documents
    BY <1>7, HasJob, JobsAssumption DEF UpsertCatalog
  <2>2. QED
    BY <1>7, <2>1 DEF UpsertCatalog, Goto, TypeOK, Working, WorkerSteps, tableVars
<1>8. CASE FinishSuccess(w)
  <2>1. job[w] \in Jobs
    BY <1>8, HasJob DEF FinishSuccess
  <2>2. status' \in [Jobs -> Statuses]
    BY <1>8, <2>1 DEF FinishSuccess, TypeOK, Statuses, Terminal
  <2>3. processed' \in [Jobs -> Nat] /\ provenance' \in [Jobs -> Nat]
    BY <1>8, <2>1 DEF FinishSuccess, TypeOK
  <2>4. heartbeat' \in [Jobs -> {"none", "fresh", "old"}]
    BY <1>8, <2>1 DEF FinishSuccess, TypeOK
  <2>5. /\ pc' \in [Workers -> WorkerSteps] /\ job' \in [Workers -> Jobs \cup {NoJob}]
        /\ held' \in [Workers -> Nat] /\ text' \in [Workers -> Contents \cup {NoContent}]
        /\ done' \in [Workers -> Nat] /\ late' \in [Workers -> Nat]
    <3>1. CASE Idle(w)
      BY <3>1, IdleType
    <3>2. CASE ~Idle(w)
      <4>1. Goto(w, "failed") /\ UNCHANGED <<job, held, text, done, late>>
        BY <1>8, <3>2 DEF FinishSuccess
      <4>2. QED
        BY <4>1 DEF Goto, TypeOK, Leaving, WorkerSteps
    <3>3. QED
      BY <3>1, <3>2
  <2>6. faults' \in Nat
    BY <1>8 DEF FinishSuccess, TypeOK
  <2>7. QED
    BY <1>8, <2>2, <2>3, <2>4, <2>5, <2>6 DEF FinishSuccess, TypeOK, storeVars
<1>9. CASE FinishJob(w)
  <2>1. job[w] \in Jobs
    BY <1>9, HasJob DEF FinishJob
  <2>2. status' \in [Jobs -> Statuses]
    BY <1>9, <2>1 DEF FinishJob, TypeOK, Statuses, Terminal
  <2>3. heartbeat' \in [Jobs -> {"none", "fresh", "old"}]
    BY <1>9, <2>1 DEF FinishJob, TypeOK
  <2>4. Idle(w)
    BY <1>9 DEF FinishJob
  <2>5. QED
    BY <1>9, <2>2, <2>3, <2>4, IdleType DEF FinishJob, TypeOK, storeVars
<1>10. CASE ReleaseJob(w)
  <2>1. job[w] \in Jobs
    BY <1>10, HasJob DEF ReleaseJob
  <2>2. QED
    BY <1>10, <2>1, IdleType DEF ReleaseJob, TypeOK, Statuses, storeVars
<1>11. CASE Replace(w)
  BY <1>11 DEF Replace, TypeOK, tableVars, storeVars
<1>12. CASE StepFails(w)
  BY <1>12 DEF StepFails, Goto, TypeOK, Leaving, WorkerSteps, tableVars, storeVars
<1>13. CASE Crash(w)
  BY <1>13, IdleType DEF Crash, TypeOK, tableVars, storeVars
<1>14. CASE Shutdown(w)
  BY <1>14 DEF Shutdown, TypeOK, tableVars, storeVars
<1>15. QED
  BY <1>1, <1>2, <1>3, <1>4, <1>5, <1>6, <1>7, <1>8, <1>9, <1>10, <1>11, <1>12, <1>13, <1>14
  DEF WorkerStep, Fault

LEMMA TypeStep == ASSUME IndInv, [Next]_vars PROVE TypeOK'
<1>1. CASE UNCHANGED vars
  BY <1>1 DEF IndInv, TypeOK, vars, tableVars, storeVars, workerVars
<1>2. QED
  BY <1>1, ToolType, WorkerType DEF Next, IndInv
-----------------------------------------------------------------------------
(* A worker's step leaves the local variables of the others alone.           *)
Same(v) ==
    /\ pc'[v] = pc[v] /\ job'[v] = job[v] /\ held'[v] = held[v]
    /\ text'[v] = text[v] /\ done'[v] = done[v] /\ late'[v] = late[v]

LEMMA IdleSame ==
    ASSUME TypeOK, NEW w \in Workers, Idle(w), NEW v \in Workers, v # w
    PROVE  Same(v)
BY DEF Idle, Goto, TypeOK, Same

LEMMA OthersSame ==
    ASSUME TypeOK, NEW w \in Workers, WorkerStep(w) \/ Fault(w), NEW v \in Workers, v # w
    PROVE  Same(v)
<1>1. CASE RequeueStale(w) \/ Replace(w) \/ Shutdown(w)
  BY <1>1 DEF RequeueStale, Replace, Shutdown, Same, workerVars
<1>2. CASE Claim(w)
  <2>1. PICK j \in Jobs : ClaimOf(w, j)
    BY <1>2, ClaimsOne
  <2>2. QED
    BY <2>1 DEF ClaimOf, Goto, TypeOK, Same
<1>3. CASE Fetch(w)
  <2>1. text'[v] = text[v]
    BY <1>3 DEF Fetch, TypeOK
  <2>2. pc'[v] = pc[v]
    BY <1>3 DEF Fetch, Goto, TypeOK
  <2>3. QED
    BY <1>3, <2>1, <2>2 DEF Fetch, Same
<1>4. CASE Progress(w) \/ CheckCancel(w) \/ UpsertCatalog(w) \/ StepFails(w)
  <2>1. pc'[v] = pc[v]
    BY <1>4 DEF Progress, CheckCancel, UpsertCatalog, StepFails, Goto, TypeOK
  <2>2. QED
    BY <1>4, <2>1 DEF Progress, CheckCancel, UpsertCatalog, StepFails, Same
<1>5. CASE UpsertBatch(w)
  BY <1>5 DEF UpsertBatch, Goto, TypeOK, Same
<1>6. CASE FinishSuccess(w)
  <2>1. CASE Idle(w)
    BY <2>1, IdleSame
  <2>2. CASE ~Idle(w)
    BY <1>6, <2>2 DEF FinishSuccess, Goto, TypeOK, Same
  <2>3. QED
    BY <2>1, <2>2
<1>7. CASE FinishJob(w) \/ ReleaseJob(w) \/ Crash(w)
  BY <1>7, IdleSame DEF FinishJob, ReleaseJob, Crash
<1>8. QED
  BY <1>1, <1>2, <1>3, <1>4, <1>5, <1>6, <1>7 DEF WorkerStep, Fault
-----------------------------------------------------------------------------
(* How one step moves a row: the attempt only grows, a row that runs under   *)
(* the same attempt ran before under the same name, and a cancellation is    *)
(* forgotten only by requeueing the job for a retry.                         *)
RowMoves(j) ==
    /\ attempt'[j] >= attempt[j]
    /\ status'[j] = "running" /\ attempt'[j] = attempt[j] =>
           status[j] = "running" /\ owner'[j] = owner[j]
    /\ wanted[j] /\ ~wanted'[j] => status'[j] = "queued"
    /\ wanted'[j] /\ status'[j] \notin Terminal => cancel'[j]

(* Points are only added, and a document stays in the catalog.               *)
StoreMoves ==
    \A d \in Documents :
        /\ points[d] \subseteq points'[d]
        /\ catalog[d] # NoContent => catalog'[d] # NoContent

LEMMA StepRows ==
    ASSUME IndInv, [Next]_vars, NEW j \in Jobs
    PROVE  RowMoves(j)
<1> USE DEF RowMoves
<1>0. TypeOK /\ CancelKept
  BY DEF IndInv
<1>1. CASE UNCHANGED vars
  BY <1>0, <1>1 DEF TypeOK, CancelKept, vars, tableVars
<1>2. ASSUME NEW k \in Jobs, Enqueue(k) PROVE RowMoves(j)
  BY <1>0, <1>2 DEF Enqueue, TypeOK, CancelKept, Terminal
<1>3. ASSUME NEW k \in Jobs, RequestCancel(k) PROVE RowMoves(j)
  BY <1>0, <1>3 DEF RequestCancel, TypeOK, CancelKept, Terminal
<1>4. ASSUME NEW k \in Jobs, RetryJob(k) PROVE RowMoves(j)
  BY <1>0, <1>4 DEF RetryJob, TypeOK, CancelKept, Terminal
<1>5. ASSUME NEW k \in Jobs, LeaseOfDeadExpires(k) \/ LeaseOfSlowExpires(k)
      PROVE  RowMoves(j)
  BY <1>0, <1>5 DEF LeaseOfDeadExpires, LeaseOfSlowExpires, LeaseExpires, TypeOK, CancelKept
<1>6. ASSUME NEW w \in Workers, RequeueStale(w) PROVE RowMoves(j)
  <2>1. UNCHANGED <<attempt, cancel, wanted>>
    BY <1>6 DEF RequeueStale
  <2>2. CASE j \in Expired
    <3>1. status'[j] = IF cancel[j] THEN "cancelled" ELSE "queued"
      BY <1>6, <2>2 DEF RequeueStale
    <3>2. status[j] \notin Terminal
      BY <2>2 DEF Expired, Terminal
    <3>3. QED
      BY <1>0, <2>1, <3>1, <3>2 DEF TypeOK, CancelKept, Terminal
  <2>3. CASE j \notin Expired
    <3>1. status'[j] = status[j] /\ owner'[j] = owner[j]
      BY <1>6, <2>3 DEF RequeueStale
    <3>2. QED
      BY <1>0, <2>1, <3>1 DEF TypeOK, CancelKept
  <2>4. QED
    BY <2>2, <2>3
<1>7. ASSUME NEW w \in Workers, Claim(w) PROVE RowMoves(j)
  <2>1. PICK k \in Jobs : ClaimOf(w, k)
    BY <1>7, ClaimsOne
  <2>2. QED
    BY <1>0, <2>1 DEF ClaimOf, TypeOK, CancelKept, Terminal
<1>8. ASSUME NEW w \in Workers, Progress(w) PROVE RowMoves(j)
  BY <1>0, <1>8 DEF Progress, TypeOK, CancelKept
<1>9. ASSUME NEW w \in Workers,
             \/ Fetch(w) \/ CheckCancel(w) \/ UpsertBatch(w) \/ UpsertCatalog(w)
             \/ Replace(w) \/ Fault(w)
      PROVE  RowMoves(j)
  BY <1>0, <1>9
  DEF Fetch, CheckCancel, UpsertBatch, UpsertCatalog, Replace, Fault, StepFails, Crash, Shutdown,
      TypeOK, CancelKept, tableVars
<1>10. ASSUME NEW w \in Workers, FinishSuccess(w) PROVE RowMoves(j)
  <2>1. status' = status \/ (job[w] \in Jobs /\ status' = [status EXCEPT ![job[w]] = "succeeded"])
    BY <1>10 DEF FinishSuccess, Owns
  <2>2. UNCHANGED <<attempt, owner, wanted, cancel>>
    BY <1>10 DEF FinishSuccess
  <2>3. QED
    BY <1>0, <2>1, <2>2 DEF TypeOK, CancelKept, Terminal
<1>11. ASSUME NEW w \in Workers, FinishJob(w) PROVE RowMoves(j)
  <2>1. status' = status \/ (job[w] \in Jobs /\ status' = [status EXCEPT ![job[w]] = pc[w]])
    BY <1>11 DEF FinishJob, Owns
  <2>2. UNCHANGED <<attempt, owner, wanted, cancel>> /\ pc[w] \in {"cancelled", "failed"}
    BY <1>11 DEF FinishJob
  <2>3. QED
    BY <1>0, <2>1, <2>2 DEF TypeOK, CancelKept, Terminal
<1>12. ASSUME NEW w \in Workers, ReleaseJob(w) PROVE RowMoves(j)
  <2>1. CASE Owns(w)
    <3>1. job[w] \in Jobs /\ status[job[w]] = "running"
      BY <2>1 DEF Owns
    <3>2. /\ status' = [status EXCEPT ![job[w]] = "queued"]
          /\ owner' = [owner EXCEPT ![job[w]] = NoId]
          /\ UNCHANGED <<attempt, wanted, cancel>>
      BY <1>12, <2>1 DEF ReleaseJob
    <3>3. QED
      BY <1>0, <3>1, <3>2 DEF TypeOK, CancelKept, Terminal
  <2>2. CASE ~Owns(w)
    <3>1. UNCHANGED <<status, owner, attempt, wanted, cancel>>
      BY <1>12, <2>2 DEF ReleaseJob
    <3>2. QED
      BY <1>0, <3>1 DEF TypeOK, CancelKept
  <2>3. QED
    BY <2>1, <2>2
<1>13. QED
  BY <1>1, <1>2, <1>3, <1>4, <1>5, <1>6, <1>7, <1>8, <1>9, <1>10, <1>11, <1>12
  DEF Next, Tool, WorkerStep

LEMMA StepStore ==
    ASSUME IndInv, [Next]_vars
    PROVE  StoreMoves
<1>0. TypeOK
  BY DEF IndInv
<1>1. CASE UNCHANGED storeVars
  BY <1>1 DEF storeVars, StoreMoves
<1>2. ASSUME NEW w \in Workers, UpsertBatch(w) PROVE StoreMoves
  BY <1>0, <1>2 DEF UpsertBatch, StoreMoves, TypeOK
<1>3. ASSUME NEW w \in Workers, UpsertCatalog(w) PROVE StoreMoves
  <2>1. text[w] \in Contents
    BY <1>3 DEF UpsertCatalog, IndInv, WorkerOK, Working
  <2>2. text[w] # NoContent
    BY <2>1, JobsAssumption
  <2>3. QED
    BY <1>0, <1>3, <2>2 DEF UpsertCatalog, StoreMoves, TypeOK
<1>4. ASSUME NEW j \in Jobs, Tool(j) \/ LeaseOfDeadExpires(j) \/ LeaseOfSlowExpires(j)
      PROVE  UNCHANGED storeVars
  BY <1>4 DEF Tool, Enqueue, RequestCancel, RetryJob, LeaseOfDeadExpires, LeaseOfSlowExpires,
              LeaseExpires
<1>5. ASSUME NEW w \in Workers, WorkerStep(w) \/ Fault(w), ~UpsertBatch(w), ~UpsertCatalog(w)
      PROVE  UNCHANGED storeVars
  BY <1>5 DEF WorkerStep, Fault, RequeueStale, Claim, Fetch, Progress, CheckCancel, FinishSuccess,
              FinishJob, ReleaseJob, Replace, StepFails, Crash, Shutdown
<1>6. CASE UNCHANGED vars
  BY <1>1, <1>6 DEF vars
<1>7. QED
  BY <1>1, <1>2, <1>3, <1>4, <1>5, <1>6 DEF Next
-----------------------------------------------------------------------------
(* The other workers' parts of the invariant survive a step that leaves      *)
(* their local variables alone.                                              *)
LEMMA OthersWorkerOK ==
    ASSUME IndInv, TypeOK', StoreMoves, \A j \in Jobs : RowMoves(j),
           NEW v \in Workers, Same(v)
    PROVE  WorkerOK(v)'
<1> DEFINE d == DocOf[job[v]]
<1>1. TypeOK /\ WorkerOK(v)
  BY DEF IndInv
<1>2. job[v] \in Jobs => held'[v] <= attempt'[job'[v]]
  BY <1>1 DEF Same, RowMoves, WorkerOK, TypeOK
<1>3. ASSUME pc[v] \in Working \ {"start"}
      PROVE  /\ text'[v] \in Contents
             /\ done'[v] <= Batches[text'[v]]
             /\ {text'[v]} \X (1 .. done'[v]) \subseteq points'[DocOf[job'[v]]]
  <2>1. d \in Documents
    BY <1>1, <1>3, JobsAssumption DEF WorkerOK, Working
  <2>2. points[d] \subseteq points'[d]
    BY <2>1 DEF StoreMoves
  <2>3. QED
    BY <1>1, <1>3, <2>2 DEF Same, WorkerOK
<1>4. pc[v] = "finish" => catalog'[DocOf[job'[v]]] # NoContent
  <2> SUFFICES ASSUME pc[v] = "finish" PROVE catalog'[d] # NoContent
    BY DEF Same
  <2>1. d \in Documents /\ catalog[d] # NoContent
    BY <1>1, JobsAssumption DEF WorkerOK
  <2>2. QED
    BY <2>1 DEF StoreMoves
<1>5. QED
  BY <1>1, <1>2, <1>3, <1>4 DEF Same, WorkerOK

(* Who lost the job does not get it back.                                    *)
LEMMA LostKept ==
    ASSUME IndInv, TypeOK', NEW v \in Workers, job[v] \in Jobs, RowMoves(job[v]),
           job'[v] = job[v], held'[v] = held[v], Lost(v)
    PROVE  Lost(v)'
<1> DEFINE j == job[v]
<1>1. TypeOK /\ held[v] <= attempt[j]
  BY DEF IndInv, WorkerOK
<1> SUFFICES ASSUME Owns(v)' PROVE wanted'[j]
  BY DEF Lost
<1>2. status'[j] = "running" /\ owner'[j] = IdOf[v] /\ attempt'[j] = held[v]
  BY DEF Owns
<1>3. attempt'[j] = attempt[j]
  <2>1. attempt[j] \in Nat /\ attempt'[j] \in Nat /\ held[v] \in Nat
    BY <1>1 DEF TypeOK
  <2>2. attempt'[j] >= attempt[j]
    BY DEF RowMoves
  <2>3. QED
    BY <1>1, <1>2, <2>1, <2>2
<1>4. Owns(v)
  BY <1>2, <1>3 DEF RowMoves, Owns
<1>5. wanted[j]
  BY <1>4 DEF Lost
<1>6. QED
  BY <1>2, <1>5 DEF RowMoves

LEMMA OthersLateOK ==
    ASSUME IndInv, TypeOK', \A j \in Jobs : RowMoves(j), NEW v \in Workers, Same(v)
    PROVE  LateOK(v)'
<1>1. CASE late[v] = 0
  BY <1>1 DEF Same, LateOK
<1>2. CASE late[v] # 0
  <2>1. late[v] = 1 /\ Lost(v) /\ pc[v] # "batch"
    BY <1>2 DEF IndInv, LateOK
  <2>2. job[v] \in Jobs
    BY <1>2 DEF IndInv, WorkerOK
  <2>3. Lost(v)'
    BY <2>1, <2>2, LostKept DEF Same
  <2>4. QED
    BY <2>1, <2>3 DEF Same, LateOK
<1>3. QED
  BY <1>1, <1>2
-----------------------------------------------------------------------------
(* The worker that takes the step.                                           *)

(* Back in the main loop nothing is left to say.                             *)
LEMMA IdleOK ==
    ASSUME IndInv, NEW w \in Workers, Idle(w)
    PROVE  WorkerOK(w)' /\ LateOK(w)'
BY JobsAssumption DEF IndInv, TypeOK, Idle, Goto, WorkerOK, LateOK, Working

(* A step that only moves pc to one of the exits keeps the invariant.        *)
LEMMA LeaveOK ==
    ASSUME IndInv, TypeOK', \A j \in Jobs : RowMoves(j), NEW w \in Workers,
           pc[w] # "idle", pc'[w] \in Leaving,
           job'[w] = job[w], held'[w] = held[w], done'[w] = done[w], late'[w] = late[w]
    PROVE  WorkerOK(w)' /\ LateOK(w)'
<1>1. job[w] \in Jobs /\ held[w] <= attempt[job[w]]
  BY HasJob DEF IndInv, WorkerOK
<1>2. /\ attempt'[job[w]] >= attempt[job[w]]
      /\ attempt[job[w]] \in Nat /\ attempt'[job[w]] \in Nat /\ held[w] \in Nat
  BY <1>1 DEF IndInv, TypeOK, RowMoves
<1>3. held'[w] <= attempt'[job'[w]]
  BY <1>1, <1>2
<1>4. WorkerOK(w)'
  BY <1>1, <1>3 DEF WorkerOK, Leaving, Working
<1>5. LateOK(w)'
  <2>1. CASE late[w] = 0
    BY <2>1 DEF LateOK
  <2>2. CASE late[w] # 0
    <3>1. late[w] = 1 /\ Lost(w)
      BY <2>2 DEF IndInv, LateOK
    <3>2. Lost(w)'
      BY <1>1, <3>1, LostKept
    <3>3. QED
      BY <3>1, <3>2 DEF LateOK, Leaving
  <2>3. QED
    BY <2>1, <2>2
<1>6. QED
  BY <1>4, <1>5

(* A step within the job, up to what it says of text, done and the stores.   *)
LEMMA StayOK ==
    ASSUME IndInv, TypeOK', \A j \in Jobs : RowMoves(j), NEW w \in Workers,
           pc[w] # "idle", pc'[w] \in Working,
           job'[w] = job[w], held'[w] = held[w]
    PROVE  /\ job'[w] \in Jobs
           /\ held'[w] <= attempt'[job'[w]]
           /\ late[w] = 1 => Lost(w)'
<1>1. job[w] \in Jobs /\ held[w] <= attempt[job[w]]
  BY HasJob DEF IndInv, WorkerOK
<1>2. /\ attempt'[job[w]] >= attempt[job[w]]
      /\ attempt[job[w]] \in Nat /\ attempt'[job[w]] \in Nat /\ held[w] \in Nat
  BY <1>1 DEF IndInv, TypeOK, RowMoves
<1>3. ASSUME late[w] = 1 PROVE Lost(w)'
  <2>1. Lost(w)
    BY <1>3 DEF IndInv, LateOK
  <2>2. QED
    BY <1>1, <2>1, LostKept
<1>4. QED
  BY <1>1, <1>2, <1>3

LEMMA ClaimOK ==
    ASSUME IndInv, TypeOK', NEW w \in Workers, Claim(w)
    PROVE  WorkerOK(w)' /\ LateOK(w)'
<1>1. PICK j \in Jobs : ClaimOf(w, j)
  BY ClaimsOne
<1>2. late[w] = 0 /\ done[w] = 0
  BY <1>1 DEF ClaimOf, IndInv, WorkerOK
<1>3. job'[w] = j /\ held'[w] = attempt'[j] /\ pc'[w] = "start" /\ late'[w] = 0 /\ done'[w] = 0
  BY <1>1, <1>2 DEF ClaimOf, Goto, IndInv, TypeOK
<1>4. attempt'[j] \in Nat
  BY DEF TypeOK
<1>5. QED
  BY <1>3, <1>4 DEF WorkerOK, LateOK, Working

LEMMA FetchOK ==
    ASSUME IndInv, TypeOK', \A j \in Jobs : RowMoves(j), NEW w \in Workers, Fetch(w)
    PROVE  WorkerOK(w)' /\ LateOK(w)'
<1>1. /\ pc[w] = "start" /\ done[w] = 0
      /\ job'[w] = job[w] /\ held'[w] = held[w] /\ done'[w] = done[w] /\ late'[w] = late[w]
  BY DEF Fetch, IndInv, WorkerOK
<1>2. CASE pc'[w] = "announce"
  <2>1. PICK c \in Contents : text' = [text EXCEPT ![w] = c]
    BY <1>2 DEF Fetch, Goto, IndInv, TypeOK
  <2>2. text'[w] = c
    BY <2>1 DEF IndInv, TypeOK
  <2>3. Batches[c] \in Nat
    BY JobsAssumption
  <2>4. {c} \X (1 .. 0) = {}
    OBVIOUS
  <2>5. job'[w] \in Jobs /\ held'[w] <= attempt'[job'[w]] /\ (late[w] = 1 => Lost(w)')
    BY <1>1, <1>2, StayOK DEF Working
  <2>6. late[w] = 0 \/ late[w] = 1
    BY DEF IndInv, LateOK
  <2>7. QED
    BY <1>1, <1>2, <2>2, <2>3, <2>4, <2>5, <2>6 DEF WorkerOK, LateOK, Working
<1>3. CASE pc'[w] # "announce"
  <2>1. pc'[w] \in Leaving
    BY <1>3 DEF Fetch, Goto, IndInv, TypeOK, Leaving
  <2>2. QED
    BY <1>1, <2>1, LeaveOK
<1>4. QED
  BY <1>2, <1>3

LEMMA ProgressOK ==
    ASSUME IndInv, TypeOK', \A j \in Jobs : RowMoves(j), NEW w \in Workers, Progress(w)
    PROVE  WorkerOK(w)' /\ LateOK(w)'
<1>1. /\ pc[w] \in {"announce", "report"}
      /\ UNCHANGED <<job, held, text, done, late, points>>
  BY DEF Progress, storeVars
<1>2. CASE pc'[w] \in Leaving
  BY <1>1, <1>2, LeaveOK
<1>3. CASE pc'[w] \notin Leaving
  <2>1. pc'[w] = IF MoreBatches(w) THEN "check" ELSE "catalog"
    BY <1>3 DEF Progress, Goto, IndInv, TypeOK, Leaving
  <2>2. /\ text[w] \in Contents
        /\ done[w] <= Batches[text[w]]
        /\ {text[w]} \X (1 .. done[w]) \subseteq points[DocOf[job[w]]]
    BY <1>1 DEF IndInv, WorkerOK, Working
  <2>3. Batches[text[w]] \in Nat /\ done[w] \in Nat
    BY <2>2, JobsAssumption DEF IndInv, TypeOK
  <2>4. job'[w] \in Jobs /\ held'[w] <= attempt'[job'[w]] /\ (late[w] = 1 => Lost(w)')
    BY <1>1, <2>1, StayOK DEF Working
  <2>5. late[w] = 0 \/ late[w] = 1
    BY DEF IndInv, LateOK
  <2>6. CASE MoreBatches(w)
    BY <1>1, <2>1, <2>2, <2>3, <2>4, <2>5, <2>6 DEF WorkerOK, LateOK, Working, MoreBatches
  <2>7. CASE ~MoreBatches(w)
    BY <1>1, <2>1, <2>2, <2>3, <2>4, <2>5, <2>7 DEF WorkerOK, LateOK, Working, MoreBatches
  <2>8. QED
    BY <2>6, <2>7
<1>4. QED
  BY <1>2, <1>3

LEMMA CheckCancelOK ==
    ASSUME IndInv, TypeOK', \A j \in Jobs : RowMoves(j), NEW w \in Workers, CheckCancel(w)
    PROVE  WorkerOK(w)' /\ LateOK(w)'
<1>1. /\ pc[w] = "check" /\ job[w] \in Jobs
      /\ UNCHANGED <<tableVars, job, held, text, done, late, points, wanted>>
  BY HasJob DEF CheckCancel, storeVars
<1>2. CASE pc'[w] # "batch"
  <2>1. pc'[w] = "cancelled"
    BY <1>2 DEF CheckCancel, Goto, IndInv, TypeOK
  <2>2. QED
    BY <1>1, <2>1, LeaveOK DEF Leaving
<1>3. CASE pc'[w] = "batch"
  <2>1. Owns(w) /\ ~cancel[job[w]]
    BY <1>3 DEF CheckCancel, Goto, IndInv, TypeOK
  <2>2. ~wanted[job[w]]
    BY <1>1, <2>1 DEF IndInv, CancelKept, Owns, Terminal
  <2>3. late[w] = 0
    BY <2>1, <2>2 DEF IndInv, LateOK, Lost
  <2>4. /\ text[w] \in Contents
        /\ done[w] < Batches[text[w]]
        /\ {text[w]} \X (1 .. done[w]) \subseteq points[DocOf[job[w]]]
    BY <1>1 DEF IndInv, WorkerOK, Working
  <2>5. Batches[text[w]] \in Nat /\ done[w] \in Nat
    BY <2>4, JobsAssumption DEF IndInv, TypeOK
  <2>6. job'[w] \in Jobs /\ held'[w] <= attempt'[job'[w]]
    BY <1>1, <1>3, StayOK DEF Working
  <2>7. QED
    BY <1>1, <1>3, <2>3, <2>4, <2>5, <2>6 DEF WorkerOK, LateOK, Working
<1>4. QED
  BY <1>2, <1>3

(* The one late write: before it the worker was told to go on, after it the  *)
(* worker reports first.                                                     *)
LEMMA UpsertBatchOK ==
    ASSUME IndInv, TypeOK', \A j \in Jobs : RowMoves(j), NEW w \in Workers, UpsertBatch(w)
    PROVE  WorkerOK(w)' /\ LateOK(w)'
<1> DEFINE d == DocOf[job[w]]
<1>1. /\ pc[w] = "batch" /\ job[w] \in Jobs /\ d \in Documents
      /\ UNCHANGED <<tableVars, job, held, text, wanted>>
  BY HasJob, JobsAssumption DEF UpsertBatch
<1>2. pc'[w] = "report" /\ done'[w] = done[w] + 1
  BY DEF UpsertBatch, Goto, IndInv, TypeOK
<1>3. /\ text[w] \in Contents
      /\ done[w] < Batches[text[w]]
      /\ {text[w]} \X (1 .. done[w]) \subseteq points[d]
  BY <1>1 DEF IndInv, WorkerOK, Working
<1>4. Batches[text[w]] \in Nat /\ done[w] \in Nat
  BY <1>3, JobsAssumption DEF IndInv, TypeOK
<1>5. points'[d] = points[d] \cup {<<text[w], done[w] + 1>>}
  BY <1>1 DEF UpsertBatch, IndInv, TypeOK
<1>6. {text[w]} \X (1 .. done[w] + 1) \subseteq points'[d]
  <2> SUFFICES ASSUME NEW n \in 1 .. done[w] + 1 PROVE <<text[w], n>> \in points'[d]
    OBVIOUS
  <2>1. CASE n = done[w] + 1
    BY <1>5, <2>1
  <2>2. CASE n # done[w] + 1
    <3>1. n \in 1 .. done[w]
      BY <1>4, <2>2
    <3>2. QED
      BY <1>3, <1>5, <3>1
  <2>3. QED
    BY <2>1, <2>2
<1>7. job'[w] \in Jobs /\ held'[w] <= attempt'[job'[w]]
  BY <1>1, <1>2, StayOK DEF Working
<1>8. WorkerOK(w)'
  BY <1>1, <1>2, <1>3, <1>4, <1>6, <1>7 DEF WorkerOK, Working
<1>9. LateOK(w)'
  <2>1. late[w] = 0
    BY <1>1 DEF IndInv, LateOK
  <2>2. late'[w] = IF Owns(w) /\ ~wanted[job[w]] THEN 0 ELSE 1
    BY <2>1 DEF UpsertBatch, IndInv, TypeOK
  <2>3. Lost(w)' <=> Lost(w)
    BY <1>1 DEF Lost, Owns, tableVars
  <2>4. QED
    BY <1>2, <2>2, <2>3 DEF LateOK, Lost
<1>10. QED
  BY <1>8, <1>9

LEMMA UpsertCatalogOK ==
    ASSUME IndInv, TypeOK', \A j \in Jobs : RowMoves(j), NEW w \in Workers, UpsertCatalog(w)
    PROVE  WorkerOK(w)' /\ LateOK(w)'
<1>1. /\ pc[w] = "catalog" /\ job[w] \in Jobs /\ DocOf[job[w]] \in Documents
      /\ UNCHANGED <<tableVars, points, job, held, text, done, late, wanted>>
  BY HasJob, JobsAssumption DEF UpsertCatalog
<1>2. pc'[w] = "finish"
  BY DEF UpsertCatalog, Goto, IndInv, TypeOK
<1>3. /\ text[w] \in Contents
      /\ done[w] = Batches[text[w]]
      /\ {text[w]} \X (1 .. done[w]) \subseteq points[DocOf[job[w]]]
  BY <1>1 DEF IndInv, WorkerOK, Working
<1>4. Batches[text[w]] \in Nat /\ done[w] \in Nat
  BY <1>3, JobsAssumption DEF IndInv, TypeOK
<1>5. catalog'[DocOf[job[w]]] # NoContent
  BY <1>1, <1>3, JobsAssumption DEF UpsertCatalog, IndInv, TypeOK
<1>6. job'[w] \in Jobs /\ held'[w] <= attempt'[job'[w]] /\ (late[w] = 1 => Lost(w)')
  BY <1>1, <1>2, StayOK DEF Working
<1>7. late[w] = 0 \/ late[w] = 1
  BY DEF IndInv, LateOK
<1>8. QED
  BY <1>1, <1>2, <1>3, <1>4, <1>5, <1>6, <1>7 DEF WorkerOK, LateOK, Working

(* A worker's own step keeps what the invariant says of it.                  *)
LEMMA OwnStep ==
    ASSUME IndInv, TypeOK', \A j \in Jobs : RowMoves(j), StoreMoves,
           NEW w \in Workers, WorkerStep(w) \/ Fault(w)
    PROVE  WorkerOK(w)' /\ LateOK(w)'
<1>1. CASE RequeueStale(w) \/ Replace(w) \/ Shutdown(w)
  <2>1. Same(w)
    BY <1>1 DEF RequeueStale, Replace, Shutdown, Same, workerVars
  <2>2. QED
    BY <2>1, OthersWorkerOK, OthersLateOK
<1>2. CASE FinishSuccess(w)
  <2>1. CASE Idle(w)
    BY <2>1, IdleOK
  <2>2. CASE ~Idle(w)
    <3>1. pc[w] = "finish" /\ Goto(w, "failed") /\ UNCHANGED <<job, held, done, late>>
      BY <1>2, <2>2 DEF FinishSuccess
    <3>2. pc'[w] \in Leaving
      BY <3>1 DEF Goto, IndInv, TypeOK, Leaving
    <3>3. QED
      BY <3>1, <3>2, LeaveOK
  <2>3. QED
    BY <2>1, <2>2
<1>3. CASE StepFails(w)
  <2>1. pc[w] # "idle" /\ Goto(w, "failed") /\ UNCHANGED <<job, held, done, late>>
    BY <1>3 DEF StepFails, Working
  <2>2. pc'[w] \in Leaving
    BY <2>1 DEF Goto, IndInv, TypeOK, Leaving
  <2>3. QED
    BY <2>1, <2>2, LeaveOK
<1>4. CASE FinishJob(w) \/ ReleaseJob(w) \/ Crash(w)
  BY <1>4, IdleOK DEF FinishJob, ReleaseJob, Crash
<1>5. QED
  BY <1>1, <1>2, <1>3, <1>4, ClaimOK, FetchOK, ProgressOK, CheckCancelOK, UpsertBatchOK,
     UpsertCatalogOK
  DEF WorkerStep, Fault
-----------------------------------------------------------------------------
(* Who takes part in a step: a tool or the clock leaves every worker alone.  *)
LEMMA Locals ==
    ASSUME TypeOK, [Next]_vars
    PROVE  \/ \A v \in Workers : Same(v)
           \/ \E w \in Workers :
                 (WorkerStep(w) \/ Fault(w)) /\ \A v \in Workers \ {w} : Same(v)
<1>1. CASE UNCHANGED workerVars
  BY <1>1 DEF workerVars, Same
<1>2. ASSUME NEW j \in Jobs, Tool(j) \/ LeaseOfDeadExpires(j) \/ LeaseOfSlowExpires(j)
      PROVE  UNCHANGED workerVars
  BY <1>2 DEF Tool, Enqueue, RequestCancel, RetryJob, LeaseOfDeadExpires, LeaseOfSlowExpires,
              LeaseExpires
<1>3. CASE UNCHANGED vars
  BY <1>1, <1>3 DEF vars
<1>4. ASSUME NEW w \in Workers, WorkerStep(w) \/ Fault(w)
      PROVE  \A v \in Workers \ {w} : Same(v)
  BY <1>4, OthersSame
<1>5. QED
  BY <1>1, <1>2, <1>3, <1>4 DEF Next

(* Only a claim gives a worker a job, and it counts the attempt first.       *)
LEMMA ExclusiveStep ==
    ASSUME IndInv, TypeOK', [Next]_vars
    PROVE  AttemptIsExclusive'
<1> DEFINE Keeps(v) == job'[v] = NoJob \/ (job'[v] = job[v] /\ held'[v] = held[v])
<1>0. TypeOK /\ AttemptIsExclusive
  BY DEF IndInv
<1>1. ASSUME \A v \in Workers : Keeps(v) PROVE AttemptIsExclusive'
  BY <1>0, <1>1, JobsAssumption DEF AttemptIsExclusive
<1>2. CASE \A v \in Workers : Same(v)
  BY <1>1, <1>2 DEF Same
<1>3. ASSUME NEW w \in Workers, WorkerStep(w) \/ Fault(w), \A v \in Workers \ {w} : Same(v)
      PROVE  AttemptIsExclusive'
  <2>1. CASE Claim(w)
    <3>1. PICK j \in Jobs : ClaimOf(w, j)
      BY <2>1, ClaimsOne
    <3>2. job'[w] = j /\ held'[w] = attempt[j] + 1
      BY <1>0, <3>1 DEF ClaimOf, TypeOK
    <3>3. ASSUME NEW v \in Workers \ {w}, job[v] = j PROVE held[v] # attempt[j] + 1
      <4>1. held[v] <= attempt[j]
        BY <3>3 DEF IndInv, WorkerOK
      <4>2. held[v] \in Nat /\ attempt[j] \in Nat
        BY <1>0 DEF TypeOK
      <4>3. QED
        BY <4>1, <4>2
    <3>4. QED
      BY <1>0, <1>3, <3>2, <3>3 DEF AttemptIsExclusive, Same
  <2>2. CASE Idle(w)
    BY <1>0, <1>1, <1>3, <2>2 DEF Idle, TypeOK, Same
  <2>3. CASE ~Claim(w) /\ ~Idle(w)
    <3>1. UNCHANGED <<job, held>>
      BY <1>3, <2>3
      DEF WorkerStep, Fault, RequeueStale, Fetch, Progress, CheckCancel, UpsertBatch, UpsertCatalog,
          FinishSuccess, FinishJob, ReleaseJob, Replace, StepFails, Crash, Shutdown, workerVars
    <3>2. QED
      BY <1>1, <3>1
  <2>4. QED
    BY <2>1, <2>2, <2>3
<1>4. QED
  BY <1>0, <1>2, <1>3, Locals

(* A row that has succeeded stays as it is, and only FinishSuccess makes one *)
(* succeed.                                                                  *)
LEMMA SucceededRow ==
    ASSUME IndInv, [Next]_vars, NEW j \in Jobs, status'[j] = "succeeded"
    PROVE  \/ status[j] = "succeeded" /\ processed'[j] = processed[j]
           \/ \E w \in Workers : pc[w] = "finish" /\ job[w] = j /\ processed'[j] = done[w]
<1>0. TypeOK
  BY DEF IndInv
<1>1. CASE UNCHANGED <<status, processed>>
  BY <1>1
<1>2. ASSUME NEW k \in Jobs, Enqueue(k) \/ RequestCancel(k) \/ RetryJob(k)
      PROVE  status[j] = "succeeded" /\ processed'[j] = processed[j]
  BY <1>0, <1>2 DEF Enqueue, RequestCancel, RetryJob, TypeOK
<1>3. ASSUME NEW w \in Workers, RequeueStale(w)
      PROVE  status[j] = "succeeded" /\ processed'[j] = processed[j]
  <2>1. j \notin Expired
    BY <1>3 DEF RequeueStale
  <2>2. QED
    BY <1>3, <2>1 DEF RequeueStale
<1>4. ASSUME NEW w \in Workers, Claim(w)
      PROVE  status[j] = "succeeded" /\ processed'[j] = processed[j]
  <2>1. PICK k \in Jobs : ClaimOf(w, k)
    BY <1>4, ClaimsOne
  <2>2. QED
    BY <1>0, <2>1 DEF ClaimOf, TypeOK
<1>5. ASSUME NEW w \in Workers, Progress(w)
      PROVE  status[j] = "succeeded" /\ processed'[j] = processed[j]
  <2>1. status' = status
    BY <1>5 DEF Progress
  <2>2. processed' = processed \/ (Owns(w) /\ processed' = [processed EXCEPT ![job[w]] = done[w]])
    BY <1>5 DEF Progress
  <2>3. QED
    BY <1>0, <2>1, <2>2 DEF TypeOK, Owns
<1>6. ASSUME NEW w \in Workers, FinishSuccess(w)
      PROVE  \/ status[j] = "succeeded" /\ processed'[j] = processed[j]
             \/ pc[w] = "finish" /\ job[w] = j /\ processed'[j] = done[w]
  <2>1. CASE Owns(w)
    <3>1. /\ job[w] \in Jobs /\ pc[w] = "finish"
          /\ status' = [status EXCEPT ![job[w]] = "succeeded"]
          /\ processed' = [processed EXCEPT ![job[w]] = done[w]]
      BY <1>6, <2>1 DEF FinishSuccess, Owns
    <3>2. QED
      BY <1>0, <3>1 DEF TypeOK
  <2>2. CASE ~Owns(w)
    BY <1>6, <2>2 DEF FinishSuccess
  <2>3. QED
    BY <2>1, <2>2
<1>7. ASSUME NEW w \in Workers, FinishJob(w)
      PROVE  status[j] = "succeeded" /\ processed'[j] = processed[j]
  <2>1. status' = status \/ (job[w] \in Jobs /\ status' = [status EXCEPT ![job[w]] = pc[w]])
    BY <1>7 DEF FinishJob, Owns
  <2>2. pc[w] \in {"cancelled", "failed"} /\ processed' = processed
    BY <1>7 DEF FinishJob
  <2>3. QED
    BY <1>0, <2>1, <2>2 DEF TypeOK
<1>8. ASSUME NEW w \in Workers, ReleaseJob(w)
      PROVE  status[j] = "succeeded" /\ processed'[j] = processed[j]
  <2>1. status' = status \/ (job[w] \in Jobs /\ status' = [status EXCEPT ![job[w]] = "queued"])
    BY <1>8 DEF ReleaseJob, Owns
  <2>2. processed' = processed
    BY <1>8 DEF ReleaseJob
  <2>3. QED
    BY <1>0, <2>1, <2>2 DEF TypeOK
<1>9. ASSUME NEW w \in Workers,
             \/ Fetch(w) \/ CheckCancel(w) \/ UpsertBatch(w) \/ UpsertCatalog(w) \/ Replace(w)
             \/ Fault(w)
      PROVE  UNCHANGED <<status, processed>>
  BY <1>9 DEF Fetch, CheckCancel, UpsertBatch, UpsertCatalog, Replace, Fault, StepFails, Crash,
              Shutdown, tableVars
<1>10. ASSUME NEW k \in Jobs, LeaseOfDeadExpires(k) \/ LeaseOfSlowExpires(k)
       PROVE  UNCHANGED <<status, processed>>
  BY <1>10 DEF LeaseOfDeadExpires, LeaseOfSlowExpires, LeaseExpires
<1>11. CASE UNCHANGED vars
  BY <1>1, <1>11 DEF vars, tableVars
<1>12. QED
  BY <1>1, <1>2, <1>3, <1>4, <1>5, <1>6, <1>7, <1>8, <1>9, <1>10, <1>11
  DEF Next, Tool, WorkerStep

LEMMA CompleteStep ==
    ASSUME IndInv, [Next]_vars, StoreMoves
    PROVE  SucceededIsComplete'
<1> SUFFICES ASSUME NEW j \in Jobs, status'[j] = "succeeded"
    PROVE  /\ catalog'[DocOf[j]] # NoContent
           /\ \E c \in Contents : /\ {c} \X (1 .. Batches[c]) \subseteq points'[DocOf[j]]
                                  /\ processed'[j] = Batches[c]
  BY DEF SucceededIsComplete
<1> DEFINE d == DocOf[j]
<1>1. d \in Documents /\ points[d] \subseteq points'[d]
  BY JobsAssumption DEF StoreMoves
<1>2. CASE status[j] = "succeeded" /\ processed'[j] = processed[j]
  <2>1. PICK c \in Contents :
            {c} \X (1 .. Batches[c]) \subseteq points[d] /\ processed[j] = Batches[c]
    BY <1>2 DEF IndInv, SucceededIsComplete
  <2>2. catalog[d] # NoContent
    BY <1>2 DEF IndInv, SucceededIsComplete
  <2>3. QED
    BY <1>1, <1>2, <2>1, <2>2 DEF StoreMoves
<1>3. ASSUME NEW w \in Workers, pc[w] = "finish", job[w] = j, processed'[j] = done[w]
      PROVE  /\ catalog'[d] # NoContent
             /\ \E c \in Contents : /\ {c} \X (1 .. Batches[c]) \subseteq points'[d]
                                    /\ processed'[j] = Batches[c]
  <2>1. /\ text[w] \in Contents /\ done[w] = Batches[text[w]]
        /\ {text[w]} \X (1 .. done[w]) \subseteq points[d]
        /\ catalog[d] # NoContent
    BY <1>3 DEF IndInv, WorkerOK, Working
  <2>2. QED
    BY <1>1, <1>3, <2>1 DEF StoreMoves
<1>4. QED
  BY <1>2, <1>3, SucceededRow
-----------------------------------------------------------------------------
LEMMA Inductive == IndInv /\ [Next]_vars => IndInv'
<1> SUFFICES ASSUME IndInv, [Next]_vars PROVE IndInv'
  OBVIOUS
<1>1. TypeOK' /\ StoreMoves /\ \A j \in Jobs : RowMoves(j)
  BY TypeStep, StepStore, StepRows
<1>2. \A v \in Workers : WorkerOK(v)' /\ LateOK(v)'
  <2>1. ASSUME NEW v \in Workers, Same(v) PROVE WorkerOK(v)' /\ LateOK(v)'
    BY <1>1, <2>1, OthersWorkerOK, OthersLateOK
  <2>2. ASSUME NEW w \in Workers, WorkerStep(w) \/ Fault(w) PROVE WorkerOK(w)' /\ LateOK(w)'
    BY <1>1, <2>2, OwnStep
  <2>3. TypeOK
    BY DEF IndInv
  <2>4. QED
    BY <2>1, <2>2, <2>3, Locals
<1>3. CancelKept'
  BY <1>1 DEF RowMoves, CancelKept
<1>4. AttemptIsExclusive' /\ SucceededIsComplete'
  BY <1>1, ExclusiveStep, CompleteStep
<1>5. QED
  BY <1>1, <1>2, <1>3, <1>4 DEF IndInv

THEOREM Invariance == Spec => []IndInv
<1>1. Init => IndInv
  BY InitIndInv
<1>2. IndInv /\ [Next]_vars => IndInv'
  BY Inductive
<1>3. QED
  BY <1>1, <1>2, PTL DEF Spec

(* Types are kept by every operation of the queue and the workers.           *)
THEOREM TypeCorrect == Spec => []TypeOK
<1>1. IndInv => TypeOK
  BY DEF IndInv
<1>2. QED
  BY <1>1, Invariance, PTL

(* The fence of update_progress, finish_job, release_job and                 *)
(* finish_success_with_provenance is exclusive for any number of processes,  *)
(* whatever names they run under.                                            *)
THEOREM FenceIsExclusive == Spec => []AttemptIsExclusive
<1>1. IndInv => AttemptIsExclusive
  BY DEF IndInv
<1>2. QED
  BY <1>1, Invariance, PTL

(* A worker that lost its job, or whose job was cancelled, writes at most    *)
(* one more batch, however often leases are lost and jobs are requeued.      *)
THEOREM LateWritesAreBounded == Spec => []LateWritesBounded
<1>1. IndInv => LateWritesBounded
  BY DEF IndInv, LateOK, LateWritesBounded
<1>2. QED
  BY <1>1, Invariance, PTL

(* Success means that every batch of one content and the catalog entry are   *)
(* stored and counted, for any number of batches.                            *)
THEOREM SuccessIsComplete == Spec => []SucceededIsComplete
<1>1. IndInv => SucceededIsComplete
  BY DEF IndInv
<1>2. QED
  BY <1>1, Invariance, PTL
-----------------------------------------------------------------------------
(* The refinement of JobLedger.                                              *)
outcomes == [j \in Jobs |-> OutcomeOf(j)]

LedgerStep == Ledger!LedgerNext \/ UNCHANGED <<outcomes, provenance>>

LEMMA ToolLedger ==
    ASSUME TypeOK, NEW j \in Jobs, Tool(j)
    PROVE  LedgerStep
<1>1. CASE Enqueue(j)
  <2>1. Ledger!Open(j)
    BY <1>1 DEF Enqueue, Ledger!Open, Ledger!Change, OutcomeOf, TypeOK
  <2>2. QED
    BY <2>1 DEF LedgerStep, Ledger!LedgerNext
<1>2. CASE RequestCancel(j)
  <2>1. CASE status[j] = "queued"
    <3>1. Ledger!GiveUp({j}, "cancelled")
      BY <1>2, <2>1 DEF RequestCancel, Ledger!GiveUp, OutcomeOf, TypeOK
    <3>2. {j} \in SUBSET Jobs /\ "cancelled" \in Ledger!Reopenable
      BY DEF Ledger!Reopenable
    <3>3. QED
      BY <3>1, <3>2 DEF LedgerStep, Ledger!LedgerNext
  <2>2. CASE status[j] = "running"
    <3>1. status' = status /\ provenance' = provenance
      BY <1>2, <2>2 DEF RequestCancel, TypeOK
    <3>2. QED
      BY <3>1 DEF LedgerStep, outcomes, OutcomeOf
  <2>3. QED
    BY <1>2, <2>1, <2>2 DEF RequestCancel
<1>3. CASE RetryJob(j)
  <2>1. Ledger!Reopen(j)
    BY <1>3 DEF RetryJob, Ledger!Reopen, Ledger!Change, Ledger!Reopenable, OutcomeOf, TypeOK
  <2>2. QED
    BY <2>1 DEF LedgerStep, Ledger!LedgerNext
<1>4. QED
  BY <1>1, <1>2, <1>3 DEF Tool

LEMMA RequeueLedger ==
    ASSUME TypeOK, NEW w \in Workers, RequeueStale(w)
    PROVE  LedgerStep
<1> DEFINE S == {j \in Expired : cancel[j]}
<1>1. \A j \in S : OutcomeOf(j) = "open"
  BY DEF Expired, OutcomeOf
<1>2. ASSUME NEW j \in Jobs
      PROVE  OutcomeOf(j)' = IF j \in S THEN "cancelled" ELSE OutcomeOf(j)
  <2>1. CASE j \in Expired
    BY <2>1 DEF RequeueStale, OutcomeOf, Expired
  <2>2. CASE j \notin Expired
    BY <2>2 DEF RequeueStale, OutcomeOf
  <2>3. QED
    BY <2>1, <2>2
<1>3. S \in SUBSET Jobs /\ "cancelled" \in Ledger!Reopenable
  BY DEF Expired, Ledger!Reopenable
<1>4. provenance' = provenance
  BY DEF RequeueStale
<1>5. Ledger!GiveUp(S, "cancelled")
  BY <1>1, <1>2, <1>3, <1>4 DEF Ledger!GiveUp
<1>6. QED
  BY <1>3, <1>5 DEF LedgerStep, Ledger!LedgerNext

LEMMA WorkerLedger ==
    ASSUME TypeOK, NEW w \in Workers, WorkerStep(w) \/ Fault(w)
    PROVE  LedgerStep
<1>1. ASSUME UNCHANGED <<status, provenance>> PROVE LedgerStep
  BY <1>1 DEF LedgerStep, outcomes, OutcomeOf
<1>2. CASE Claim(w)
  <2>1. PICK j \in Jobs : ClaimOf(w, j)
    BY <1>2, ClaimsOne
  <2>2. outcomes' = outcomes
    BY <2>1 DEF ClaimOf, outcomes, OutcomeOf, TypeOK
  <2>3. QED
    BY <2>1, <2>2 DEF ClaimOf, LedgerStep
<1>3. CASE FinishSuccess(w)
  <2>1. CASE Owns(w)
    <3> DEFINE j == job[w]
    <3>1. j \in Jobs /\ status[j] = "running"
      BY <2>1 DEF Owns
    <3>2. /\ status' = [status EXCEPT ![j] = "succeeded"]
          /\ provenance' = [provenance EXCEPT ![j] = @ + 1]
      BY <1>3, <2>1 DEF FinishSuccess
    <3>3. Ledger!Succeed(j)
      BY <3>1, <3>2 DEF Ledger!Succeed, Ledger!Change, OutcomeOf, TypeOK
    <3>4. QED
      BY <3>1, <3>3 DEF LedgerStep, Ledger!LedgerNext
  <2>2. CASE ~Owns(w)
    BY <1>1, <1>3, <2>2 DEF FinishSuccess
  <2>3. QED
    BY <2>1, <2>2
<1>4. CASE FinishJob(w)
  <2>1. CASE Owns(w)
    <3> DEFINE j == job[w]
    <3>1. j \in Jobs /\ status[j] = "running"
      BY <2>1 DEF Owns
    <3>2. /\ status' = [status EXCEPT ![j] = pc[w]] /\ provenance' = provenance
          /\ pc[w] \in Ledger!Reopenable
      BY <1>4, <2>1 DEF FinishJob, Ledger!Reopenable
    <3>3. Ledger!GiveUp({j}, pc[w])
      BY <3>1, <3>2 DEF Ledger!GiveUp, Ledger!Reopenable, OutcomeOf, TypeOK
    <3>4. {j} \in SUBSET Jobs
      BY <3>1
    <3>5. QED
      BY <3>2, <3>3, <3>4 DEF LedgerStep, Ledger!LedgerNext
  <2>2. CASE ~Owns(w)
    BY <1>1, <1>4, <2>2 DEF FinishJob
  <2>3. QED
    BY <2>1, <2>2
<1>5. CASE ReleaseJob(w)
  <2>1. CASE Owns(w)
    <3>1. /\ job[w] \in Jobs /\ status[job[w]] = "running"
          /\ status' = [status EXCEPT ![job[w]] = "queued"] /\ provenance' = provenance
      BY <1>5, <2>1 DEF ReleaseJob, Owns
    <3>2. outcomes' = outcomes
      BY <3>1 DEF outcomes, OutcomeOf, TypeOK
    <3>3. QED
      BY <3>1, <3>2 DEF LedgerStep
  <2>2. CASE ~Owns(w)
    BY <1>1, <1>5, <2>2 DEF ReleaseJob
  <2>3. QED
    BY <2>1, <2>2
<1>6. CASE \/ Fetch(w) \/ Progress(w) \/ CheckCancel(w) \/ UpsertBatch(w) \/ UpsertCatalog(w)
           \/ Replace(w) \/ Fault(w)
  <2>1. UNCHANGED <<status, provenance>>
    BY <1>6 DEF Fetch, Progress, CheckCancel, UpsertBatch, UpsertCatalog, Replace, Fault, StepFails,
                Crash, Shutdown, tableVars
  <2>2. QED
    BY <1>1, <2>1
<1>7. QED
  BY <1>2, <1>3, <1>4, <1>5, <1>6, RequeueLedger DEF WorkerStep

(* Every step of the queue and its workers is a step of JobLedger or none:   *)
(* a success is final and puts exactly one provenance row on record.         *)
THEOREM IngestImplementsLedger == Spec => ImplementsLedger
<1>1. Init => Ledger!LedgerInit
  BY DEF Init, Ledger!LedgerInit, OutcomeOf
<1>2. IndInv /\ [Next]_vars => [Ledger!LedgerNext]_(Ledger!ledgerVars)
  <2> SUFFICES ASSUME IndInv, [Next]_vars PROVE LedgerStep
    BY DEF LedgerStep, outcomes, Ledger!ledgerVars
  <2>1. TypeOK
    BY DEF IndInv
  <2>2. ASSUME NEW j \in Jobs, LeaseOfDeadExpires(j) \/ LeaseOfSlowExpires(j) PROVE LedgerStep
    <3>1. UNCHANGED <<status, provenance>>
      BY <2>2 DEF LeaseOfDeadExpires, LeaseOfSlowExpires, LeaseExpires
    <3>2. QED
      BY <3>1 DEF LedgerStep, outcomes, OutcomeOf
  <2>3. CASE UNCHANGED vars
    BY <2>3 DEF LedgerStep, outcomes, OutcomeOf, vars, tableVars
  <2>4. QED
    BY <2>1, <2>2, <2>3, ToolLedger, WorkerLedger DEF Next
<1>3. QED
  BY <1>1, <1>2, Invariance, PTL DEF Spec, ImplementsLedger, Ledger!LedgerSpec
=============================================================================
