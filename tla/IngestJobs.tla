----------------------------- MODULE IngestJobs -----------------------------
(***************************************************************************)
(* The durable queue of URL ingestions (table reference_ingestion_jobs,    *)
(* ingest_jobs.py) and the workers that drain it (ingest_worker.py,        *)
(* _ingest_reference_content in content_plane.py).                         *)
(*                                                                         *)
(* A worker holds a job under a lease that its progress reports renew.     *)
(* When the lease expires another worker may take the job over while the   *)
(* first, slow or cut off, still runs.  The table is protected by the      *)
(* fence (worker_id, attempt_count); Qdrant and the catalog are not.       *)
(* Each function of ingest_jobs.py is one transaction and one step.        *)
(***************************************************************************)
EXTENDS Naturals, FiniteSets

CONSTANTS
    Jobs,
    Workers,      \* worker processes
    Ids, IdOf,    \* IdOf[w]: WORKER_ID, which two processes may share
    Documents,
    DocOf,        \* DocOf[j]: the document of the job's product, version and url
    Contents,     \* what a url may answer
    Batches,      \* Batches[c]: embedding batches that content c is cut into
    NoJob, NoId, NoContent,
    MaxRetries,   \* bound: explicit retries
    MaxFaults     \* bound: shutdowns, crashes, exceptions, leases lost alive

ASSUME JobsAssumption ==
    /\ IsFiniteSet(Jobs)
    /\ NoJob \notin Jobs
    /\ NoId \notin Ids
    /\ NoContent \notin Contents
    /\ IdOf \in [Workers -> Ids]
    /\ DocOf \in [Jobs -> Documents]
    /\ Batches \in [Contents -> Nat \ {0}]

ASSUME JobBoundsAssumption == MaxRetries \in Nat /\ MaxFaults \in Nat

VARIABLES
    \* table reference_ingestion_jobs
    status,      \* status[j], "absent" without a row
    owner,       \* worker_id
    attempt,     \* attempt_count
    cancel,      \* cancel_requested
    heartbeat,   \* heartbeat_at: "none" (NULL), within the lease, or older
    processed,   \* processed_chunks, in batches
    created,     \* created_at, as a position in the order of insertion
    provenance,  \* rows of reference_ingestion written for j
    \* Qdrant and the reference catalog
    points,      \* points[d]: the batches <<content, n>> upserted for document d
    catalog,     \* catalog[d]: the content reference_documents describes
    \* each worker process
    pc, job, held, text, done, stop,
    \* history
    wanted,      \* wanted[j]: a cancellation was accepted and no retry since
    late,        \* late[w]: batches written after the job was lost or cancelled
    retries, faults

tableVars == <<status, owner, attempt, cancel, heartbeat, processed, created, provenance>>
storeVars == <<points, catalog>>
workerVars == <<pc, job, held, text, done, stop, late>>
vars == <<tableVars, storeVars, workerVars, wanted, retries, faults>>

Terminal == {"succeeded", "failed", "cancelled"}
Statuses == {"absent", "queued", "running"} \cup Terminal

Working == {"start", "announce", "check", "batch", "report", "catalog", "finish"}
Leaving == {"cancelled", "failed", "release"}
WorkerSteps == {"idle"} \cup Working \cup Leaving

TypeOK ==
    /\ status \in [Jobs -> Statuses]
    /\ owner \in [Jobs -> Ids \cup {NoId}]
    /\ attempt \in [Jobs -> Nat]
    /\ cancel \in [Jobs -> BOOLEAN]
    /\ heartbeat \in [Jobs -> {"none", "fresh", "old"}]
    /\ processed \in [Jobs -> Nat]
    /\ created \in [Jobs -> Nat]
    /\ provenance \in [Jobs -> Nat]
    /\ points \in [Documents -> SUBSET (Contents \X Nat)]
    /\ catalog \in [Documents -> Contents \cup {NoContent}]
    /\ pc \in [Workers -> WorkerSteps]
    /\ job \in [Workers -> Jobs \cup {NoJob}]
    /\ held \in [Workers -> Nat]
    /\ text \in [Workers -> Contents \cup {NoContent}]
    /\ done \in [Workers -> Nat]
    /\ stop \in [Workers -> BOOLEAN]
    /\ late \in [Workers -> Nat]
    /\ wanted \in [Jobs -> BOOLEAN]
    /\ retries \in Nat /\ faults \in Nat

Init ==
    /\ status = [j \in Jobs |-> "absent"]
    /\ owner = [j \in Jobs |-> NoId]
    /\ attempt = [j \in Jobs |-> 0]
    /\ cancel = [j \in Jobs |-> FALSE]
    /\ heartbeat = [j \in Jobs |-> "none"]
    /\ processed = [j \in Jobs |-> 0]
    /\ created = [j \in Jobs |-> 0]
    /\ provenance = [j \in Jobs |-> 0]
    /\ points = [d \in Documents |-> {}]
    /\ catalog = [d \in Documents |-> NoContent]
    /\ pc = [w \in Workers |-> "idle"]
    /\ job = [w \in Workers |-> NoJob]
    /\ held = [w \in Workers |-> 0]
    /\ text = [w \in Workers |-> NoContent]
    /\ done = [w \in Workers |-> 0]
    /\ stop = [w \in Workers |-> FALSE]
    /\ late = [w \in Workers |-> 0]
    /\ wanted = [j \in Jobs |-> FALSE]
    /\ retries = 0 /\ faults = 0

-----------------------------------------------------------------------------
(* The tools: ref_ingest_url, ref_ingest_cancel, ref_ingest_retry.           *)

Enqueue(j) ==
    /\ status[j] = "absent"
    /\ status' = [status EXCEPT ![j] = "queued"]
    /\ created' = [created EXCEPT ![j] = Cardinality({k \in Jobs : status[k] # "absent"}) + 1]
    /\ UNCHANGED <<owner, attempt, cancel, heartbeat, processed, provenance,
                   storeVars, workerVars, wanted, retries, faults>>

RequestCancel(j) ==
    /\ status[j] \in {"queued", "running"}
    /\ status' = [status EXCEPT ![j] = IF @ = "queued" THEN "cancelled" ELSE @]
    /\ cancel' = [cancel EXCEPT ![j] = IF status[j] = "running" THEN TRUE ELSE @]
    /\ wanted' = [wanted EXCEPT ![j] = TRUE]
    /\ UNCHANGED <<owner, attempt, heartbeat, processed, created, provenance,
                   storeVars, workerVars, retries, faults>>

RetryJob(j) ==
    /\ retries < MaxRetries
    /\ status[j] \in {"failed", "cancelled"}
    /\ status' = [status EXCEPT ![j] = "queued"]
    /\ owner' = [owner EXCEPT ![j] = NoId]
    /\ cancel' = [cancel EXCEPT ![j] = FALSE]
    /\ heartbeat' = [heartbeat EXCEPT ![j] = "none"]
    /\ processed' = [processed EXCEPT ![j] = 0]
    /\ wanted' = [wanted EXCEPT ![j] = FALSE]
    /\ retries' = retries + 1
    /\ UNCHANGED <<attempt, created, provenance, storeVars, workerVars, faults>>

-----------------------------------------------------------------------------
(* The worker: its main loop.                                                *)

Goto(w, step) == pc' = [pc EXCEPT ![w] = step]

(* Back to the main loop, the job forgotten.                                 *)
Idle(w) ==
    /\ Goto(w, "idle")
    /\ job' = [job EXCEPT ![w] = NoJob]
    /\ held' = [held EXCEPT ![w] = 0]
    /\ text' = [text EXCEPT ![w] = NoContent]
    /\ done' = [done EXCEPT ![w] = 0]
    /\ late' = [late EXCEPT ![w] = 0]

Expired == {j \in Jobs : status[j] = "running" /\ heartbeat[j] = "old"}

RequeueStale(w) ==
    /\ pc[w] = "idle" /\ ~stop[w]
    /\ Expired # {}
    /\ status' = [j \in Jobs |->
                    IF j \notin Expired THEN status[j]
                    ELSE IF cancel[j] THEN "cancelled" ELSE "queued"]
    /\ owner' = [j \in Jobs |-> IF j \in Expired THEN NoId ELSE owner[j]]
    /\ heartbeat' = [j \in Jobs |-> IF j \in Expired THEN "none" ELSE heartbeat[j]]
    /\ UNCHANGED <<attempt, cancel, processed, created, provenance,
                   storeVars, workerVars, wanted, retries, faults>>

(* The oldest queued row.  A row that SKIP LOCKED passes over is being       *)
(* claimed or cancelled, as if that transaction had come first.              *)
NextQueued(j) ==
    /\ status[j] = "queued"
    /\ \A k \in Jobs : status[k] = "queued" => created[j] <= created[k]

(* Mutant: only the first claim of a job counts as an attempt.               *)
ClaimSameAttempt(w) ==
    /\ pc[w] = "idle" /\ ~stop[w]
    /\ \E j \in Jobs :
         /\ NextQueued(j)
         /\ status' = [status EXCEPT ![j] = "running"]
         /\ owner' = [owner EXCEPT ![j] = IdOf[w]]
         /\ attempt' = [attempt EXCEPT ![j] = IF @ = 0 THEN 1 ELSE @]
         /\ heartbeat' = [heartbeat EXCEPT ![j] = "fresh"]
         /\ job' = [job EXCEPT ![w] = j]
         /\ held' = [held EXCEPT ![w] = attempt'[j]]
    /\ Goto(w, "start")
    /\ UNCHANGED <<cancel, processed, created, provenance, storeVars,
                   text, done, stop, late, wanted, retries, faults>>

(* Mutant: the claim clears cancel_requested along with error.               *)
ClaimClearsCancel(w) ==
    /\ pc[w] = "idle" /\ ~stop[w]
    /\ \E j \in Jobs :
         /\ NextQueued(j)
         /\ status' = [status EXCEPT ![j] = "running"]
         /\ owner' = [owner EXCEPT ![j] = IdOf[w]]
         /\ attempt' = [attempt EXCEPT ![j] = @ + 1]
         /\ cancel' = [cancel EXCEPT ![j] = FALSE]
         /\ heartbeat' = [heartbeat EXCEPT ![j] = "fresh"]
         /\ job' = [job EXCEPT ![w] = j]
         /\ held' = [held EXCEPT ![w] = attempt[j] + 1]
    /\ Goto(w, "start")
    /\ UNCHANGED <<processed, created, provenance, storeVars,
                   text, done, stop, late, wanted, retries, faults>>

Claim(w) ==
    /\ pc[w] = "idle" /\ ~stop[w]
    /\ \E j \in Jobs :
         /\ NextQueued(j)
         /\ status' = [status EXCEPT ![j] = "running"]
         /\ owner' = [owner EXCEPT ![j] = IdOf[w]]
         /\ attempt' = [attempt EXCEPT ![j] = @ + 1]
         /\ heartbeat' = [heartbeat EXCEPT ![j] = "fresh"]
         /\ job' = [job EXCEPT ![w] = j]
         /\ held' = [held EXCEPT ![w] = attempt[j] + 1]
    /\ Goto(w, "start")
    /\ UNCHANGED <<cancel, processed, created, provenance, storeVars,
                   text, done, stop, late, wanted, retries, faults>>

-----------------------------------------------------------------------------
(* The worker: one job, _process_job and _ingest_reference_content.          *)

(* WHERE id = %s AND status = 'running' AND worker_id = %s                   *)
(*   AND attempt_count = %s                                                  *)
Owns(w) ==
    LET j == job[w]
    IN  /\ j \in Jobs
        /\ status[j] = "running"
        /\ owner[j] = IdOf[w]
        /\ attempt[j] = held[w]

(* A url that cannot be fetched, or without content, raises.                 *)
Fetch(w) ==
    /\ pc[w] = "start"
    /\ \/ stop[w] /\ Goto(w, "release") /\ UNCHANGED text
       \/ ~stop[w] /\ Goto(w, "failed") /\ UNCHANGED text
       \/ /\ ~stop[w]
          /\ \E c \in Contents : text' = [text EXCEPT ![w] = c]
          /\ Goto(w, "announce")
    /\ UNCHANGED <<tableVars, storeVars, job, held, done, stop, late, wanted, retries, faults>>

(* Mutant: the last batch of a document is forgotten.                        *)
MoreBatchesShort(w) == done[w] + 1 < Batches[text[w]]

MoreBatches(w) == done[w] < Batches[text[w]]

(* progress_fn: report and renew the lease, or raise when the job is lost.   *)
Progress(w) ==
    /\ pc[w] \in {"announce", "report"}
    /\ \/ /\ Owns(w)
          /\ processed' = [processed EXCEPT ![job[w]] = done[w]]
          /\ heartbeat' = [heartbeat EXCEPT ![job[w]] = "fresh"]
          /\ Goto(w, IF stop[w] THEN "release"
                     ELSE IF MoreBatches(w) THEN "check" ELSE "catalog")
       \/ /\ ~Owns(w)
          /\ Goto(w, "failed")
          /\ UNCHANGED <<processed, heartbeat>>
    /\ UNCHANGED <<status, owner, attempt, cancel, created, provenance, storeVars,
                   job, held, text, done, stop, late, wanted, retries, faults>>

(* cancel_fn, before each batch: a lost job counts as cancelled.             *)
CheckCancel(w) ==
    /\ pc[w] = "check"
    /\ Goto(w, IF ~Owns(w) \/ cancel[job[w]] THEN "cancelled" ELSE "batch")
    /\ UNCHANGED <<tableVars, storeVars, job, held, text, done, stop, late,
                   wanted, retries, faults>>

(* Embed a batch and upsert its points; nothing fences Qdrant.               *)
UpsertBatch(w) ==
    /\ pc[w] = "batch"
    /\ points' = [points EXCEPT ![DocOf[job[w]]] = @ \cup {<<text[w], done[w] + 1>>}]
    /\ done' = [done EXCEPT ![w] = @ + 1]
    /\ late' = [late EXCEPT ![w] = IF Owns(w) /\ ~wanted[job[w]] THEN @ ELSE @ + 1]
    /\ Goto(w, "report")
    /\ UNCHANGED <<tableVars, catalog, job, held, text, stop, wanted, retries, faults>>

(* upsert_reference_document; nothing fences the catalog.                    *)
UpsertCatalog(w) ==
    /\ pc[w] = "catalog"
    /\ catalog' = [catalog EXCEPT ![DocOf[job[w]]] = text[w]]
    /\ Goto(w, "finish")
    /\ UNCHANGED <<tableVars, points, job, held, text, done, stop, late, wanted, retries, faults>>

(* Mutant: the provenance row is inserted without looking at rowcount.       *)
FinishSuccessUnchecked(w) ==
    /\ pc[w] = "finish"
    /\ status' = IF Owns(w) THEN [status EXCEPT ![job[w]] = "succeeded"] ELSE status
    /\ provenance' = [provenance EXCEPT ![job[w]] = @ + 1]
    /\ Idle(w)
    /\ UNCHANGED <<owner, attempt, cancel, heartbeat, processed, created, storeVars,
                   stop, wanted, retries, faults>>

(* finish_success_with_provenance.  When the answer to the commit is lost    *)
(* the worker goes on to report a failure.                                   *)
FinishSuccess(w) ==
    /\ pc[w] = "finish"
    /\ \/ /\ Owns(w)
          /\ status' = [status EXCEPT ![job[w]] = "succeeded"]
          /\ processed' = [processed EXCEPT ![job[w]] = done[w]]
          /\ heartbeat' = [heartbeat EXCEPT ![job[w]] = "fresh"]
          /\ provenance' = [provenance EXCEPT ![job[w]] = @ + 1]
          /\ \/ /\ Idle(w)
                /\ UNCHANGED faults
             \/ /\ faults < MaxFaults
                /\ faults' = faults + 1
                /\ Goto(w, "failed")
                /\ UNCHANGED <<job, held, text, done, late>>
       \/ /\ ~Owns(w)
          /\ Goto(w, "failed")
          /\ UNCHANGED <<status, processed, heartbeat, provenance,
                         job, held, text, done, late, faults>>
    /\ UNCHANGED <<owner, attempt, cancel, created, storeVars, stop, wanted, retries>>

(* finish_job after IngestionCancelled or any other exception.               *)
FinishJob(w) ==
    /\ pc[w] \in {"cancelled", "failed"}
    /\ \/ /\ Owns(w)
          /\ status' = [status EXCEPT ![job[w]] = pc[w]]
          /\ heartbeat' = [heartbeat EXCEPT ![job[w]] = "fresh"]
       \/ /\ ~Owns(w)
          /\ UNCHANGED <<status, heartbeat>>
    /\ Idle(w)
    /\ UNCHANGED <<owner, attempt, cancel, processed, created, provenance, storeVars,
                   stop, wanted, retries, faults>>

(* Mutant: the row is given back without its status.                         *)
ReleaseKeepsRunning(w) ==
    /\ pc[w] = "release"
    /\ \/ /\ Owns(w)
          /\ owner' = [owner EXCEPT ![job[w]] = NoId]
          /\ heartbeat' = [heartbeat EXCEPT ![job[w]] = "none"]
       \/ /\ ~Owns(w)
          /\ UNCHANGED <<owner, heartbeat>>
    /\ Idle(w)
    /\ UNCHANGED <<status, attempt, cancel, processed, created, provenance, storeVars,
                   stop, wanted, retries, faults>>

(* release_job; a cancellation requested meanwhile stays with the row.       *)
ReleaseJob(w) ==
    /\ pc[w] = "release"
    /\ \/ /\ Owns(w)
          /\ status' = [status EXCEPT ![job[w]] = "queued"]
          /\ owner' = [owner EXCEPT ![job[w]] = NoId]
          /\ heartbeat' = [heartbeat EXCEPT ![job[w]] = "none"]
       \/ /\ ~Owns(w)
          /\ UNCHANGED <<status, owner, heartbeat>>
    /\ Idle(w)
    /\ UNCHANGED <<attempt, cancel, processed, created, provenance, storeVars,
                   stop, wanted, retries, faults>>

-----------------------------------------------------------------------------
(* Time and faults.                                                          *)

(* LEASE_SECONDS pass without a report.                                      *)
LeaseExpires(j) ==
    /\ status[j] = "running" /\ heartbeat[j] = "fresh"
    /\ heartbeat' = [heartbeat EXCEPT ![j] = "old"]
    /\ UNCHANGED <<status, owner, attempt, cancel, processed, created, provenance,
                   storeVars, workerVars, wanted, retries>>

(* ... because no process works on the job any more,                         *)
LeaseOfDeadExpires(j) ==
    /\ \A w \in Workers : ~(job[w] = j /\ Owns(w))
    /\ LeaseExpires(j)
    /\ UNCHANGED faults

(* or because the one that does is slower than its lease.                    *)
LeaseOfSlowExpires(j) ==
    /\ \E w \in Workers : job[w] = j /\ Owns(w)
    /\ faults < MaxFaults
    /\ LeaseExpires(j)
    /\ faults' = faults + 1

(* Postgres, Qdrant or the embeddings raise.                                 *)
StepFails(w) ==
    /\ faults < MaxFaults
    /\ pc[w] \in Working
    /\ Goto(w, "failed")
    /\ faults' = faults + 1
    /\ UNCHANGED <<tableVars, storeVars, job, held, text, done, stop, late, wanted, retries>>

(* The process dies, or an exception handler of run raises; it is restarted. *)
Crash(w) ==
    /\ faults < MaxFaults
    /\ pc[w] \in Working \cup Leaving
    /\ Idle(w)
    /\ stop' = [stop EXCEPT ![w] = FALSE]
    /\ faults' = faults + 1
    /\ UNCHANGED <<tableVars, storeVars, wanted, retries>>

(* SIGTERM sets stop_event.                                                  *)
Shutdown(w) ==
    /\ faults < MaxFaults
    /\ ~stop[w]
    /\ stop' = [stop EXCEPT ![w] = TRUE]
    /\ faults' = faults + 1
    /\ UNCHANGED <<tableVars, storeVars, pc, job, held, text, done, late, wanted, retries>>

(* run returns, and Kubernetes starts the next process in its place.         *)
Replace(w) ==
    /\ pc[w] = "idle" /\ stop[w]
    /\ stop' = [stop EXCEPT ![w] = FALSE]
    /\ UNCHANGED <<tableVars, storeVars, pc, job, held, text, done, late, wanted, retries, faults>>

-----------------------------------------------------------------------------
Tool(j) == Enqueue(j) \/ RequestCancel(j) \/ RetryJob(j)

WorkerStep(w) ==
    \/ RequeueStale(w)
    \/ Claim(w)
    \/ Fetch(w)
    \/ Progress(w)
    \/ CheckCancel(w)
    \/ UpsertBatch(w)
    \/ UpsertCatalog(w)
    \/ FinishSuccess(w)
    \/ FinishJob(w)
    \/ ReleaseJob(w)
    \/ Replace(w)

Fault(w) == StepFails(w) \/ Crash(w) \/ Shutdown(w)

Next ==
    \/ \E j \in Jobs : Tool(j) \/ LeaseOfDeadExpires(j) \/ LeaseOfSlowExpires(j)
    \/ \E w \in Workers : WorkerStep(w) \/ Fault(w)

Spec == Init /\ [][Next]_vars

(* A worker's loop never stops for good, it checks for stale jobs again and  *)
(* again, and the lease of a job nobody works on runs out.                   *)
Fairness ==
    /\ \A w \in Workers : WF_vars(WorkerStep(w)) /\ SF_vars(RequeueStale(w))
    /\ \A j \in Jobs : WF_vars(LeaseOfDeadExpires(j))

FairSpec == Spec /\ Fairness

-----------------------------------------------------------------------------
(* Properties.                                                               *)

(* No two processes ever hold the same attempt of a job, even under one      *)
(* WORKER_ID: attempt_count is what makes the fence exclusive.               *)
AttemptIsExclusive ==
    \A v, w \in Workers :
        v # w /\ job[v] \in Jobs /\ job[v] = job[w] => held[v] # held[w]

(* A process whose job was taken over, or cancelled, writes at most the one  *)
(* batch it had already begun to Qdrant; the next claimant of a cancelled    *)
(* job, requeued with its cancellation pending, must not start over.         *)
LateWritesBounded == \A w \in Workers : late[w] <= 1

(* A succeeded job has every batch of one fetched content in Qdrant, its     *)
(* counters say so, and the document is in the catalog (ref_purge, which     *)
(* deletes points on purpose, is left out).                                  *)
SucceededIsComplete ==
    \A j \in Jobs :
        status[j] = "succeeded" =>
            /\ catalog[DocOf[j]] # NoContent
            /\ \E c \in Contents :
                /\ {c} \X (1 .. Batches[c]) \subseteq points[DocOf[j]]
                /\ processed[j] = Batches[c]

(* Success and provenance are one: the queue keeps the promise of JobLedger. *)
OutcomeOf(j) == IF status[j] \in {"queued", "running"} THEN "open" ELSE status[j]
Ledger == INSTANCE JobLedger WITH outcome <- [j \in Jobs |-> OutcomeOf(j)],
                                  recorded <- provenance
ImplementsLedger == Ledger!LedgerSpec

(* Every job that was enqueued comes to an end, through crashes, shutdowns,  *)
(* exceptions and lost leases.                                               *)
JobsEnd == \A j \in Jobs : status[j] \in {"queued", "running"} ~> status[j] \in Terminal
=============================================================================
