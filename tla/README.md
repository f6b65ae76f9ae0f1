# memory-steward: a TLA+ model

This directory is a verification project for memory-steward. It models the
parts of the system whose correctness depends on the order of steps taken by
several processes: TLC checks the modules on small instances and TLAPS proves
the central results for every instance.

## The system

memory-steward keeps the long-term memory of coding agents: reference content
in Qdrant, its metadata in Postgres, code indexes ("CodeGraph generations") in
MinIO, served by per-generation Kubernetes deployments.

| Part | State it keeps | Operations | Talks to |
|---|---|---|---|
| Build table, `codegraph_builds.py` | one row per (source, artifact digest): state, Workflow, generation, serving | `record_event`, `pending`, `active`, `mark_*`, `complete_*`, alias and retirement queries | Postgres |
| Controller, `codegraph_controller.py` | the batch and the item of the drain loop | `drain_once` = recover, submit, observe, publish, retire; webhook `/events/flux`; `workspace_build_status` | build table, Flux, Argo, MinIO, Kubernetes |
| Intake, `flux_source.py`, `workspace_codegraph.py` | NATS subscription | parse an event, record it, acknowledge it | build table |
| Argo client and worker, `argo_workflows.py`, `codegraph_worker.py` | Workflow, bundle and result objects | create, look up; download, index, upload | Argo, MinIO |
| Publisher, `codegraph_publisher.py` | Deployments, Services, `_pruned` | `ensure`, `prune_build_ids` | Kubernetes |
| Sessions, `codegraph_plane.py` | session rows pinning a generation | bind, issue, resolve, release, tool calls | Postgres, served generations |
| Ingest queue and worker, `ingest_jobs.py`, `ingest_worker.py` | job rows with status, owner, lease, attempt, cancel flag | enqueue, claim, progress, finish, cancel, retry, release, requeue stale | Postgres, content plane |
| Content plane and catalog, `content_plane.py`, `reference_catalog.py` | points in Qdrant, catalog rows with embeddings, provenance rows | ingest text, list, purge; embedding backfill script | Qdrant, Postgres, embeddings |
| Git plane, `git_plane.py` | `git_connections`; the remote repository | connect, list, ingest a file or a repository, write a file | GitLab, GitHub, Bitbucket; content plane |
| Agent outcomes, `server.py` of the Steward | submission rows, artifacts, fragments, points | `POST /v1/agent/outcomes`, `POST /admit` | Postgres, Qdrant, embeddings, an extractor model |
| Serving Pod, `codegraph_generation_serve.py`, `codegraph_serve.py` | the table of pending requests, a child process, two volumes | download, place, handshake, request, answer, timeout | MinIO, child process |
| Router, `server.py`, `retrieval.py`, `upstream.py`, `telemetry.py`, `config.py` of `memory_router` | telemetry rows, a cache of the runtime configuration | chat completion, context, reference search and get, admission | Postgres, Qdrant, Builder model, Steward |
| Registry, `codegraph_registry.py`, `codegraph_listener.py` | index and serve work rows | discover, claim, reserve, launch, complete | Postgres |
| Cache, `cache.py` | static memory and its lock | get, refresh | Qdrant |

Hard behaviours: the controller's drain loop makes remote calls between
transactions and may be interrupted at each; a rolling update runs two of them;
webhook, watcher and loop write the same table; Argo removes Workflows by
itself; retirement removes what a session has just pinned; ingest workers lose
their lease while they still work; agents send an outcome again while its first
submission runs; FastMCP and FastAPI run synchronous handlers in a pool of threads, so
calls interleave at every request to a store; the Pod's reader, writers and main
thread share one child process that may die, hang or answer late. What should hold
of each part is in `PROJECT.json` ("hazards"), at the line where it can go wrong.

## Modules

| Module | What it is |
|---|---|
| `BuildLifecycle` | abstract: what the build table promises about one build |
| `CodegraphBuilds` | the build table, the controller's loop up to a recorded outcome, intake, Argo and the worker |
| `CodegraphServing` | the rest of the loop: publishing, aliases, retirement; workspace status requests; capability sessions |
| `JobLedger` | abstract: what the ingest queue promises about one job |
| `IngestJobs` | the queue of URL ingestions, its workers, and the points and catalog rows they write |
| `OutcomeLedger` | abstract: what outcome submission promises an agent |
| `AgentOutcome` | admission in the Steward: outcomes and chat turns, their row and the stores |
| `GenerationPod` | the container that serves one generation: boot, volumes, request table, child |
| `ReferenceStore` | the synchronous reference tools, the Git plane, the catalog and its backfill |
| `RouterRequests` | a request in the Router: stages, telemetry, configuration cache, Builder, admission thread |
| `...Proofs`, one for each detailed module | the theorems |
| `RouterTokenProofs` | the theorems about what the Router counts, on top of `RouterRequestsProofs` |
| `MC...`, one for each detailed module | constants for the TLC runs |

`CodegraphBuilds` implements `BuildLifecycle`, `IngestJobs` implements `JobLedger`
and `AgentOutcome` implements `OutcomeLedger`, each under the refinement mapping at
the end of the module. `CodegraphServing` starts where `CodegraphBuilds` ends: its
`Succeeds` is the step `CompleteSuccess`, of which `CodegraphBuildsProofs` shows that
the generation it announces exists; `GenerationPod` is what one of its Deployments
runs. `RouterRequests` ends where `AgentOutcome` begins, at `POST /admit`.
`ReferenceStore` and `IngestJobs` write the same points and catalog, one with a
caller waiting, the other from a queue. The parts share only what is named here, so
they are checked apart.

Definitions whose comment calls them a mutant or a variant are not part of any
specification: they are the ways in which a property would be broken.

### CodegraphBuilds

A row is identified by its unique key (source, digest); it is never deleted, so
the key stands for the generated id. `state`, `artifact`, `receivedAt` and
`submittedAt` are columns; the two times are positions in the order of insertion
and of submission, since the code only uses them to sort. Every store method is
one transaction and one step: `RecordEvent`, `Pending`, `ActiveRows`,
`LatestSuperseded`, and the guarded updates through `UpdateState`.

Each controller has `pc` (where it stands in `drain_once`), `batch` (rows read
by the last SELECT and not yet handled), `cur` (the row in hand) and `seen` (the
artifact Flux reported for it). Between two transactions these are stale copies.
One pass is: `RecoverList`, then `RecoverLook` and `RecoverRecord` per source;
`LoadPending`, then `Preflight` per row and either `CatchUp` and
`MarkSuperseded`, or `ArgoSubmit` and `MarkSubmitted`; `LoadActive`, then
`Observe` per row and one of `MarkRunning`, `CompleteSuccess`,
`ResultRefused`, `CompleteFailure`; `EndDrain`. `StepFails` is an exception caught
per item. `DrainRaises` is one that is not, out of a SELECT: `run_forever` logs it and
goes on, except in its first drain (`codegraph_controller.py:397`, before the `try`),
where the loop's thread ends (`stopped`) while the process serves `/healthz` and
records events. `Restart` starts the process again with a configuration of the course;
`MaxFaults` bounds the three. `config` is the `codegraph_version` and the index profile
of a process and `given` those a Workflow was submitted with: `_read_result` refuses a
result that names others, at every poll.

Outside: a member of `Courses` says what a GitRepository holds at first, how it changes
(`FluxPublishes`), what RR announces and which configurations occur.
`EventDelivered` may happen late, again, out of order or never. An event that lacks the
revision or the digest is completed field by field from the GitRepository as it is by
then (`flux_source.py:50`), so the pair recorded may be of two artifacts
(`EventArtifacts`); such a row is never current and is superseded. Argo's phases
are refined by what the worker has uploaded ("bundled", "reported").
`WorkflowExpires` is the TTL: with `LateExpiry = FALSE` a finished Workflow is
removed only after its outcome is recorded and no controller still holds the
row; with `TRUE` it may go at once, as after an hour of controller or MinIO
outage. `MaxRuns` bounds Workflow creations per build.

### CodegraphServing

Three groups of variables. Postgres: `succeeded`, `idle` (an `updated_at` older than
the serving TTL), `endpoint` (`worker_endpoint` of a workspace row), `aliasRow` and
`aliasOld` (the row of `codegraph_serving_aliases` and whether it is older than the
grace period), `binding` (the endpoint in the registry row that sessions of one run
on one build share). Kubernetes: `service`, `deploy` ("drifted": other image or
replica count than wanted) and `aliasSvc`, the build the latest Service selects.
Threads: `pc`, `cur`, `todo`, `retiring` and the process-wide `pruned`.

`Publishable`, `RetiredFlux` and `RetiredWorkspaces` are the three queries. A pass of
the loop is `LoadPublishable`; per build `TakeBuild`, the calls of `ensure`
(`CreateService`, `CreateDeployment`, `InspectDeployment`, `PatchAlias`) and
`ActivateAlias` or `MarkServed`; then `LoadRetiredFlux` and `LoadRetiredWorkspaces`
with `DeleteService` and `DeleteDeployment` per build, and `ClearEndpoints`. A status
request (`StatusRequest`) takes a thread of its own through the same calls of
`ensure`; it shares `pruned` with the loop. One Kubernetes call or one transaction is
one step, so everything may happen between them.

A session is looked up, probed, bound and created (`LookUp`, `Probe`, `Bind`,
`CreateSession`; workspaces are bound before they are probed) and ends when released
or expired. `Answers` says which generation a call to an endpoint reaches.

`Crash` restarts a process or, as in a rolling update, ends it for good while another
runs. `GraceEnds` and `TtlEnds` are the passing of time, with what the durations
mean as guards: the 120 s of grace are longer than a pass takes or a replaced
controller lives on, and within the TTL of one hour a build that was asked for has
been served. The first is a real condition: without it a controller that publishes
from an old list and then ends leaves a Deployment behind that the other's `_pruned`
hides for good.

`WorkspaceAnnounced` is a repeated event, whose insert conflicts and touches the row.

Left out: two sources of one name in different namespaces, which share an alias;
Pods that never become ready (their Deployment is kept for ever: retirement goes by
`worker_endpoint`, written only when the Pod was ready, `codegraph_builds.py:379`);
credentials and the tools a session may call; and the end of the loop's thread in its
first drain, which `CodegraphBuilds` has: the liveness properties here are about a loop
that has not been lost in this way.

### IngestJobs

The columns of `reference_ingestion_jobs` are variables of their own; `heartbeat` is
NULL, fresh or older than the lease. Every function of `ingest_jobs.py` is one
transaction and one step, guarded by `Owns`, the fence on status, worker id and
attempt. A worker goes from `Claim` through `Fetch`, `Progress`, then per batch
`CheckCancel`, `UpsertBatch`, `Progress`, to `UpsertCatalog` and `FinishSuccess`; it
leaves through `FinishJob` (cancelled or failed) or `ReleaseJob` (shutdown). Qdrant
and the catalog are not fenced: `UpsertBatch` and `UpsertCatalog` happen whoever owns
the job. `WORKER_ID` is a function of the process, not assumed injective.

`RequeueStale` requeues all expired rows, or ends them if their cancellation was
requested. A lease expires because nobody works on the job (`LeaseOfDeadExpires`) or,
as a fault, because its worker is too slow (`LeaseOfSlowExpires`). `StepFails`,
`Crash` and `Shutdown` are the other faults. `wanted` and `late` are history: a
cancellation was accepted, and how many batches a process wrote since it lost its
job or the job was cancelled.

### AgentOutcome

`status`, `request` and `result` are the row of `agent_outcome_submission`;
`references`, `facts` and `points` are `agent_reference`, `dynamic_memory` and Qdrant.
A handler (`pc`) goes `Prepare` (one transaction, the row locked: `Reserve`,
`Replay` or `Conflict`), `PersistArtifacts`, `ExtractOutcome`, `InsertFacts`,
`PutPoints`, `MarkComplete`, `Reply`; a chat turn starts at `ExtractChat` and has no
row. Every error path is `MarkFailed`, guarded as in the code by `status <>
'complete'`. `Proceed` is the one idea to know: a transaction may commit and still
raise, because the answer to the commit is lost, and then the handler goes on to
`MarkFailed` with the work done. A row that is `processing` stops nobody, so
submissions of one outcome overlap; `Crash` ends all handlers at once and `Resend` is
the agent that got an error or no answer. `abandoned` is history: the rows nobody is
left to settle.

Left out: telemetry of the handler, which never changes its answer, and the sparse
vectors, which nothing reads.

### GenerationPod

`entry` chooses between the two programs, which differ in what they compare and when,
and in how they place directories. The main thread's `boot` is `Download`,
`PlaceWorkspace`, `RestoreState`, `VerifyBinary`, `Spawn`, the requests `initialize`
and `tools/list` around `Notify`, `Listen`, `Report` (registry only), then serving.
`workspace` and `home` are on emptyDir volumes: `ContainerDies` keeps them, perhaps
half copied, `Restart` starts again on them and `ReplacePod` empties them. `MoveTo` is
`shutil.move`, which moves *into* a directory that is there.

`nextId`, `pending` and `filled` are the client's request table and its queues of one
place; a thread's `pc` is `write`, `wait`, `pop`. `LookUp` takes the waiter under the
lock, `Put` fills its queue outside of it, so a request may time out in between. The
child reads `stdin` (`PipeSize`), answers in any order, twice (`MaxEchoes`), late or
never, may be dead or hung, and may print a JSON line that is no object, which ends the
reader (`reading`). What it has been told is its state: "fresh", "greeted" by
`initialize`, "answered" when it has replied, "open" after the notification, or
"confused" by a message out of that order. `used` remembers that a container started on
volumes that were not empty.

### ReferenceStore

`file` is the branch as the provider holds it, `conns` the table `git_connections`,
`points`, `catalog` and `provenance` the stores. A call reads its connection when it
starts and keeps it. Ingestion is `ListFiles` (page by page, with each provider's
limit), `Fetch`, `UpsertBatch`, `UpsertDocument`, `RecordProvenance`, per file;
`IngestFails` is a request that fails before or after it was applied, after which a
repository goes on with its next file. `Scroll` and `Report` are `ref_list`;
`CheckFile` and `Put` are `git_write_file` with what each provider accepts;
`BackfillSelect` and `BackfillUpdate` are the script, which embeds rows it read
before. `Push`, `Purge`, `RepoAdd`, `RepoRemove` and faults are the events. The order in
which a repository's files are taken is a choice. Three variables are history:
`whole` (no purge has hit the document since it was fetched), `lasting` and `ever`
(points that were there during all, or some, of a scroll). The files a call has still to
ingest are a set, so a path listed twice is ingested once, where the code would do it
again with the same content.

Assumed of the names: no two documents run together to the same string (see Findings).

### RouterRequests

`call[c]` holds a handler's local variables; its `stage` names the telemetry step it is
in. `Enter` begins a step, `Pass`, `SearchDense`, `SearchReference`, `GetReference`,
`BuilderReplies` end it well, `Raise` ends it with an exception; `RaiseOutside` is one
that no step measures (the default model, counting tokens, ranking, stitching), and a
text of the Builder that cannot be counted is another; `StitchContext` and the two
`Write...Account` write the retrieval row; `End` closes the request's row and answers.
`NoModel` fails a context request before it has a row. `Hangs` and `AdmitHangs` are
calls without a timeout that never return. `rows`, `steps` and `accounts` are the
tables of the schema `telemetry`; each write may fail, which is logged and remembered
in `unrecorded`. `Pruned`, `Stitch` and `SelectedRefs` are the three budget
computations as functions over lists; the reranking is any choice of `TopK` different
candidates. `table`, `cached`, `fresh` and `held` are the runtime configuration, its
cache, and what a thread has read and not yet put into it. `admission` is the daemon
thread of an answered chat and `steward` what became of its `POST /admit`.

## Runs

| Run | Instance | Shows |
|---|---|---|
| `builds_safety` | 2 controllers, 1 source with 2 artifacts, 1 fault; 881,803 states | a Workflow builds its own row; one execution per build; succeeded rows are published; `BuildLifecycle` is implemented |
| `builds_progress` | 1 controller, 1 source and 1 workspace in 3 courses (branch set back, repository deleted under an upgrade, another index profile), 2 faults, Workflows may expire unobserved, fair; 338,930 states | a superseded row has a successor; received rows are handled, submitted builds end and missed artifacts are recorded, unless the code has given up in a way the property names |
| `builds_stranded` | 1 controller, content that comes back, no fault | violated: see Findings |
| `serving_flux` | 2 controllers, 2 builds of one Flux source that succeed in any order, 2 faults, fair | the alias never goes back; retirement spares the generation behind it; alias row and latest Service converge on the newest; superseded generations go |
| `serving_workspace` | 1 loop and 1 status request, 2 builds of one workspace, 1 session, fair | what was asked for is served although retirement may be deleting it; what a session uses comes back; what nobody uses goes |
| `serving_exact` | 1 loop, 2 builds, 2 sessions | violated: see Findings |
| `ingest_jobs` | 2 workers under one name, 1 job, contents of 1 and 2 batches, 1 retry, 2 faults, fair | no attempt is held twice; late writes are bounded; success is complete; `JobLedger` is implemented; every job that was enqueued ends |
| `outcome_admission` | 3 calls, 1 outcome, 2 payloads (one with a wrong hash), 1 artifact, 1 fragment, 2 faults, fair | points have rows; a completed submission is stored; a row in processing is owned; `OutcomeLedger` is implemented; an agent that repeats is told in the end |
| `pod_requests` | 2 request threads and the main thread, 2 bundles, a pipe of 1 message, 1 line too many (a repeated answer or no object), 2 faults, fair; 557,699 states | the handshake comes first; what is served was asked for; the reader moves on; every request ends |
| `pod_restarts` | 1 request thread, 1 bundle, 1 fault | violated: see Findings |
| `store_calls` | 2 calls of every tool, 2 files, 1 namespace, contents of 1 and 2 chunks, pages and batches of 1, 4 providers, the backfill, 2 events | embeddings describe their rows; what is catalogued is stored; a listing counts right; no file is silently overwritten |
| `router_requests` | 1 call of every kind of body, 2 budgets, 1 change of the budget, 1 fault (a failed write or reading, a hung call or a crash), fair; 320,604 states | telemetry says what the client was told and why; the two selections agree; the plan stays within the ceiling as far as the code keeps it there; only answered turns are admitted; every request ends or hangs in a call without a timeout |

Bounds. Two rows per source are what supersession, catch-up, recovery and
retirement relate; a third artifact with the first digest gives the revert. Two
controllers are what a rolling update runs. One fault is enough to separate any two
adjacent steps, and progress runs allow two, one for the retry (in `builds_progress` a
lost loop and its restart, or a failed step under an upgrade); the courses are the
shortest in which a source goes back, vanishes or is built under another profile, each
with the earlier event still to be delivered; `serving_workspace`
has none, its subject being the interleaving of the loop, the request and the
session. Two workers and two faults let a job be lost and taken over while the first
worker still writes; a content of two batches has a first, a last and a place between.
`BatchSize = 2` holds every received row of these instances; with 1 and an unreadable
GitRepository at the head `ReceivedRowsAreHandled` fails, because `pending()` takes the
oldest rows and such rows stay received (head-of-line blocking, listed as a hazard).

Three calls let an outcome be processed, taken on again and replayed or refused at
once, two faults a lost commit and its lost failure mark. Two requests share the pipe
and the reader, and with a pipe of one message each can be the one that is blocked;
two faults give a broken copy and a second death, after which a moved directory is
nested. Two tool calls are the pairs that can disturb each other (two
ingestions of one document, an ingestion and a listing, two writes), pages and batches
of one put every step of the other call between two pages; a file that appears or
changes needs one push, a second event separates the steps after it. One Router
request suffices because its rows are its own; what other requests do to the shared
cache is `OthersRefresh`. The token counts are small (one unit stands for some 200
tokens) but the lists make every branch happen: an item that fits, one that is passed
over for a smaller one behind it, a blank one, a history cut at a large message.

Every property is paired in `PROJECT.json` with a mutant, a plausible bug in the code
that the run finds. Type invariants are not repeated in the runs: they are proved.

The worker image and the bucket are taken to be the same for all configurations:
`given` compares the version and the profile, which `_read_result` checks.

Fairness. Each controller's loop is weakly fair: `run_forever` polls every
`idle_poll_seconds` and goes on after an exception, unless it was raised in the first
drain; nothing is assumed of a restart, and where every loop has stopped for good the
properties say so (`AllStopped`). `RecoverList` is strongly fair because the 60 second
check comes due again and again while the loop may enter a drain without it in between.
Argo and the worker are weakly fair: `activeDeadlineSeconds` ends every Workflow. Pods
start (`BecomesReady`) and the grace period passes (`GraceEnds`). An ingest worker is
weakly fair, its check for stale jobs strongly so, because it recurs every max(10,
LEASE/2) seconds while the worker may claim instead at any moment; a dead worker's
lease runs out. The handlers of the Steward and the Router are threads that run on. In
the Router the requests to the embeddings, Qdrant, the Builder and the Steward have a
timeout; `psycopg.connect` of `config.py:88`, statements after the connect timeout of
`telemetry.py:77` and the MCP client of `mcp_bridge.py:381` have none, so a call may
hang and `RequestsEnd` excepts exactly what does. That enough hung threads exhaust the
pool, and hold up requests that have not begun, is not modelled. An agent that got an
error or no answer asks again (`Resend`), as the idempotent API invites it to. In the
Pod the main thread, the reader and every request's thread run on, Kubernetes restarts
the container (`restartPolicy` is Always in a Deployment), and a child that does not
hang reads its input; nothing makes it answer. Nothing is assumed of Flux, of event
delivery, of the TTL, of Git, of the Builder or of the operator, and `store_calls`
claims no liveness. Faults are finitely many.

Deadlock is not checked: Flux, workspaces, tools and agents may fall silent for
ever, after which an exhausted instance has nothing to do but poll.

## Findings

*Content that comes back is never built again* (`builds_stranded`). Rows are
unique on the digest while `_submit_pending` and `_recover_superseded_sources`
compare revision and digest. When a later commit restores earlier content (or
changes only the revision), the catch-up insert conflicts with an existing row,
possibly the very row in hand, which is superseded; recovery conflicts for ever.

*An exact session may be led to another revision* (`serving_exact`). The registry
row of a build is keyed without the selector, and `activate_flux_binding` overwrites
its endpoint. Once a session of the same run asks for latest while that build is the
latest, the row holds the alias Service's URL, and after the alias moves on the
exact session's calls reach the newer revision. `codegraph_plane.py` promises the
"exact READY registry binding".

*A restarted generation Pod does not serve its generation* (`pod_restarts`).
`codegraph_generation_serve.py:76` moves the directories to where the emptyDir volumes
of an earlier container still hold them, whole or torn: the new copy goes *into* the old
one, the checks look only at the download, and the Pod becomes ready. A second restart
makes the move raise, and every later one, until the Pod is replaced. The documents call
the backend immutable (`docs/14_workspace_codegraph.md:52`).

Noticed while modelling; the models behave so, but no run of the project is about it:

* A Workflow may be gone before it is observed: its TTL (`argo_workflows.py:66`)
  counts from its end, so after an hour of controller or MinIO outage the row stays
  submitted or running for ever, `argo.get` failing at every poll, although
  `docs/10_codegraph_flux_operations.md:51` says that Argo should then have an object.
  `builds_progress` has such runs (`LateExpiry`), and `ActiveRowsFinish` excepts exactly
  the row whose Workflow is gone; no property claims what the document says.
* The result of a build in flight over an upgrade, or over a change of the index profile,
  is refused at every poll (`codegraph_controller.py:169`) and its row never ends.
* An exception in the first drain ends the controller's loop for good, while `/healthz`
  answers (`codegraph_controller.py:397`).
* A Flux event without metadata may be recorded with the revision of one artifact and the
  digest of another (`flux_source.py:50`); the row supersedes itself and the source stays
  without a build as in `builds_stranded`. `SupersededHasSuccessor` names the case.
* A context request that fails on the default model (`server.py:283`) leaves no telemetry
  row, though `docs/06_telemetry.md:213` says "Every completed/failed request closes its
  telemetry row"; an exception outside the measured steps (`server.py:423`,
  `retrieval.py:483`) leaves a row with an error and no failed step.
* An operator who raises the budget between its two readings, or a message of the user
  larger than MAX_TOTAL_TOKENS, makes the Router plan for more than that.
* A pinned generation may be deleted: the retirement list is checked against sessions
  when it is read (`codegraph_builds.py:337`), not when it is worked through. A
  superseded Flux build is not published again; for workspaces `SessionIsServedAgain`
  holds, the next pass brings it back.
* Chunks of changed content stay: a point's id depends on the chunk
  (`reference_catalog.py:36`) and nothing deletes a document's earlier points, though
  `docs/03_reference.md:183` says that completing a retry removes them from view.
* A replay may answer otherwise than the first reply: `_mark_outcome_complete` of a
  second submission that ran beside the first overwrites its result (`server.py:575`);
  the Steward's README speaks of "the stored completed result". What is stored is
  complete either way (`CompleteIsStored`).
* On Bitbucket `overwrite=false` does not protect: Cloud is asked with GitLab's header
  (`git_plane.py:463`), so a private file is not seen, and the server is not asked at
  all (`:480`), against the tool's description (`:823`). `NoSilentOverwrite` is about
  GitLab and GitHub, which refuse by themselves.
* A document's id hashes product, version and source run together
  (`reference_catalog.py:33`), so `ab`+`c` and `a`+`bc` are one document.
* The Router reads the Builder's model and its URL at different times
  (`upstream.py:22`), so during a change one request may send the old model to the new
  server; telemetry records the Builder's HTTP status while the client gets a 500.
* `docs/14_workspace_codegraph.md:84` says that workspace serving is not cleaned up
  automatically; `retired_workspace_serving_build_ids` does so.

## Proofs

The theorems hold for all values of the constants under the named assumptions of
the modules. Every invariant, action property and refinement that a passing run checks
is the statement of a theorem, two of them under a hypothesis that is named below;
liveness under fairness is model-checked only: it is beyond the prover. Each inductive
invariant was checked by TLC on the instance of a run before it was proved.

### CodegraphBuildsProofs

Assumed: artifacts are records of a revision and a digest, sources are of one kind,
bounds are naturals. The inductive invariant `IndInv` is

* `TypeOK`;
* `RowsInv`: a row that exists has a real artifact; workspace rows are never
  superseded;
* `LoopInv`: a controller's `cur`, `batch` and `seen` agree with the table as far
  as the code relies on it: rows it holds exist, the artifact about to be
  submitted is the row's, the Workflow exists before the row is marked, rows
  being observed were submitted;
* `ArgoInv`: Workflows and objects exist only for rows and were made from them.

The properties alone are not inductive: that a Workflow builds its row, for
example, rests on the row's artifact never changing and on `seen` having been
compared with it in an earlier step. The proof reduces every step to its effect
on one row (`RowMoves`), on Argo (`ArgoGrows`) and on one controller
(`LoopFrame`), then proves each part. `NameInv` adds that a build that can still
be submitted keeps its Workflow; it needs `~LateExpiry`, and so do the theorems
that rest on it (`OneRunPerBuild`, `BuildsImplementLifecycle`).

`SuccessorInv` is about giving a row up. A controller at "catchup" or "supersede" has
seen an artifact that was published and is not the row's; at "supersede" that artifact
is on record under its digest. So a superseded row has another row of its source beside
it, or its own digest was published with another revision: a commit that changes the
revision only, content that comes back, or an event that paired the revision of one
artifact with the digest of another. `SupersededRowsHaveSuccessors` says so for any
artifacts, events, controllers and faults; the second case is the finding of
`builds_stranded`.

### CodegraphServingProofs

`IndInv` is `TypeOK` with, for each thread, that what it has in hand has succeeded
and only a Flux build reaches the alias (`HandOK`), for each alias row, that it holds
a Flux build of its repository that succeeded (`AliasOK`), and that every build a
thread is still to delete has a successor and is behind no alias (`DoomedOK`). The
last is what a list read earlier has to keep: it survives because successes are
never taken back and `activate_serving_alias` refuses a build with a successor
(`StaysDoomed`). It gives `LatestSurvives` without any use of the grace period; with
`AliasOK` it gives `AliasMovesForward`. Convergence and cleanup are checked by TLC.

`SessionInv` rests on `IndInv` and says what sessions are led to: a session's build has
succeeded and is of the kind asked for, the shared registry row is written before the
session is created (for workspaces before the probe), the row of a workspace build never
holds the alias, and the alias Service of a repository selects only Flux builds of it
that succeeded. Hence `SessionsStayInTheirRepository`: whatever other sessions bind and
the loop moves, a call never leaves the session's repository, and a workspace session's
calls go to its own build. This bounds the finding of `serving_exact`: an exact session
may be led to another revision, but only of its own repository, and a workspace session
never.

### AgentOutcomeProofs

Assumed: payloads and outcomes are told from their absence. `IndInv` is `TypeOK` with
`CallOK` (what a call holds at each step), `WorkOK` (what it has established in the
row and the stores), `RowOK` (what a row says of them), `OwnedOK` and
`PointsHaveRows`. It is carried by one observation, `Keeps`: nothing is taken out of
the stores, no request is exchanged for another and no completed row is reopened, so
what one call has established survives whatever the others do. `ProcessingIsOwned` as
the run checks it is not inductive: a call in flight may be one that is about to be
refused, so `OwnedOK` counts only the calls that will still write the row.
`OutcomesImplementTheLedger` maps every step to one of `OutcomeLedger` or none.

### GenerationPodProofs

`VolumesOK` says what is on the volumes, and was compared, at each step of the boot; it
gives `ServesAsked`, for a generation Pod under the condition that no earlier container
has placed anything, which `pod_restarts` shows to be needed. `HandshakeOK` says, for
each phase of the main thread, who may be writing to the child's stdin, and for each
state of the child what stdin holds; the handshake comes first because the main thread
sends the notification only when the answer to `initialize` has come back through the
reader, because the adapter listens only after the notification is in the pipe, and
because the pipe keeps its order.

### ReferenceStoreProofs

Assumed: sources and points are finitely many, ids tell points apart, pages and batches
are not empty. `EmbeddingsOK` adds to `EmbeddingsDescribe` what the script knows: a row
it has read is still as it read it, or has an embedding by now and will not be
touched. `StoredOK` says which chunks of its document a call has put, under the
history `whole`; it survives other calls because points leave only by a purge.

`ScanOK` is proved on top. Its part `ListingOK` says that a listing has counted at least
the points below its offset that were there all along and at most those that were there
at some time; a page adds the points between two offsets, each once, because ids tell
points apart (`PageAdds`). At the end this is `ListCounts`. Its part `WriteOK` says that
a write without `overwrite` is under way only after the check saw no file, and with
what GitLab and GitHub refuse by themselves this gives `NoSilentOverwrite`.

### RouterRequestsProofs

`CallInv` is four parts for each call: `StageOK` (errors and open steps by stage),
`RowOK` (the request's row and the answer), `StepsOK` (which step row is open, and that
one has failed exactly when there is an error that was raised in a step) and
`AdmissionOK` (which turns the thread and the Steward may have). The lemmas reduce a
step to how the handler goes on (`Goes`) and to what was logged (`Logged`,
`StepWritten`).

### RouterTokenProofs

The three loops over the history, the text and the references are recursive functions
over lists. What they compute is proved without an induction theorem: `LoopRuns` shows
that a function with the equations of a loop exists, by joining its finite beginnings,
and `UpTo` is induction over a range of numbers, by the least counterexample, with sets
in place of predicates. `HistoryLoop`, `StitchLoop` and `RefsLoop` give each loop its
equations; `LoopsTakeAsMany` then says that `stitch_context_structured`, which builds
the text, and `selected_candidate_refs`, which fills the telemetry row, take equally
many candidates from every list, within the budget, and that none is lost between
selected, dropped and blank. The two are written apart in `retrieval.py`; one that
stopped at the first candidate that does not fit would take fewer than the other.

`TokenInv` is, per call, `BodyOK` (which request a stage is of), `BudgetOK` (history and
context are within the budgets read for them) and `AccountOK` (the retrieval row and
the answer), with the types of the counts and of the shared configuration. The two
budgets are kept apart, because the cache may be refreshed between the two places that
read it. It gives `AccountsAddUp`, `PlansFitTheCeiling` (with history kept: the ceiling
and what the budget was raised by; with none: the message and a context within its
budget, since nothing then holds the plan below the ceiling) and, with what
`RouterRequestsProofs` proves of the handlers' control, `TypeCorrect`.

### IngestJobsProofs

Assumed: finitely many jobs, at least one batch per content. `IndInv` is `TypeOK` with

* `WorkerOK`: a process that is not idle has a job, of which it holds an attempt
  that the table has counted; it has written the batches it counts, and all of them
  when it goes on to the catalog;
* `AttemptIsExclusive`: it is inductive once attempts only grow;
* `CancelKept`: an accepted cancellation stays on the row through release and
  requeue;
* `LateOK`: a process that has written late has lost its job for good, or the
  cancellation is on the row, and it is not about to write again;
* `SucceededIsComplete`.

`IngestImplementsLedger` maps every step to one of `JobLedger` or none; the requeue of
several rows at once is `GiveUp`.

### Only model-checked

* Liveness under fairness, all of it: `NoStrandedSource`, `ReceivedRowsAreHandled`,
  `ActiveRowsFinish`, `MissedArtifactIsRecorded`, `LatestConverges`,
  `OldGenerationsGo`, `RequestedIsServed`, `SessionIsServedAgain`, `IdleGenerationsGo`,
  `JobsEnd`, `RetriesSettle`, `ReaderMovesOn` and the two `RequestsEnd`.
* What remains of the build table when Workflows may expire unobserved
  (`LateExpiry = TRUE`): `OneRunPerBuild` and `BuildsImplementLifecycle` assume that
  they do not. The other theorems of `CodegraphBuildsProofs` hold for both values.
* The findings, which are counterexamples.

## Not modelled

`PROJECT.json` lists every component with its status.

* The registry: `discover` is called by the MinIO listener, but nothing in the
  repository claims, reserves, launches or completes what it records, so the order of
  those calls, which is what could go wrong, is not known. One thing can be said from
  the text: `mark_index_launch_failed` (`codegraph_registry.py:384`) is guarded by the
  generation and not by the state, so a launch reported failed late may overwrite a
  success. The row that sessions share is in `CodegraphServing`.
* The static cache (`cache.py`), whose getters have no caller.
* Tools that only read (list, inspect, preflight, reports) and static memory, whose
  writes are single statements.
* Embeddings service, list service, terminal UI, scripts and manifests: input and
  output without state of their own.

Of what is modelled, the contents are abstract: what an index, a chunk or an artifact
holds, how names and URLs are written, metrics and logs, HTTP validation, and the NATS
acknowledgements. Hazards of the code that the models do not reach, beside those listed
in `PROJECT.json` without a property: the vocabulary of the sparse vectors is extended
by threads without a lock and begins anew in every process (`server.py:378`; nothing
searches those vectors); a fragment's evidence is that of the submission that inserted
it first (`server.py:409`); a repository read page by page while it changes may be a
mixture of commits (`git_plane.py:729`); a serving Deployment has no livenessProbe
(`codegraph_publisher.py:88`), so a hung child is noticed by nobody; an admission
thread is lost with its Router (`upstream.py:71`), which `RouterRequests` does model
but nothing repairs.

## Plan

What is left, in the order in which it would pay:

1. An abstract specification of serving (one generation current per repository, which
   only moves forward and runs, and a session's calls within it) that `CodegraphServing`
   implements: the theorems of `CodegraphServingProofs` are its steps.
2. A composition of `CodegraphServing` with several `GenerationPod`s, to follow a
   session's call into a Pod that is being retired.
3. Pure algorithms as operators against reference definitions: chunk windows,
   `incremental_is_safe`, archive path safety.
4. The registry, once its launcher is part of the repository.
