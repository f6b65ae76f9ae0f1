--------------------------- MODULE CodegraphBuilds --------------------------
(***************************************************************************)
(* The life of a CodeGraph build: Flux and workspace events recorded in    *)
(* table codegraph_builds (CodeGraphBuildStore), the controller's drain    *)
(* loop (CodeGraphController) that turns rows into Argo Workflows and      *)
(* Workflow outcomes into row states, and the worker that publishes the    *)
(* generation.                                                             *)
(*                                                                         *)
(* Every store method is one Postgres transaction and one step here; the   *)
(* controller's remote calls between two transactions are steps of their   *)
(* own, so events, a second controller (a rolling update runs two for a    *)
(* while), Argo and crashes interleave with them.                          *)
(***************************************************************************)
EXTENDS Naturals, FiniteSets

CONSTANTS
    FluxSources,       \* Flux GitRepository sources
    Workspaces,        \* RRWorkspace sources
    Revisions,         \* git revisions
    Digests,           \* artifact digests
    Artifacts,         \* the (revision, digest) pairs a source can publish
    Courses,           \* the courses the outside may take
    NoArtifact,        \* no artifact: an unreadable GitRepository, an unset field
    Controllers,       \* controller processes
    Configs,           \* their configurations: a codegraph_version, an index_profile
    NoConfig,
    NoBuild,
    BatchSize,         \* CODEGRAPH_CONTROLLER_BATCH_SIZE
    MaxRuns,           \* bound: Workflows ever created for one build
    MaxFaults,         \* bound: restarts, and remote calls and SELECTs that raise
    LateExpiry         \* TRUE: a finished Workflow may reach its TTL unobserved

Sources == FluxSources \cup Workspaces

(* What a row can record: a revision with a digest, not always of the same   *)
(* artifact (see EventArtifacts).                                            *)
Pairs == [rev : Revisions, dig : Digests]

ASSUME ArtifactsAssumption ==
    /\ Artifacts \subseteq Pairs
    /\ NoArtifact \notin Pairs

ASSUME SourcesAssumption == FluxSources \cap Workspaces = {}

(* A course: what each GitRepository holds at the start, the events sent     *)
(* before, the changes <<source, from, to>> of status.artifact that occur,   *)
(* the snapshots <<workspace, artifact>> that RR announces, and the          *)
(* configurations that controllers are started with.                         *)
ASSUME CoursesAssumption ==
    \A k \in Courses :
        /\ k.start \in [FluxSources -> Artifacts \cup {NoArtifact}]
        /\ k.sent \subseteq FluxSources \X Artifacts
        /\ \A s \in FluxSources : k.start[s] # NoArtifact => <<s, k.start[s]>> \in k.sent
        /\ k.snapshots \subseteq Workspaces \X Artifacts
        /\ k.configs \subseteq Configs

ASSUME ConfigsAssumption == NoConfig \notin Configs

ASSUME BoundsAssumption ==
    /\ BatchSize \in Nat \ {0}
    /\ MaxRuns \in Nat \ {0}
    /\ MaxFaults \in Nat
    /\ LateExpiry \in BOOLEAN

(* Rows are unique on (namespace, kind, name, digest) and never deleted, so  *)
(* that key stands for the row's generated id.                               *)
Builds == Sources \X Digests
SourceOf(b) == b[1]

ASSUME NoBuildAssumption == NoBuild \notin Builds

VARIABLES
    \* table codegraph_builds
    state,        \* state[b]: the state column, "absent" without a row
    artifact,     \* artifact[b]: (artifact_revision, artifact_digest) of the row
    receivedAt,   \* received_at, as a position in the order of insertion
    submittedAt,  \* submitted_at, likewise
    rows, submits, \* how many rows were inserted, how many were submitted
    \* the outside
    course,       \* the course the outside takes, the same in all states
    flux,         \* flux[s]: GitRepository status.artifact
    events,       \* the NewArtifact and workspace events sent so far
    \* Argo and the object store
    workflow,     \* workflow[b]: what became of the Workflow named after b
    built,        \* built[b]: the artifact the Workflow was given
    given,        \* given[b]: the configuration its submitter had
    runs,         \* runs[b]: Workflows ever created for b
    objects,      \* objects[b]: what the worker has uploaded
    \* each controller's drain loop
    pc, batch, cur, seen,
    \* each controller's process
    config,       \* config[c]: what it was started with
    firstDrain,   \* firstDrain[c]: it has not completed a drain yet
    faults        \* faults so far

tableVars == <<state, artifact, receivedAt, submittedAt, rows, submits>>
outsideVars == <<course, flux, events>>
argoVars == <<workflow, built, given, runs, objects>>
loopVars == <<pc, batch, cur, seen>>
processVars == <<config, firstDrain>>
vars == <<tableVars, outsideVars, argoVars, loopVars, processVars, faults>>

States == {"absent", "received", "submitted", "running",
           "succeeded", "failed", "superseded"}
Active == {"submitted", "running"}

(* A Workflow that runs is "running" until the worker has uploaded the       *)
(* generation bundle, then "bundled" until it has uploaded the result, then  *)
(* "reported"; for Argo all three are phase Running.  "none": never created, *)
(* or removed by its TTL.                                                    *)
ArgoRunning == {"running", "bundled", "reported"}
ArgoFinished == {"succeeded", "failed"}
WorkflowStates == {"none", "pending"} \cup ArgoRunning \cup ArgoFinished

RecoverSteps == {"recover", "recover_record"}
SubmitSteps == {"submit", "catchup", "supersede", "argo_submit", "mark_submitted"}
ObserveSteps == {"observe", "mark_running", "read_result", "complete_failure"}
Steps == {"idle", "stopped"} \cup RecoverSteps \cup SubmitSteps \cup ObserveSteps

TypeOK ==
    /\ state \in [Builds -> States]
    /\ artifact \in [Builds -> Pairs \cup {NoArtifact}]
    /\ receivedAt \in [Builds -> Nat]
    /\ submittedAt \in [Builds -> Nat]
    /\ rows \in Nat /\ submits \in Nat
    /\ course \in Courses
    /\ flux \in [FluxSources -> Artifacts \cup {NoArtifact}]
    /\ events \subseteq Sources \X Artifacts
    /\ workflow \in [Builds -> WorkflowStates]
    /\ built \in [Builds -> Pairs \cup {NoArtifact}]
    /\ given \in [Builds -> Configs \cup {NoConfig}]
    /\ runs \in [Builds -> Nat]
    /\ objects \in [Builds -> SUBSET {"bundle", "result"}]
    /\ pc \in [Controllers -> Steps]
    /\ batch \in [Controllers -> SUBSET Builds]
    /\ cur \in [Controllers -> Builds \cup {NoBuild}]
    /\ seen \in [Controllers -> Pairs \cup {NoArtifact}]
    /\ config \in [Controllers -> Configs]
    /\ firstDrain \in [Controllers -> BOOLEAN]
    /\ faults \in Nat

Init ==
    /\ state = [b \in Builds |-> "absent"]
    /\ artifact = [b \in Builds |-> NoArtifact]
    /\ receivedAt = [b \in Builds |-> 0]
    /\ submittedAt = [b \in Builds |-> 0]
    /\ rows = 0 /\ submits = 0
    /\ course \in Courses
    /\ flux = course.start
    /\ events = course.sent
    /\ workflow = [b \in Builds |-> "none"]
    /\ built = [b \in Builds |-> NoArtifact]
    /\ given = [b \in Builds |-> NoConfig]
    /\ runs = [b \in Builds |-> 0]
    /\ objects = [b \in Builds |-> {}]
    /\ pc = [c \in Controllers |-> "idle"]
    /\ batch = [c \in Controllers |-> {}]
    /\ cur = [c \in Controllers |-> NoBuild]
    /\ seen = [c \in Controllers |-> NoArtifact]
    /\ config \in [Controllers -> course.configs]
    /\ firstDrain = [c \in Controllers |-> TRUE]
    /\ faults = 0

-----------------------------------------------------------------------------
(* The outside: Flux publishes and RR announces workspace snapshots.  An     *)
(* event that was sent stays in events: it may be delivered late, again, out *)
(* of order or, as nothing forces a delivery, never.                         *)

FluxPublishes(s, a) ==
    /\ <<s, flux[s], a>> \in course.moves
    /\ flux' = [flux EXCEPT ![s] = a]
    /\ events' = IF a = NoArtifact THEN events ELSE events \cup {<<s, a>>}
    /\ UNCHANGED <<tableVars, course, argoVars, loopVars, processVars, faults>>

WorkspaceAnnounces(s, a) ==
    /\ <<s, a>> \in course.snapshots
    /\ <<s, a>> \notin events
    /\ events' = events \cup {<<s, a>>}
    /\ UNCHANGED <<tableVars, course, flux, argoVars, loopVars, processVars, faults>>

-----------------------------------------------------------------------------
(* The store: CodeGraphBuildStore, one transaction per operator.             *)

(* Mutant: the conflict target forgets the digest, one row per source.       *)
RecordEventOncePerSource(s, a) ==
    LET b == <<s, a.dig>>
    IN  \/ /\ \A o \in Builds : SourceOf(o) = s => state[o] = "absent"
           /\ state' = [state EXCEPT ![b] = "received"]
           /\ artifact' = [artifact EXCEPT ![b] = a]
           /\ rows' = rows + 1
           /\ receivedAt' = [receivedAt EXCEPT ![b] = rows + 1]
           /\ UNCHANGED <<submittedAt, submits>>
        \/ /\ \E o \in Builds : SourceOf(o) = s /\ state[o] # "absent"
           /\ UNCHANGED tableVars

(* INSERT ... ON CONFLICT DO NOTHING: the row of a known digest stays as it  *)
(* is, whatever its state and whatever revision now carries the digest (a    *)
(* workspace's row has its updated_at set, which only serving reads: see     *)
(* WorkspaceAnnounced of CodegraphServing).                                  *)
RecordEvent(s, a) ==
    LET b == <<s, a.dig>>
    IN  \/ /\ state[b] = "absent"
           /\ state' = [state EXCEPT ![b] = "received"]
           /\ artifact' = [artifact EXCEPT ![b] = a]
           /\ rows' = rows + 1
           /\ receivedAt' = [receivedAt EXCEPT ![b] = rows + 1]
           /\ UNCHANGED <<submittedAt, submits>>
        \/ /\ state[b] # "absent"
           /\ UNCHANGED tableVars

(* UPDATE ... WHERE id = b AND state IN from.                                *)
UpdateState(b, from, to) ==
    state' = IF state[b] \in from THEN [state EXCEPT ![b] = to] ELSE state

Oldest(b, S, stamp) == b \in S /\ \A o \in S : stamp[b] <= stamp[o]

FirstRows(S, stamp) ==
    {b \in S : Cardinality({o \in S : stamp[o] < stamp[b]}) < BatchSize}

Pending == FirstRows({b \in Builds : state[b] = "received"}, receivedAt)

ActiveRows == FirstRows({b \in Builds : state[b] \in Active}, submittedAt)

LatestSuperseded ==
    {b \in Builds :
        /\ state[b] = "superseded"
        /\ \A o \in Builds :
               SourceOf(o) = SourceOf(b) => receivedAt[o] <= receivedAt[b]}

-----------------------------------------------------------------------------
(* Ingress: POST /events/flux and the workspace event watcher.               *)

Published(s) == {a \in Artifacts : <<s, a>> \in events}

(* A Flux payload may lack the revision or the digest.  What is missing is   *)
(* filled in, each on its own, from the GitRepository as it is while the     *)
(* event is handled: the pair on record may be of two artifacts.             *)
EventArtifacts(s, a) ==
    IF s \in FluxSources
    THEN UNION {[rev : {a.rev, now.rev}, dig : {a.dig, now.dig}] : now \in Published(s)}
    ELSE {a}

EventDelivered(s, a) ==
    /\ <<s, a>> \in events
    /\ \E r \in EventArtifacts(s, a) : RecordEvent(s, r)
    /\ UNCHANGED <<outsideVars, processVars, argoVars, loopVars, faults>>

-----------------------------------------------------------------------------
(* The controller's drain loop, in its order: recover, submit, observe.      *)

Goto(c, step) == pc' = [pc EXCEPT ![c] = step]

Take(c, b) ==
    /\ batch' = [batch EXCEPT ![c] = @ \ {b}]
    /\ cur' = [cur EXCEPT ![c] = b]

(* An item is finished: back to the head of its loop.                        *)
NextItem(c, step) ==
    /\ Goto(c, step)
    /\ cur' = [cur EXCEPT ![c] = NoBuild]
    /\ seen' = [seen EXCEPT ![c] = NoArtifact]
    /\ UNCHANGED batch

(* drain_once when the 60 second recovery check is due.                      *)
RecoverList(c) ==
    /\ pc[c] = "idle"
    /\ batch' = [batch EXCEPT ![c] = LatestSuperseded]
    /\ Goto(c, "recover")
    /\ UNCHANGED <<tableVars, outsideVars, processVars, argoVars, cur, seen, faults>>

(* A workspace row is never superseded (see Preflight), so the source of     *)
(* such a row is a GitRepository.                                            *)
RecoverLook(c) ==
    /\ pc[c] = "recover"
    /\ \E b \in batch[c] :
         LET current == flux[SourceOf(b)]
         IN  \/ /\ current \in {NoArtifact, artifact[b]}
                /\ batch' = [batch EXCEPT ![c] = @ \ {b}]
                /\ UNCHANGED <<pc, cur, seen>>
             \/ /\ current \notin {NoArtifact, artifact[b]}
                /\ Take(c, b)
                /\ seen' = [seen EXCEPT ![c] = current]
                /\ Goto(c, "recover_record")
    /\ UNCHANGED <<tableVars, outsideVars, processVars, argoVars, faults>>

RecoverRecord(c) ==
    /\ pc[c] = "recover_record"
    /\ RecordEvent(SourceOf(cur[c]), seen[c])
    /\ NextItem(c, "recover")
    /\ UNCHANGED <<outsideVars, processVars, argoVars, faults>>

(* From "idle" when the check is not due or its SELECT raises, which is      *)
(* caught.                                                                   *)
LoadPending(c) ==
    /\ \/ pc[c] = "idle"
       \/ pc[c] = "recover" /\ batch[c] = {}
    /\ batch' = [batch EXCEPT ![c] = Pending]
    /\ Goto(c, "submit")
    /\ UNCHANGED <<tableVars, outsideVars, processVars, argoVars, cur, seen, faults>>

(* What a row is compared with: the snapshot itself for a workspace, the     *)
(* GitRepository's artifact now for Flux.                                    *)
Current(b) == IF SourceOf(b) \in Workspaces THEN artifact[b] ELSE flux[SourceOf(b)]

(* Mutant: only the digest is compared.                                      *)
IsCurrentByDigest(b, a) == a.dig = artifact[b].dig

IsCurrent(b, a) == a.rev = artifact[b].rev /\ a.dig = artifact[b].dig

(* Mutant: a stale row is marked superseded before its successor is recorded. *)
AfterPreflightNoCatchUp(b, a) ==
    IF IsCurrent(b, a) THEN "argo_submit" ELSE "supersede"

AfterPreflight(b, a) == IF IsCurrent(b, a) THEN "argo_submit" ELSE "catchup"

(* Mutant: the exception of an unreadable GitRepository ends the whole drain. *)
PreflightAborting(c) ==
    /\ pc[c] = "submit"
    /\ \E b \in batch[c] :
         /\ Oldest(b, batch[c], receivedAt)
         /\ \/ /\ Current(b) = NoArtifact
               /\ batch' = [batch EXCEPT ![c] = {}]
               /\ Goto(c, "idle")
               /\ UNCHANGED <<cur, seen>>
            \/ /\ Current(b) # NoArtifact
               /\ Take(c, b)
               /\ seen' = [seen EXCEPT ![c] = Current(b)]
               /\ Goto(c, AfterPreflight(b, Current(b)))
    /\ UNCHANGED <<tableVars, outsideVars, processVars, argoVars, faults>>

(* An unreadable GitRepository raises; the row stays received.               *)
Preflight(c) ==
    /\ pc[c] = "submit"
    /\ \E b \in batch[c] :
         /\ Oldest(b, batch[c], receivedAt)
         /\ \/ /\ Current(b) = NoArtifact
               /\ batch' = [batch EXCEPT ![c] = @ \ {b}]
               /\ UNCHANGED <<pc, cur, seen>>
            \/ /\ Current(b) # NoArtifact
               /\ Take(c, b)
               /\ seen' = [seen EXCEPT ![c] = Current(b)]
               /\ Goto(c, AfterPreflight(b, Current(b)))
    /\ UNCHANGED <<tableVars, outsideVars, processVars, argoVars, faults>>

CatchUp(c) ==
    /\ pc[c] = "catchup"
    /\ RecordEvent(SourceOf(cur[c]), seen[c])
    /\ Goto(c, "supersede")
    /\ UNCHANGED <<outsideVars, processVars, argoVars, batch, cur, seen, faults>>

MarkSuperseded(c) ==
    /\ pc[c] = "supersede"
    /\ UpdateState(cur[c], {"received"}, "superseded")
    /\ NextItem(c, "submit")
    /\ UNCHANGED <<artifact, receivedAt, submittedAt, rows, submits,
                   outsideVars, processVars, argoVars, faults>>

(* Mutant: a generated name, so a retry creates a second Workflow.           *)
ArgoSubmitFreshName(c) ==
    /\ pc[c] = "argo_submit"
    /\ runs[cur[c]] < MaxRuns
    /\ workflow' = [workflow EXCEPT ![cur[c]] = "pending"]
    /\ built' = [built EXCEPT ![cur[c]] = seen[c]]
    /\ given' = [given EXCEPT ![cur[c]] = config[c]]
    /\ runs' = [runs EXCEPT ![cur[c]] = @ + 1]
    /\ Goto(c, "mark_submitted")
    /\ UNCHANGED <<tableVars, outsideVars, processVars, objects, batch, cur, seen, faults>>

(* The Workflow is named after the build: creating it again answers 409 and  *)
(* the existing one is taken.                                                *)
ArgoSubmit(c) ==
    /\ pc[c] = "argo_submit"
    /\ LET b == cur[c]
       IN  \/ /\ workflow[b] = "none"
              /\ runs[b] < MaxRuns
              /\ workflow' = [workflow EXCEPT ![b] = "pending"]
              /\ built' = [built EXCEPT ![b] = seen[c]]
              /\ given' = [given EXCEPT ![b] = config[c]]
              /\ runs' = [runs EXCEPT ![b] = @ + 1]
              /\ UNCHANGED objects
           \/ /\ workflow[b] # "none"
              /\ UNCHANGED argoVars
    /\ Goto(c, "mark_submitted")
    /\ UNCHANGED <<tableVars, outsideVars, processVars, batch, cur, seen, faults>>

MarkSubmitted(c) ==
    /\ pc[c] = "mark_submitted"
    /\ LET b == cur[c]
       IN  \/ /\ state[b] = "received"
              /\ state' = [state EXCEPT ![b] = "submitted"]
              /\ submits' = submits + 1
              /\ submittedAt' = [submittedAt EXCEPT ![b] = submits + 1]
              /\ UNCHANGED <<artifact, receivedAt, rows>>
           \/ /\ state[b] # "received"
              /\ UNCHANGED tableVars
    /\ NextItem(c, "submit")
    /\ UNCHANGED <<outsideVars, processVars, argoVars, faults>>

LoadActive(c) ==
    /\ pc[c] = "submit" /\ batch[c] = {}
    /\ batch' = [batch EXCEPT ![c] = ActiveRows]
    /\ Goto(c, "observe")
    /\ UNCHANGED <<tableVars, outsideVars, processVars, argoVars, cur, seen, faults>>

(* Mutant: the phases Failed and Error are not recognised.                   *)
AfterObserveNoFailure(w) ==
    CASE w \in ArgoRunning -> "mark_running"
      [] w = "succeeded" -> "read_result"
      [] OTHER -> "observe"

(* argo.get: a missing Workflow raises and a pending one needs nothing.      *)
AfterObserve(w) ==
    CASE w \in ArgoRunning -> "mark_running"
      [] w = "succeeded" -> "read_result"
      [] w = "failed" -> "complete_failure"
      [] OTHER -> "observe"

Observe(c) ==
    /\ pc[c] = "observe"
    /\ \E b \in batch[c] :
         LET step == AfterObserve(workflow[b])
         IN  /\ Oldest(b, batch[c], submittedAt)
             /\ batch' = [batch EXCEPT ![c] = @ \ {b}]
             /\ cur' = [cur EXCEPT ![c] = IF step = "observe" THEN NoBuild ELSE b]
             /\ Goto(c, step)
    /\ UNCHANGED <<tableVars, outsideVars, processVars, argoVars, seen, faults>>

(* Mutant: the UPDATE forgets AND state = 'submitted'.                       *)
MarkRunningUnguarded(c) ==
    /\ pc[c] = "mark_running"
    /\ UpdateState(cur[c], States, "running")
    /\ NextItem(c, "observe")
    /\ UNCHANGED <<artifact, receivedAt, submittedAt, rows, submits,
                   outsideVars, processVars, argoVars, faults>>

MarkRunning(c) ==
    /\ pc[c] = "mark_running"
    /\ UpdateState(cur[c], {"submitted"}, "running")
    /\ NextItem(c, "observe")
    /\ UNCHANGED <<artifact, receivedAt, submittedAt, rows, submits,
                   outsideVars, processVars, argoVars, faults>>

(* The worker's result repeats the parameters of its Workflow; the profile   *)
(* of a workspace is always "full".                                          *)
SameConfig(c, b) ==
    /\ given[b].version = config[c].version
    /\ SourceOf(b) \in FluxSources => given[b].profile = config[c].profile

(* _read_result: the result object exists, names the row's own artifact and  *)
(* was made with the reader's version and profile; otherwise it raises       *)
(* (ResultRefused, or StepFails for the call itself).                        *)
ResultAccepted(c, b) ==
    "result" \in objects[b] /\ built[b] = artifact[b] /\ SameConfig(c, b)

CompleteSuccess(c) ==
    /\ pc[c] = "read_result"
    /\ ResultAccepted(c, cur[c])
    /\ UpdateState(cur[c], Active, "succeeded")
    /\ NextItem(c, "observe")
    /\ UNCHANGED <<artifact, receivedAt, submittedAt, rows, submits,
                   outsideVars, processVars, argoVars, faults>>

(* The row stays as it is and is looked at again in the next drain.          *)
ResultRefused(c) ==
    /\ pc[c] = "read_result"
    /\ ~ResultAccepted(c, cur[c])
    /\ NextItem(c, "observe")
    /\ UNCHANGED <<tableVars, outsideVars, processVars, argoVars, faults>>

CompleteFailure(c) ==
    /\ pc[c] = "complete_failure"
    /\ UpdateState(cur[c], {"received"} \cup Active, "failed")
    /\ NextItem(c, "observe")
    /\ UNCHANGED <<artifact, receivedAt, submittedAt, rows, submits,
                   outsideVars, processVars, argoVars, faults>>

EndDrain(c) ==
    /\ pc[c] = "observe" /\ batch[c] = {}
    /\ Goto(c, "idle")
    /\ firstDrain' = [firstDrain EXCEPT ![c] = FALSE]
    /\ UNCHANGED <<tableVars, outsideVars, config, argoVars, batch, cur, seen, faults>>

(* A Flux, Argo, MinIO or Postgres call raises: the item is logged and       *)
(* skipped, its row is left for a later drain.                               *)
LoopHead(step) ==
    CASE step \in RecoverSteps -> "recover"
      [] step \in SubmitSteps -> "submit"
      [] step \in ObserveSteps -> "observe"

StepFails(c) ==
    /\ faults < MaxFaults
    /\ cur[c] # NoBuild
    /\ NextItem(c, LoopHead(pc[c]))
    /\ faults' = faults + 1
    /\ UNCHANGED <<tableVars, outsideVars, processVars, argoVars>>

(* drain_once raises out of a SELECT (pending, active, or those of the       *)
(* serving part behind them).  run_forever starts over, but not after its    *)
(* first drain, which is outside the try: the loop's thread ends there, and  *)
(* the process goes on to serve /healthz and to record events without it.    *)
DrainRaises(c) ==
    /\ faults < MaxFaults
    /\ pc[c] \in {"idle", "recover", "submit", "observe"} /\ batch[c] = {}
    /\ Goto(c, IF firstDrain[c] THEN "stopped" ELSE "idle")
    /\ faults' = faults + 1
    /\ UNCHANGED <<tableVars, outsideVars, processVars, argoVars, batch, cur, seen>>

(* The process dies or is replaced, and is started with its configuration or *)
(* another.                                                                  *)
Restart(c) ==
    /\ faults < MaxFaults
    /\ \E k \in course.configs : config' = [config EXCEPT ![c] = k]
    /\ firstDrain' = [firstDrain EXCEPT ![c] = TRUE]
    /\ pc' = [pc EXCEPT ![c] = "idle"]
    /\ batch' = [batch EXCEPT ![c] = {}]
    /\ cur' = [cur EXCEPT ![c] = NoBuild]
    /\ seen' = [seen EXCEPT ![c] = NoArtifact]
    /\ faults' = faults + 1
    /\ UNCHANGED <<tableVars, outsideVars, argoVars>>

-----------------------------------------------------------------------------
(* Argo and the worker (run_flux_index).                                     *)

WorkflowMoves(b, from, to) ==
    /\ workflow[b] \in from
    /\ workflow' = [workflow EXCEPT ![b] = to]
    /\ UNCHANGED <<tableVars, outsideVars, processVars, loopVars, faults>>

WorkflowStarts(b) ==
    /\ WorkflowMoves(b, {"pending"}, "running")
    /\ UNCHANGED <<built, given, runs, objects>>

WorkerUploadsBundle(b) ==
    /\ WorkflowMoves(b, {"running"}, "bundled")
    /\ objects' = [objects EXCEPT ![b] = @ \cup {"bundle"}]
    /\ UNCHANGED <<built, given, runs>>

(* Mutant: the result is uploaded without waiting for the bundle.            *)
WorkerUploadsResultEarly(b) ==
    /\ WorkflowMoves(b, {"running", "bundled"}, "reported")
    /\ objects' = [objects EXCEPT ![b] = @ \cup {"result"}]
    /\ UNCHANGED <<built, given, runs>>

WorkerUploadsResult(b) ==
    /\ WorkflowMoves(b, {"bundled"}, "reported")
    /\ objects' = [objects EXCEPT ![b] = @ \cup {"result"}]
    /\ UNCHANGED <<built, given, runs>>

WorkflowSucceeds(b) ==
    /\ WorkflowMoves(b, {"reported"}, "succeeded")
    /\ UNCHANGED <<built, given, runs, objects>>

WorkflowFails(b) ==
    /\ WorkflowMoves(b, {"pending"} \cup ArgoRunning, "failed")
    /\ UNCHANGED <<built, given, runs, objects>>

(* ttlStrategy removes a finished Workflow an hour (a day after a failure)   *)
(* after it ended, far longer than one drain of the loop.  LateExpiry lets   *)
(* that happen before any controller has recorded the outcome.               *)
WorkflowExpires(b) ==
    /\ \A c \in Controllers : cur[c] # b /\ b \notin batch[c]
    /\ LateExpiry \/ state[b] \notin {"received"} \cup Active
    /\ WorkflowMoves(b, ArgoFinished, "none")
    /\ UNCHANGED <<built, given, runs, objects>>

-----------------------------------------------------------------------------
Environment ==
    \/ \E s \in FluxSources : \E a \in Artifacts \cup {NoArtifact} : FluxPublishes(s, a)
    \/ \E s \in Workspaces, a \in Artifacts : WorkspaceAnnounces(s, a)
    \/ \E s \in Sources, a \in Artifacts : EventDelivered(s, a)

DrainStep(c) ==
    \/ RecoverList(c)
    \/ RecoverLook(c)
    \/ RecoverRecord(c)
    \/ LoadPending(c)
    \/ Preflight(c)
    \/ CatchUp(c)
    \/ MarkSuperseded(c)
    \/ ArgoSubmit(c)
    \/ MarkSubmitted(c)
    \/ LoadActive(c)
    \/ Observe(c)
    \/ MarkRunning(c)
    \/ CompleteSuccess(c)
    \/ ResultRefused(c)
    \/ CompleteFailure(c)
    \/ EndDrain(c)

Fault(c) == StepFails(c) \/ DrainRaises(c) \/ Restart(c)

WorkflowStep(b) ==
    \/ WorkflowStarts(b)
    \/ WorkerUploadsBundle(b)
    \/ WorkerUploadsResult(b)
    \/ WorkflowSucceeds(b)
    \/ WorkflowFails(b)

Next ==
    \/ Environment
    \/ \E c \in Controllers : DrainStep(c) \/ Fault(c)
    \/ \E b \in Builds : WorkflowStep(b) \/ WorkflowExpires(b)

Spec == Init /\ [][Next]_vars

(* A drain loop that has not lost its thread goes on (run_forever polls),    *)
(* its recovery check comes due every 60 seconds, and Argo brings a Workflow *)
(* to an end within its activeDeadlineSeconds.  Nothing is assumed of        *)
(* events, of Flux and of restarts: a loop that has stopped may stay so.     *)
Fairness ==
    /\ \A c \in Controllers : WF_vars(DrainStep(c)) /\ SF_vars(RecoverList(c))
    /\ \A b \in Builds : WF_vars(WorkflowStep(b))

FairSpec == Spec /\ Fairness

-----------------------------------------------------------------------------
(* Properties.                                                               *)

(* A Workflow is always given the artifact its row records, although the     *)
(* controller takes url, revision and digest from a second look at Flux.     *)
WorkflowBuildsItsRow == \A b \in Builds : runs[b] > 0 => built[b] = artifact[b]

(* The deterministic Workflow name makes every retry converge: no build is   *)
(* executed twice, whoever submits it and whenever the submitter crashes.    *)
AtMostOneRun == \A b \in Builds : runs[b] <= 1

(* A succeeded row has both its bundle and its result in the object store,   *)
(* and they were computed from the row's own artifact.                       *)
SucceededIsPublished ==
    \A b \in Builds :
        state[b] = "succeeded" =>
            objects[b] = {"bundle", "result"} /\ built[b] = artifact[b]

(* The table, the controllers and Argo together keep the promise of          *)
(* BuildLifecycle: legal row moves only, one execution, submitted after it.  *)
Lifecycle == INSTANCE BuildLifecycle WITH life <- state, launches <- runs
ImplementsLifecycle == Lifecycle!LifecycleSpec

(* A row is given up only after the artifact that replaced it is on record:  *)
(* "a failed write cannot discard the only route to the latest build".  The  *)
(* exception is an artifact with the row's own digest and another revision,  *)
(* which the unique key keeps from ever having a row.                        *)
SupersededHasSuccessor ==
    \A b \in Builds :
        state[b] = "superseded" =>
            \/ \E o \in Builds \ {b} : SourceOf(o) = SourceOf(b) /\ state[o] # "absent"
            \/ \E a \in Published(SourceOf(b)) : a.dig = b[2] /\ a.rev # artifact[b].rev

(* No controller has its drain loop any more: each lost it to a SELECT that  *)
(* raised in the first drain, and none has been restarted.                   *)
AllStopped == \A c \in Controllers : pc[c] = "stopped"

(* A recorded event is submitted or superseded in the end, unless its own    *)
(* GitRepository became unreadable or no drain loop is left: neither faults  *)
(* nor another source's unreadable repository can hold it up.                *)
ReceivedRowsAreHandled ==
    \A b \in Builds :
        \/ <>[]AllStopped
        \/ []<>(\/ state[b] # "received"
                \/ SourceOf(b) \in FluxSources /\ flux[SourceOf(b)] = NoArtifact)

(* The outcome of b is lost to controller c: its loop has stopped, or it was *)
(* upgraded and refuses the result of its predecessor's Workflow at every    *)
(* poll.                                                                     *)
Refuses(c, b) ==
    pc[c] = "stopped" \/ (workflow[b] = "succeeded" /\ ~SameConfig(c, b))

(* A submitted build reaches a terminal state, unless its Workflow is gone   *)
(* from Argo unobserved or its outcome is lost to every controller, in both  *)
(* cases for good.                                                           *)
ActiveRowsFinish ==
    \A b \in Builds :
        \/ []<>(state[b] \notin Active)
        \/ <>[](workflow[b] = "none")
        \/ <>[](\A c \in Controllers : Refuses(c, b))

(* The newest row of s was superseded, and what Flux holds now has no row.   *)
Missed(s) ==
    /\ flux[s] # NoArtifact
    /\ \E b \in LatestSuperseded : SourceOf(b) = s
    /\ state[<<s, flux[s].dig>>] = "absent"

(* An artifact whose event was lost does not stay unrecorded once the row    *)
(* before it was given up: the recovery check finds it without any event, as *)
(* long as one drain loop is left.                                           *)
MissedArtifactIsRecorded ==
    \A s \in FluxSources : <>[]AllStopped \/ []<>~Missed(s)

(* The newest row of s was superseded, and what Flux holds now has no row    *)
(* that is, or was, being built.                                             *)
Stranded(s) ==
    /\ flux[s] # NoArtifact
    /\ \E b \in LatestSuperseded : SourceOf(b) = s
    /\ state[<<s, flux[s].dig>>] \in {"absent", "superseded"}

(* "Repair a missed final NewArtifact after restart or notification lag": a  *)
(* source whose last event was superseded does not stay without a build.     *)
NoStrandedSource == \A s \in FluxSources : []<>~Stranded(s)
=============================================================================
