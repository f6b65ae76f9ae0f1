--------------------------- MODULE CodegraphServing ---------------------------
(***************************************************************************)
(* How built generations are served and retired: the second half of the    *)
(* controller's drain_once with codegraph_publisher.py, the status request *)
(* of workspace builds that runs beside it in the same process, and the    *)
(* capability sessions of codegraph_plane.py that lead agents to a         *)
(* generation.                                                             *)
(*                                                                         *)
(* A generation is served by a Service and a Deployment of its own.  The   *)
(* newest one of a Flux source is also behind its repository's "latest"    *)
(* Service, which the row in codegraph_serving_aliases records.  Database  *)
(* and Kubernetes are changed by separate calls, in several threads and,   *)
(* while the controller is replaced, in two processes.                     *)
(***************************************************************************)
EXTENDS Naturals, FiniteSets

CONSTANTS
    Builds,       \* builds that may succeed
    SourceOf,     \* SourceOf[b]
    Received,     \* Received[b]: (received_at, id) as a number
    Workspaces,   \* sources of kind RRWorkspace; the others are Flux sources
    Repositories,
    RepoOf,       \* RepoOf[s]: source_name, the key of a Flux source's alias
    Processes,    \* controller processes
    Loops,        \* the thread of each that runs run_forever
    Requests,     \* threads that answer workspace status requests
    Host,         \* Host[t]: the process of thread t
    Sessions,     \* capability sessions, all of one project, run and realm
    NoBuild,
    MaxFaults     \* bound: failed calls, crashes, Deployments that change

ASSUME ServingAssumption ==
    /\ NoBuild \notin Builds
    /\ Received \in [Builds -> Nat]
    /\ \A a, b \in Builds : SourceOf[a] = SourceOf[b] /\ Received[a] = Received[b] => a = b
    /\ \A b \in Builds : RepoOf[SourceOf[b]] \in Repositories
    /\ Loops \cap Requests = {}
    /\ Host \in [Loops \cup Requests -> Processes]
    /\ MaxFaults \in Nat

Threads == Loops \cup Requests

VARIABLES
    \* Postgres
    succeeded,   \* rows that succeeded with a generation
    idle,        \* idle[b]: updated_at is older than the serving TTL
    endpoint,    \* endpoint[b]: worker_endpoint is set (workspace rows)
    aliasRow,    \* aliasRow[r]: build_id of the alias, or NoBuild
    aliasOld,    \* aliasOld[r]: its updated_at is older than the grace period
    binding,     \* binding[b]: endpoint in the registry row of b: "own" or "alias"
    \* Kubernetes
    service,     \* service[b]
    deploy,      \* deploy[b]
    aliasSvc,    \* aliasSvc[r]: the build the latest Service selects
    \* threads and processes
    pc, cur, todo, retiring,
    pruned,      \* pruned[p]: _pruned of the publisher
    \* sessions
    step, kind, build,
    faults

dbVars == <<succeeded, idle, endpoint, aliasRow, aliasOld, binding>>
k8sVars == <<service, deploy, aliasSvc>>
threadVars == <<pc, cur, todo, retiring, pruned>>
sessionVars == <<step, kind, build>>
vars == <<dbVars, k8sVars, threadVars, sessionVars, faults>>

Ensuring == {"service", "deployment", "inspect", "alias", "activate", "mark"}
Retiring == {"retire", "undeploy"}
ThreadSteps == {"idle", "publish", "gone"} \cup Ensuring \cup Retiring
Phases == {"flux", "workspace"}

DatabaseTypeOK ==
    /\ succeeded \subseteq Builds
    /\ idle \in [Builds -> BOOLEAN]
    /\ endpoint \in [Builds -> BOOLEAN]
    /\ aliasRow \in [Repositories -> Builds \cup {NoBuild}]
    /\ aliasOld \in [Repositories -> BOOLEAN]
    /\ binding \in [Builds -> {"none", "own", "alias"}]

ClusterTypeOK ==
    /\ service \in [Builds -> BOOLEAN]
    /\ deploy \in [Builds -> {"none", "starting", "ready", "drifted"}]
    /\ aliasSvc \in [Repositories -> Builds \cup {NoBuild}]

ThreadTypeOK ==
    /\ pc \in [Threads -> ThreadSteps]
    /\ cur \in [Threads -> Builds \cup {NoBuild}]
    /\ todo \in [Threads -> SUBSET Builds]
    /\ retiring \in [Threads -> [phase : Phases, list : SUBSET Builds]]
    /\ pruned \in [Processes -> SUBSET Builds]

SessionTypeOK ==
    /\ step \in [Sessions -> {"none", "probe", "bind", "create", "active"}]
    /\ kind \in [Sessions -> {"exact", "latest", "workspace"}]
    /\ build \in [Sessions -> Builds \cup {NoBuild}]

TypeOK ==
    /\ DatabaseTypeOK /\ ClusterTypeOK /\ ThreadTypeOK /\ SessionTypeOK
    /\ faults \in Nat

NoRetiring == [phase |-> "flux", list |-> {}]

Init ==
    /\ succeeded = {}
    /\ idle = [b \in Builds |-> FALSE]
    /\ endpoint = [b \in Builds |-> FALSE]
    /\ aliasRow = [r \in Repositories |-> NoBuild]
    /\ aliasOld = [r \in Repositories |-> FALSE]
    /\ binding = [b \in Builds |-> "none"]
    /\ service = [b \in Builds |-> FALSE]
    /\ deploy = [b \in Builds |-> "none"]
    /\ aliasSvc = [r \in Repositories |-> NoBuild]
    /\ pc = [t \in Threads |-> "idle"]
    /\ cur = [t \in Threads |-> NoBuild]
    /\ todo = [t \in Threads |-> {}]
    /\ retiring = [t \in Threads |-> NoRetiring]
    /\ pruned = [p \in Processes |-> {}]
    /\ step = [s \in Sessions |-> "none"]
    /\ kind = [s \in Sessions |-> "exact"]
    /\ build = [s \in Sessions |-> NoBuild]
    /\ faults = 0

-----------------------------------------------------------------------------
(* What the queries select.                                                  *)

Workspace(b) == SourceOf[b] \in Workspaces
Repo(b) == RepoOf[SourceOf[b]]
Newer(a, b) == SourceOf[a] = SourceOf[b] /\ Received[a] > Received[b]
Superseded(b) == \E a \in succeeded : Newer(a, b)

(* An active session pins its build, except one that follows "latest".       *)
Pinned(b) == \E s \in Sessions : step[s] = "active" /\ build[s] = b /\ kind[s] # "latest"

(* Variants that RetiredFlux, Publishable and the actions below must not be: *)
(* a lost condition, an off-by-one, a step out of order.                     *)
PublishableNewest == {b \in succeeded : ~Superseded(b)}
PublishableUnlessIdle ==
    {b \in succeeded : IF Workspace(b) THEN ~idle[b] ELSE ~Superseded(b)}
RetiredFluxInclusive ==
    {b \in succeeded :
        /\ ~Workspace(b) /\ ~Pinned(b)
        /\ \E r \in Repositories :
             /\ aliasRow[r] # NoBuild /\ aliasOld[r]
             /\ Newer(aliasRow[r], b) \/ aliasRow[r] = b}

(* successful_generations                                                    *)
Publishable ==
    {b \in succeeded : IF Workspace(b) THEN ~idle[b] \/ Pinned(b) ELSE ~Superseded(b)}

(* retired_serving_build_ids                                                 *)
RetiredFlux ==
    {b \in succeeded :
        /\ ~Workspace(b) /\ ~Pinned(b)
        /\ \E r \in Repositories :
             aliasRow[r] # NoBuild /\ Newer(aliasRow[r], b) /\ aliasOld[r]}

(* retired_workspace_serving_build_ids                                       *)
RetiredWorkspaces ==
    {b \in succeeded :
        Workspace(b) /\ endpoint[b] /\ idle[b] /\ Superseded(b) /\ ~Pinned(b)}

-----------------------------------------------------------------------------
(* drain_once, publishing.                                                   *)

Goto(t, next) == pc' = [pc EXCEPT ![t] = next]

(* The next item of the loop, or the end of a status request.                *)
Leave(t) ==
    /\ Goto(t, IF t \in Loops THEN "publish" ELSE "idle")
    /\ cur' = [cur EXCEPT ![t] = NoBuild]

(* _observe_active records a success; then the loop turns to publishing.     *)
Succeeds(t, b) ==
    /\ t \in Loops /\ pc[t] = "idle"
    /\ b \notin succeeded
    /\ succeeded' = succeeded \cup {b}
    /\ idle' = [idle EXCEPT ![b] = FALSE]
    /\ UNCHANGED <<endpoint, aliasRow, aliasOld, binding, k8sVars, threadVars, sessionVars, faults>>

LoadPublishable(t) ==
    /\ t \in Loops /\ pc[t] = "idle"
    /\ todo' = [todo EXCEPT ![t] = Publishable]
    /\ Goto(t, "publish")
    /\ UNCHANGED <<dbVars, k8sVars, cur, retiring, pruned, sessionVars, faults>>

TakeBuild(t) ==
    /\ pc[t] = "publish"
    /\ \E b \in todo[t] :
         /\ cur' = [cur EXCEPT ![t] = b]
         /\ todo' = [todo EXCEPT ![t] = @ \ {b}]
    /\ Goto(t, "service")
    /\ UNCHANGED <<dbVars, k8sVars, retiring, pruned, sessionVars, faults>>

(* workspace_build_status: the row is touched before it is served.           *)
StatusRequest(t, b) ==
    /\ t \in Requests /\ pc[t] = "idle"
    /\ b \in succeeded /\ Workspace(b)
    /\ idle' = [idle EXCEPT ![b] = FALSE]
    /\ cur' = [cur EXCEPT ![t] = b]
    /\ Goto(t, "service")
    /\ UNCHANGED <<succeeded, endpoint, aliasRow, aliasOld, binding, k8sVars,
                   todo, retiring, pruned, sessionVars, faults>>

-----------------------------------------------------------------------------
(* CodeGraphPublisher.ensure                                                 *)

CreateServiceOnly(t) ==
    /\ pc[t] = "service"
    /\ service' = [service EXCEPT ![cur[t]] = TRUE]
    /\ Goto(t, "deployment")
    /\ UNCHANGED <<dbVars, deploy, aliasSvc, cur, todo, retiring, pruned, sessionVars, faults>>

CreateService(t) ==
    /\ pc[t] = "service"
    /\ pruned' = [pruned EXCEPT ![Host[t]] = @ \ {cur[t]}]
    /\ service' = [service EXCEPT ![cur[t]] = TRUE]
    /\ Goto(t, "deployment")
    /\ UNCHANGED <<dbVars, deploy, aliasSvc, cur, todo, retiring, sessionVars, faults>>

CreateDeployment(t) ==
    /\ pc[t] = "deployment"
    /\ deploy' = [deploy EXCEPT ![cur[t]] = IF @ = "none" THEN "starting" ELSE @]
    /\ Goto(t, "inspect")
    /\ UNCHANGED <<dbVars, service, aliasSvc, cur, todo, retiring, pruned, sessionVars, faults>>

(* Replicas and image are patched, and only a Deployment that is fully ready *)
(* goes on.  Reading one that was deleted meanwhile raises.                  *)
InspectDeployment(t) ==
    /\ pc[t] = "inspect"
    /\ \/ /\ deploy[cur[t]] = "ready"
          /\ Goto(t, IF t \in Loops /\ ~Workspace(cur[t]) THEN "alias" ELSE "mark")
          /\ UNCHANGED <<deploy, cur>>
       \/ /\ deploy[cur[t]] = "drifted"
          /\ deploy' = [deploy EXCEPT ![cur[t]] = "starting"]
          /\ Leave(t)
       \/ /\ deploy[cur[t]] \in {"none", "starting"}
          /\ Leave(t)
          /\ UNCHANGED deploy
    /\ UNCHANGED <<dbVars, service, aliasSvc, todo, retiring, pruned, sessionVars, faults>>

PatchAliasOnce(t) ==
    /\ pc[t] = "alias"
    /\ aliasSvc' = [aliasSvc EXCEPT ![Repo(cur[t])] = IF @ = NoBuild THEN cur[t] ELSE @]
    /\ Goto(t, "activate")
    /\ UNCHANGED <<dbVars, service, deploy, cur, todo, retiring, pruned, sessionVars, faults>>

PatchAlias(t) ==
    /\ pc[t] = "alias"
    /\ aliasSvc' = [aliasSvc EXCEPT ![Repo(cur[t])] = cur[t]]
    /\ Goto(t, "activate")
    /\ UNCHANGED <<dbVars, service, deploy, cur, todo, retiring, pruned, sessionVars, faults>>

ActivateAliasUnguarded(t) ==
    /\ pc[t] = "activate"
    /\ aliasRow' = [aliasRow EXCEPT ![Repo(cur[t])] = cur[t]]
    /\ aliasOld' = [aliasOld EXCEPT ![Repo(cur[t])] = FALSE]
    /\ Leave(t)
    /\ UNCHANGED <<succeeded, idle, endpoint, binding, k8sVars,
                   todo, retiring, pruned, sessionVars, faults>>

(* activate_serving_alias                                                    *)
ActivateAlias(t) ==
    LET b == cur[t]
        r == Repo(b)
    IN  /\ pc[t] = "activate"
        /\ IF aliasRow[r] # b /\ ~Superseded(b)
           THEN /\ aliasRow' = [aliasRow EXCEPT ![r] = b]
                /\ aliasOld' = [aliasOld EXCEPT ![r] = FALSE]
           ELSE UNCHANGED <<aliasRow, aliasOld>>
        /\ Leave(t)
        /\ UNCHANGED <<succeeded, idle, endpoint, binding, k8sVars,
                       todo, retiring, pruned, sessionVars, faults>>

(* mark_workspace_served                                                     *)
MarkServed(t) ==
    /\ pc[t] = "mark"
    /\ endpoint' = [endpoint EXCEPT ![cur[t]] = TRUE]
    /\ Leave(t)
    /\ UNCHANGED <<succeeded, idle, aliasRow, aliasOld, binding, k8sVars,
                   todo, retiring, pruned, sessionVars, faults>>

-----------------------------------------------------------------------------
(* drain_once, retiring: prune_build_ids for the Flux list, then for the     *)
(* workspace list, whose endpoints are cleared at the end.                   *)

StartRetiring(t, phase, list) ==
    /\ retiring' = [retiring EXCEPT ![t] = [phase |-> phase, list |-> list]]
    /\ todo' = [todo EXCEPT ![t] = list]
    /\ Goto(t, "retire")

LoadRetiredFlux(t) ==
    /\ pc[t] = "publish" /\ todo[t] = {}
    /\ StartRetiring(t, "flux", RetiredFlux)
    /\ UNCHANGED <<dbVars, k8sVars, cur, pruned, sessionVars, faults>>

LoadRetiredWorkspaces(t) ==
    /\ pc[t] = "retire" /\ todo[t] = {} /\ retiring[t].phase = "flux"
    /\ StartRetiring(t, "workspace", RetiredWorkspaces)
    /\ UNCHANGED <<dbVars, k8sVars, cur, pruned, sessionVars, faults>>

DeleteServicePruned(t) ==
    /\ pc[t] = "retire"
    /\ \E b \in todo[t] :
         /\ todo' = [todo EXCEPT ![t] = @ \ {b}]
         /\ IF b \in pruned[Host[t]]
            THEN UNCHANGED <<pc, cur, service, pruned>>
            ELSE /\ service' = [service EXCEPT ![b] = FALSE]
                 /\ pruned' = [pruned EXCEPT ![Host[t]] = @ \cup {b}]
                 /\ cur' = [cur EXCEPT ![t] = b]
                 /\ Goto(t, "undeploy")
    /\ UNCHANGED <<dbVars, deploy, aliasSvc, retiring, sessionVars, faults>>

DeleteService(t) ==
    /\ pc[t] = "retire"
    /\ \E b \in todo[t] :
         /\ todo' = [todo EXCEPT ![t] = @ \ {b}]
         /\ IF b \in pruned[Host[t]]
            THEN UNCHANGED <<pc, cur, service>>
            ELSE /\ service' = [service EXCEPT ![b] = FALSE]
                 /\ cur' = [cur EXCEPT ![t] = b]
                 /\ Goto(t, "undeploy")
    /\ UNCHANGED <<dbVars, deploy, aliasSvc, retiring, pruned, sessionVars, faults>>

DeleteDeployment(t) ==
    /\ pc[t] = "undeploy"
    /\ deploy' = [deploy EXCEPT ![cur[t]] = "none"]
    /\ pruned' = [pruned EXCEPT ![Host[t]] = @ \cup {cur[t]}]
    /\ cur' = [cur EXCEPT ![t] = NoBuild]
    /\ Goto(t, "retire")
    /\ UNCHANGED <<dbVars, service, aliasSvc, todo, retiring, sessionVars, faults>>

ToIdle(t) ==
    /\ Goto(t, "idle")
    /\ retiring' = [retiring EXCEPT ![t] = NoRetiring]

ClearEndpoints(t) ==
    /\ pc[t] = "retire" /\ todo[t] = {} /\ retiring[t].phase = "workspace"
    /\ endpoint' = [b \in Builds |-> endpoint[b] /\ b \notin retiring[t].list]
    /\ ToIdle(t)
    /\ UNCHANGED <<succeeded, idle, aliasRow, aliasOld, binding, k8sVars,
                   cur, todo, pruned, sessionVars, faults>>

-----------------------------------------------------------------------------
(* Capability sessions: issue_codegraph_session for a workspace snapshot,    *)
(* issue_flux_codegraph_session for an exact revision or for "latest".       *)

StepTo(s, next) == step' = [step EXCEPT ![s] = next]

(* flux_generation_candidate, latest_serving_candidate and                   *)
(* workspace_generation_candidate                                            *)
Candidates(how) ==
    CASE how = "exact" -> {b \in succeeded : ~Workspace(b)}
      [] how = "latest" -> {aliasRow[r] : r \in Repositories} \ {NoBuild}
      [] how = "workspace" -> {b \in succeeded : Workspace(b) /\ endpoint[b]}

LookUp(s) ==
    /\ step[s] = "none"
    /\ \E how \in {"exact", "latest", "workspace"} : \E b \in Candidates(how) :
         /\ kind' = [kind EXCEPT ![s] = how]
         /\ build' = [build EXCEPT ![s] = b]
         /\ StepTo(s, IF how = "workspace" THEN "bind" ELSE "probe")
    /\ UNCHANGED <<dbVars, k8sVars, threadVars, faults>>

(* The generation a call to an endpoint reaches, if its Pod is ready.        *)
EndpointOf(how) == IF how = "latest" THEN "alias" ELSE "own"
Target(b, how) == IF how = "alias" THEN aliasSvc[Repo(b)] ELSE b
Answers(b, how) ==
    LET target == Target(b, how)
    IN  target # NoBuild /\ deploy[target] = "ready" /\ (how = "own" => service[target])

Forget(s) ==
    /\ StepTo(s, "none")
    /\ build' = [build EXCEPT ![s] = NoBuild]
    /\ kind' = [kind EXCEPT ![s] = "exact"]

(* CodeGraphRouter.list_tools; the request may fail all the same.            *)
Probe(s) ==
    /\ step[s] = "probe"
    /\ \/ /\ Answers(build[s], EndpointOf(kind[s]))
          /\ StepTo(s, IF kind[s] = "workspace" THEN "create" ELSE "bind")
          /\ UNCHANGED <<kind, build>>
       \/ Forget(s)
    /\ UNCHANGED <<dbVars, k8sVars, threadVars, faults>>

(* activate_flux_binding: the row is shared by all sessions of a build.      *)
Bind(s) ==
    /\ step[s] = "bind"
    /\ binding' = [binding EXCEPT ![build[s]] = EndpointOf(kind[s])]
    /\ StepTo(s, IF kind[s] = "workspace" THEN "probe" ELSE "create")
    /\ UNCHANGED <<succeeded, idle, endpoint, aliasRow, aliasOld, k8sVars, threadVars,
                   kind, build, faults>>

CreateSession(s) ==
    /\ step[s] = "create"
    /\ StepTo(s, "active")
    /\ UNCHANGED <<dbVars, k8sVars, threadVars, kind, build, faults>>

(* release_session, or expires_at has passed.                                *)
EndSession(s) ==
    /\ step[s] = "active"
    /\ Forget(s)
    /\ UNCHANGED <<dbVars, k8sVars, threadVars, faults>>

-----------------------------------------------------------------------------
(* Kubernetes, time and faults.                                              *)

BecomesReady(b) ==
    /\ deploy[b] = "starting"
    /\ deploy' = [deploy EXCEPT ![b] = "ready"]
    /\ UNCHANGED <<dbVars, service, aliasSvc, threadVars, sessionVars, faults>>

(* Its image or replica count is no longer what the publisher wants.         *)
Drifts(b) ==
    /\ deploy[b] = "ready" /\ faults < MaxFaults
    /\ deploy' = [deploy EXCEPT ![b] = "drifted"]
    /\ faults' = faults + 1
    /\ UNCHANGED <<dbVars, service, aliasSvc, threadVars, sessionVars>>

(* Builds a thread is about to publish.                                      *)
InHand(t) == (IF pc[t] = "publish" THEN todo[t] ELSE {})
             \cup (IF pc[t] \in Ensuring THEN todo[t] \cup {cur[t]} ELSE {})

(* The grace period is longer than a pass takes or a replaced controller     *)
(* lives on: none still publishes what the alias has left behind.            *)
GraceEnds(r) ==
    /\ aliasRow[r] # NoBuild /\ ~aliasOld[r]
    /\ \A t \in Loops : \A b \in InHand(t) : ~Newer(aliasRow[r], b)
    /\ aliasOld' = [aliasOld EXCEPT ![r] = TRUE]
    /\ UNCHANGED <<succeeded, idle, endpoint, aliasRow, binding,
                   k8sVars, threadVars, sessionVars, faults>>

Served(b) == endpoint[b] /\ service[b] /\ deploy[b] = "ready"

(* The TTL is an hour and a pass comes every few seconds: when it ends, the  *)
(* last touch has long been followed by a pass that published the row.       *)
TtlEnds(b) ==
    /\ b \in succeeded /\ Workspace(b) /\ ~idle[b]
    /\ Served(b) /\ \A p \in Processes : b \notin pruned[p]
    /\ \A t \in Threads : b \notin InHand(t) \cup retiring[t].list
    /\ idle' = [idle EXCEPT ![b] = TRUE]
    /\ UNCHANGED <<succeeded, endpoint, aliasRow, aliasOld, binding,
                   k8sVars, threadVars, sessionVars, faults>>

(* The workspace's event arrives again: record_event finds the row of its    *)
(* digest and touches it, whatever its age.                                  *)
WorkspaceAnnounced(b) ==
    /\ b \in succeeded /\ Workspace(b)
    /\ idle' = [idle EXCEPT ![b] = FALSE]
    /\ UNCHANGED <<succeeded, endpoint, aliasRow, aliasOld, binding,
                   k8sVars, threadVars, sessionVars, faults>>

(* A call raises.  The loop goes on with the next build; in prune_build_ids  *)
(* the rest of the list is given up, and endpoints are not cleared.          *)
StepFails(t) ==
    /\ faults < MaxFaults
    /\ \/ /\ pc[t] \in Ensuring
          /\ Leave(t)
          /\ UNCHANGED <<todo, retiring>>
       \/ /\ pc[t] \in Retiring /\ retiring[t].phase = "flux"
          /\ Goto(t, "retire")
          /\ todo' = [todo EXCEPT ![t] = {}]
          /\ cur' = [cur EXCEPT ![t] = NoBuild]
          /\ UNCHANGED retiring
       \/ /\ pc[t] \in Retiring /\ retiring[t].phase = "workspace"
          /\ ToIdle(t)
          /\ todo' = [todo EXCEPT ![t] = {}]
          /\ cur' = [cur EXCEPT ![t] = NoBuild]
    /\ faults' = faults + 1
    /\ UNCHANGED <<dbVars, k8sVars, pruned, sessionVars>>

(* The process is killed and started again, or, while another one runs, ends *)
(* for good: a rolling update starts the new controller first.               *)
Running(p) == \E t \in Threads : Host[t] = p /\ pc[t] # "gone"
Crash(p) ==
    /\ Running(p) /\ faults < MaxFaults
    /\ \E next \in {"idle", "gone"} :
         /\ next = "gone" => \E q \in Processes \ {p} : Running(q)
         /\ pc' = [t \in Threads |-> IF Host[t] = p THEN next ELSE pc[t]]
    /\ cur' = [t \in Threads |-> IF Host[t] = p THEN NoBuild ELSE cur[t]]
    /\ todo' = [t \in Threads |-> IF Host[t] = p THEN {} ELSE todo[t]]
    /\ retiring' = [t \in Threads |-> IF Host[t] = p THEN NoRetiring ELSE retiring[t]]
    /\ pruned' = [pruned EXCEPT ![p] = {}]
    /\ faults' = faults + 1
    /\ UNCHANGED <<dbVars, k8sVars, sessionVars>>

-----------------------------------------------------------------------------
ThreadStep(t) ==
    \/ LoadPublishable(t) \/ TakeBuild(t)
    \/ CreateService(t) \/ CreateDeployment(t) \/ InspectDeployment(t)
    \/ PatchAlias(t) \/ ActivateAlias(t) \/ MarkServed(t)
    \/ LoadRetiredFlux(t) \/ LoadRetiredWorkspaces(t)
    \/ DeleteService(t) \/ DeleteDeployment(t) \/ ClearEndpoints(t)

SessionStep(s) == LookUp(s) \/ Probe(s) \/ Bind(s) \/ CreateSession(s) \/ EndSession(s)

Next ==
    \/ \E t \in Threads : ThreadStep(t) \/ StepFails(t)
    \/ \E t \in Threads, b \in Builds : Succeeds(t, b) \/ StatusRequest(t, b)
    \/ \E s \in Sessions : SessionStep(s)
    \/ \E b \in Builds : BecomesReady(b) \/ Drifts(b) \/ TtlEnds(b) \/ WorkspaceAnnounced(b)
    \/ \E r \in Repositories : GraceEnds(r)
    \/ \E p \in Processes : Crash(p)

Spec == Init /\ [][Next]_vars

(* The loop of a process polls for ever, once it got through its first drain *)
(* (DrainRaises of CodegraphBuilds is the case that it did not), and a       *)
(* request runs to its end; Pods start; the grace period passes.  Agents     *)
(* need not ask for anything.                                                *)
Fairness ==
    /\ \A t \in Threads : WF_vars(ThreadStep(t))
    /\ \A b \in Builds : WF_vars(BecomesReady(b))
    /\ \A r \in Repositories : WF_vars(GraceEnds(r))

FairSpec == Spec /\ Fairness

-----------------------------------------------------------------------------
(* Properties.                                                               *)

(* The alias never goes back to an older generation, whatever stale lists    *)
(* the processes work through.                                               *)
AliasNeverGoesBack ==
    [][\A r \in Repositories :
         aliasRow[r] # NoBuild => aliasRow'[r] = aliasRow[r] \/ ~Newer(aliasRow[r], aliasRow'[r])]_vars

(* Retirement spares the generation that latest sessions are sent to.        *)
LatestIsSpared ==
    [][\A r \in Repositories :
         LET b == aliasRow[r]
         IN  b # NoBuild /\ deploy[b] # "none" => deploy'[b] # "none"]_vars

(* In the end the alias row and the latest Service both lead to the newest   *)
(* generation, and it runs, though two processes patch them in any order.    *)
LatestConverges ==
    \A b \in Builds :
        ~Workspace(b) =>
            <>[](b \in succeeded /\ ~Superseded(b) =>
                    /\ aliasRow[Repo(b)] = b /\ aliasSvc[Repo(b)] = b
                    /\ service[b] /\ deploy[b] = "ready")

(* A superseded generation that nobody pins does not run for ever.           *)
OldGenerationsGo ==
    \A b \in Builds :
        ~Workspace(b) =>
            [](b \in succeeded /\ Superseded(b) => <>(deploy[b] = "none" \/ Pinned(b)))

(* A workspace generation that was asked for becomes available, though       *)
(* retirement may be deleting it at that very moment.                        *)
RequestedIsServed ==
    \A b \in Builds : (b \in succeeded /\ Workspace(b) /\ ~idle[b]) ~> Served(b)

(* A workspace session whose generation was deleted under it gets it back.   *)
SessionIsServedAgain ==
    \A s \in Sessions :
        (step[s] = "active" /\ kind[s] = "workspace")
            ~> (step[s] # "active" \/ Answers(build[s], "own"))

(* An idle, superseded workspace generation that nobody uses is removed.     *)
IdleGenerationsGo ==
    \A b \in Builds :
        [](b \in succeeded /\ Workspace(b) /\ idle[b] /\ Superseded(b) /\ endpoint[b]
            => <>(deploy[b] = "none" \/ ~idle[b] \/ Pinned(b)))

(* "Every CodeGraph list/call re-resolves the exact READY registry binding   *)
(* for the capability session's project/run/realm/revision identity."        *)
(* (codegraph_plane.py): an exact session never reaches another revision.    *)
ExactStaysExact ==
    \A s \in Sessions :
        step[s] = "active" /\ kind[s] = "exact" =>
            \/ ~Answers(build[s], binding[build[s]])
            \/ Target(build[s], binding[build[s]]) = build[s]
=============================================================================
